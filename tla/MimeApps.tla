------------------------------ MODULE MimeApps ------------------------------
(* The default application for folders, as the files of the desktop say it   *)
(* and as Panefile writes it (platform/linux/XdgMimeApps.cpp, with           *)
(* queryDefaultFileManager and makePanefileDefaultFileManager): a list of    *)
(* files by precedence, some of them the user's and some the system's, some  *)
(* that cannot be written, and applications that come and go under them.     *)
EXTENDS Naturals, Sequences, SequencesExt, FiniteSetsExt

CONSTANTS
    Apps,           \* desktop ids, Us among them
    Us,             \* kPanefileDesktopId
    Paths,          \* the files by precedence
    UserFile,       \* the user's own mimeapps.list, one of them
    UserPaths,      \* those under the user's own directories
    MaxChanges,     \* bound on what others do
    MaxEntries      \* bound on the length of a list of applications

VARIABLES
    files,          \* path -> what it says of the type
    readOnly,       \* the path that cannot be replaced, if there is one
    installed,      \* applications with a desktop entry that is not hidden
    service,        \* the D-Bus service file: "none", "ours" or "stale"
    result,         \* of the last makePanefileDefaultFileManager()
    theirs,         \* history: paths others have written
    changes

vars == <<files, readOnly, installed, service, result, theirs, changes>>

(* Whether it is there and can be read; the lines of the two groups for the type, <<>> being no line; and *)
(* whether the rest of what others wrote there is still there.               *)
NoFile == [exists |-> FALSE, readable |-> TRUE, defaults |-> <<>>, added |-> <<>>, rest |-> FALSE]

Lists == {s \in SeqOf(Apps, MaxEntries) : IsInjective(s)}

TypeOK ==
    /\ files \in [Range(Paths) -> [exists : BOOLEAN, readable : BOOLEAN, defaults : Seq(Apps),
                                   added : Seq(Apps), rest : BOOLEAN]]
    /\ readOnly \in SUBSET UserPaths
    /\ installed \in SUBSET Apps
    /\ service \in {"none", "ours", "stale"}
    /\ result \in {"none", "ok", "refused"}
    /\ theirs \in SUBSET Range(Paths)
    /\ changes \in 0..MaxChanges

Init ==
    /\ files = [p \in Range(Paths) |-> NoFile]
    /\ readOnly \in {{}} \cup {{p} : p \in UserPaths}
    /\ installed \in SUBSET Apps
    /\ service \in {"none", "stale"}
    /\ result = "none"
    /\ theirs = {}
    /\ changes = 0

-----------------------------------------------------------------------------
(* readFile(): a file that cannot be read is like an empty one. *)
Read(p) ==
    IF files[p].readable THEN files[p] ELSE [NoFile EXCEPT !.exists = TRUE]

(* resolveDefault(): the first application of the first file that names one  *)
(* that is installed.                                                        *)
Named(p) == {i \in DOMAIN Read(p).defaults : Read(p).defaults[i] \in installed}
Deciding == {k \in DOMAIN Paths : Named(Paths[k]) # {}}
ResolveDefault ==
    IF Deciding = {} THEN "none"
    ELSE LET p == Paths[Min(Deciding)]
         IN  Read(p).defaults[Min(Named(p))]

(* queryDefaultFileManager() and isDefault() *)
IsDefault == ResolveDefault = Us /\ service = "ours"

(* A list of applications without Us. *)
TheOthers(list) ==
    IF \E i \in DOMAIN list : list[i] = Us
      THEN RemoveAt(list, CHOOSE i \in DOMAIN list : list[i] = Us)
      ELSE list

(* withDefaultApplication(): the one default, and first among the added.     *)
WithDefaultApplication(f) ==
    IF f.defaults = <<Us>> /\ f.added # <<>> /\ Head(f.added) = Us THEN f
    ELSE [f EXCEPT !.exists = TRUE,
                   !.defaults = <<Us>>,
                   !.added = <<Us>> \o TheOthers(@)]

(* chooseMimeappsFile(): the first file that sets the type, if it is the     *)
(* user's and can be replaced; else the user's own, unless that would lose.  *)
Setting == {k \in DOMAIN Paths : Read(Paths[k]).defaults # <<>>}
ChooseMimeappsFile ==
    LET first == Min(Setting)
        userIndex == Min({k \in DOMAIN Paths : Paths[k] = UserFile})
    IN  IF Setting = {} THEN UserFile
        ELSE IF Paths[first] \in UserPaths \ readOnly THEN Paths[first]
        ELSE IF first < userIndex THEN "overridden"
        ELSE UserFile

(* A file that cannot be read is taken for an empty one. *)
MayWriteSlip(p, after) ==
    p # "overridden" /\ (p \in readOnly => Read(p) = after)

(* setDefaultApplication() goes on to write this file, or has no need to.    *)
MayWrite(p, after) ==
    /\ p # "overridden"
    /\ files[p].readable
    /\ p \in readOnly => Read(p) = after

(* setDefaultApplication() fails. *)
SetDefaultFails ==
    LET p == ChooseMimeappsFile
    IN  /\ p = "overridden" \/ ~MayWrite(p, WithDefaultApplication(Read(p)))
        /\ result' = "refused"
        /\ UNCHANGED <<files, service>>

(* writeFileManagerServiceFile(), which may fail *)
WriteServiceFile ==
    /\ service' \in {service, "ours"}
    /\ result' = IF service' = "ours" THEN "ok" ELSE "refused"

(* setDefaultApplication(), all of the file at once, and the other half.     *)
SetDefaultApplication ==
    LET p == ChooseMimeappsFile
    IN  /\ p # "overridden"
        /\ LET after == WithDefaultApplication(Read(p))
           IN  /\ MayWrite(p, after)
               /\ files' = [files EXCEPT ![p] = after]
        /\ WriteServiceFile

(* makePanefileDefaultFileManager() *)
MakeDefault ==
    /\ \/ Us \notin installed /\ result' = "refused" /\ UNCHANGED <<files, service>>
       \/ Us \in installed /\ SetDefaultFails
       \/ Us \in installed /\ SetDefaultApplication
    /\ UNCHANGED <<readOnly, installed, theirs, changes>>

-----------------------------------------------------------------------------
Change == changes < MaxChanges /\ changes' = changes + 1 /\ result' = "none"

(* Another program or the user edits one of the files. *)
OthersEdit ==
    /\ Change
    /\ \E p \in Range(Paths), d, a \in Lists, r \in BOOLEAN :
          /\ files' = [files EXCEPT ![p] =
                 [exists |-> TRUE, readable |-> r, defaults |-> d, added |-> a, rest |-> TRUE]]
          /\ theirs' = theirs \cup {p}
    /\ UNCHANGED <<readOnly, installed, service>>

(* Applications are installed and removed; the pf of the service file may    *)
(* have been one of them.                                                    *)
OthersInstall ==
    /\ Change
    /\ installed' \in {installed \cup {a} : a \in Apps} \cup {installed \ {a} : a \in Apps}
    /\ service' \in {service} \cup (IF service = "ours" THEN {"stale"} ELSE {})
    /\ UNCHANGED <<files, readOnly, theirs>>

Next ==
    \/ MakeDefault
    \/ OthersEdit
    \/ OthersInstall

Spec == Init /\ [][Next]_vars

-----------------------------------------------------------------------------
(* When making Panefile the default is reported to have worked, it is what   *)
(* the files now say, whichever of them set the default before, wherever     *)
(* they rank and whatever can be written; and what others had written in     *)
(* them is still there.                                                      *)
MakingItDefaultWorks ==
    /\ result = "ok" => IsDefault
    /\ \A p \in theirs : files[p].rest
=============================================================================
