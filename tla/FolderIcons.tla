---------------------------- MODULE FolderIcons -----------------------------
(* The icons the user chooses for folders (model/FolderIconStore.cpp): kept  *)
(* by path, in a file that is written on every change, with the masks of     *)
(* pasted pictures in files beside it; told of the renames, moves and        *)
(* deletions Panefile makes (app/FileOperations.cpp, app/PanelController.cpp).*)
EXTENDS Naturals, Sequences, SequencesExt, Functions

CONSTANTS
    Folders,        \* the folders there are at first
    Start,          \* the path of each, a sequence of names
    Names,
    Images,         \* glyphs that are pasted pictures
    Emblems,        \* the other glyphs
    MaxSteps        \* bound on what the user does

VARIABLES
    at,             \* folder -> path, of the folders that exist
    want,           \* history: folder -> the glyph chosen for it
    loaded,         \* m_loaded
    icons,          \* m_icons: path -> glyph
    images,         \* m_images: the pictures held in memory
    json, masks,    \* on disk
    damaged,        \* the file on disk cannot be parsed until it is repaired
    unsaved,        \* history: a save has failed
    astray,         \* history: so has one, or the file could not be read, the
                    \* process died before it had written of a deletion, or a
                    \* rename was undone
    undo,           \* the renames that can be undone, the last first
    steps

disk == <<json, masks, damaged>>
history == <<unsaved, astray>>
vars == <<at, want, loaded, icons, images, disk, history, undo, steps>>

Glyphs == Images \cup Emblems

Init ==
    /\ at = Start
    /\ want = <<>>
    /\ loaded = FALSE
    /\ icons = <<>> /\ images = {}
    /\ json = <<>> /\ masks = {} /\ damaged = FALSE
    /\ unsaved = FALSE /\ astray = FALSE
    /\ undo = <<>>
    /\ steps = 0

Step == steps < MaxSteps /\ steps' = steps + 1

(* pruneImages(): only the masks of choices stay. *)
PruneImages(chosen, on) == on \cap Range(chosen)

(* Masks are pruned although the file that names them could not be read. *)
EnsureLoadedSlip ==
    /\ loaded' = TRUE
    /\ icons' = IF damaged THEN <<>> ELSE Restrict(json, {p \in DOMAIN json : json[p] \in Emblems \cup masks})
    /\ images' = Range(icons') \cap Images
    /\ masks' = PruneImages(icons', masks)
    /\ astray' = (astray \/ damaged)

(* ensureLoaded(): choices without artwork are dropped. *)
EnsureLoaded ==
    /\ loaded' = TRUE
    /\ icons' = IF damaged THEN <<>> ELSE Restrict(json, {p \in DOMAIN json : json[p] \in Emblems \cup masks})
    /\ images' = Range(icons') \cap Images
    /\ masks' = IF damaged THEN masks ELSE PruneImages(icons', masks)
    /\ astray' = (astray \/ damaged)

(* DirectoryModel::setPath(), before anything can be chosen. *)
ShowFolder ==
    /\ ~loaded
    /\ EnsureLoaded
    /\ UNCHANGED <<at, want, json, damaged, unsaved, undo, steps>>

-----------------------------------------------------------------------------
(* save() and then pruneImages(): it may fail to write, which is only        *)
(* logged, and the process may die before, between or after the two.         *)
Save(chosen, on, wanted) ==
    /\ icons' = chosen
    /\ \/ /\ json' = chosen /\ damaged' = FALSE /\ want' = wanted
          /\ \/ masks' = PruneImages(chosen, on) /\ loaded' = loaded
             \/ masks' = on /\ loaded' = FALSE
          /\ UNCHANGED history
       \/ /\ UNCHANGED <<json, damaged, want, unsaved>> /\ loaded' = FALSE
          /\ masks' = on
          /\ astray' = (astray \/ at' # at)
       \/ /\ UNCHANGED <<json, damaged, loaded>> /\ want' = wanted
          /\ masks' = PruneImages(chosen, on)
          /\ unsaved' = TRUE /\ astray' = TRUE

(* set(): a picture is written before the choice of it is. *)
Set ==
    /\ Step /\ loaded
    /\ at' = at
    /\ \E f \in DOMAIN at, g \in Glyphs :
          /\ images' = images \cup ({g} \cap Images)
          /\ \/ Save((at[f] :> g) @@ icons, masks \cup ({g} \cap Images), (f :> g) @@ want)
             \/ g \in Images \ masks /\ UNCHANGED <<want, loaded, icons, disk, history>>
    /\ UNCHANGED undo

(* clear(): "Default" in the picker, or Reset folder icon. *)
Clear ==
    /\ Step /\ loaded
    /\ at' = at
    /\ \E f \in DOMAIN at :
          /\ at[f] \in DOMAIN icons
          /\ Save(Restrict(icons, DOMAIN icons \ {at[f]}), masks, Restrict(want, DOMAIN want \ {f}))
    /\ UNCHANGED <<images, undo>>

-----------------------------------------------------------------------------
Below(p, top) == IsPrefix(top, p)

MovedPath(p, from, to) ==
    IF Below(p, from) THEN to \o SubSeq(p, Len(from) + 1, Len(p)) ELSE p

(* renamed(): the choice follows, and those of everything beneath it. *)
Renamed(chosen, from, to) ==
    LET below == {p \in DOMAIN chosen : Below(p, from)}
        moved == [p \in {MovedPath(q, from, to) : q \in below} |->
                     chosen[from \o SubSeq(p, Len(to) + 1, Len(p))]]
    IN  moved @@ Restrict(chosen, DOMAIN chosen \ below)

(* A rename or a move of one folder, or a swap of two of a folder through a  *)
(* temporary name: the steps a job completed, in order.                      *)
Plans ==
    LET step(from, to) == [from |-> from, to |-> to]
        free == {Append(d, n) : d \in {<<>>} \cup Range(at), n \in Names} \ Range(at)
        siblings == {pair \in Range(at) \X Range(at) :
                        pair[1] # pair[2] /\ Front(pair[1]) = Front(pair[2])}
        spare(p) == Append(Front(p), "temporary")
    IN  {<<step(p, q)>> : p \in Range(at), q \in free}
          \cup {<<step(pair[1], spare(pair[1])), step(pair[2], pair[1]),
                  step(spare(pair[1]), pair[2])>> : pair \in siblings}

Possible(plan) ==
    /\ ~Below(plan[1].to, plan[1].from)
    /\ Len(plan[1].to) <= 2

OnDisk(places, plan) ==
    FoldLeft(LAMBDA pl, s : [f \in DOMAIN pl |-> MovedPath(pl[f], s.from, s.to)], places, plan)

(* jobFinished of a rename or a move, which saves at every step. *)
RenameJob ==
    /\ Step /\ loaded
    /\ \E plan \in Plans :
          /\ Possible(plan)
          /\ at' = OnDisk(at, plan)
          /\ LET after == FoldLeft(LAMBDA c, s : Renamed(c, s.from, s.to), icons, plan)
             IN  /\ icons' = after
                 /\ IF after = icons THEN UNCHANGED <<json, damaged, history>>
                    ELSE \/ json' = after /\ damaged' = FALSE /\ UNCHANGED history
                         \/ unsaved' = TRUE /\ astray' = TRUE /\ UNCHANGED <<json, damaged>>
          /\ undo' = <<plan>>
    /\ UNCHANGED <<want, loaded, images, masks>>

(* removed(), after a permanent deletion. *)
DeleteForGood ==
    /\ Step /\ loaded
    /\ \E f \in DOMAIN at :
          LET gone == {g \in DOMAIN at : Below(at[g], at[f])}
              kept == Restrict(icons, {p \in DOMAIN icons : ~Below(p, at[f])})
          IN  /\ at' = Restrict(at, DOMAIN at \ gone)
              /\ LET wanted == Restrict(want, DOMAIN want \ gone)
                 IN  IF kept # icons THEN Save(kept, masks, wanted)
                     ELSE want' = wanted /\ UNCHANGED <<icons, loaded, disk, history>>
    /\ undo' = <<>>
    /\ UNCHANGED images

(* Quitting, or dying between two changes; then the folder is shown anew. *)
Quit ==
    /\ Step /\ loaded
    /\ loaded' = FALSE
    /\ undo' = <<>>
    /\ UNCHANGED <<at, want, icons, images, disk, history>>

(* The user breaks the file by hand, and mends it. *)
Damage ==
    /\ Step
    /\ damaged' = ~damaged
    /\ UNCHANGED <<at, want, loaded, icons, images, json, masks, history, undo>>

(* UndoStack::undo(), which moves the folders back and tells nobody. *)
Undo ==
    /\ Step /\ loaded /\ undo # <<>>
    /\ LET back == Reverse(Head(undo))
       IN  at' = OnDisk(at, [i \in DOMAIN back |-> [from |-> back[i].to, to |-> back[i].from]])
    /\ undo' = <<>>
    /\ astray' = TRUE
    /\ UNCHANGED <<want, loaded, icons, images, disk, unsaved>>

Next ==
    \/ ShowFolder
    \/ Set
    \/ Clear
    \/ RenameJob
    \/ Undo
    \/ DeleteForGood
    \/ Quit
    \/ Damage

Spec == Init /\ [][Next]_vars

-----------------------------------------------------------------------------
(* Whatever is written, and whenever the process dies or finds a file it     *)
(* cannot read, the picture of every choice the file names is beside it, so  *)
(* that it is found at the next launch, or once the file has been mended.    *)
MasksAreThere ==
    ~unsaved => Range(json) \cap Images \subseteq masks

(* The choice for a folder stays with it, through renames, moves, swaps and  *)
(* the deletion of others, whether it was moved itself or lies beneath; but  *)
(* not when a rename is undone, which nobody tells the store.                *)
IconsFollow ==
    (loaded /\ ~astray) =>
        \A f \in DOMAIN at :
           IF f \in DOMAIN want
             THEN at[f] \in DOMAIN icons /\ icons[at[f]] = want[f]
             ELSE at[f] \notin DOMAIN icons
=============================================================================
