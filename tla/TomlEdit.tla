-------------------------------- MODULE TomlEdit --------------------------------
(***************************************************************************)
(* The editing of one value in a configuration file that a person also     *)
(* edits: the file is a sequence of lines, and everything but the one      *)
(* assignment is to stay as it was.                                        *)
(***************************************************************************)
EXTENDS Integers, SequencesExt

CONSTANTS
    Tables,        \* the tables a file may have, besides the top level
    Keys, Values,
    MaxLines       \* bound: how long a file gets

Top == "top"
Header(t) == [kind |-> "table", table |-> t, key |-> "", value |-> ""]
Assignment(k, v) == [kind |-> "key", table |-> "", key |-> k, value |-> v]
Comment == [kind |-> "comment", table |-> "", key |-> "", value |-> ""]
Blank == [kind |-> "blank", table |-> "", key |-> "", value |-> ""]
Lines ==
    {Header(t) : t \in Tables} \cup {Assignment(k, v) : k \in Keys, v \in Values}
    \cup {Comment, Blank}

VARIABLES text,    \* the file, line by line
          made     \* the assignment the program made last: table, key, value

vars == <<text, made>>

NoAssignment == [table |-> "none", key |-> "none", value |-> "none"]

Init == text = <<>> /\ made = NoAssignment

(* The table line i belongs to: that of the last header up to it. *)
TableAt(lines, i) ==
    LET headers == { j \in 1 .. i : lines[j].kind = "table" }
    IN IF headers = {} THEN Top ELSE lines[CHOOSE j \in headers : \A h \in headers : h <= j].table

AssignmentsOf(lines, t, k) ==
    { i \in 1 .. Len(lines) :
        lines[i].kind = "key" /\ lines[i].key = k /\ TableAt(lines, i) = t }

(* The line after the last one of the first stretch of t, blank lines at   *)
(* its end left out; 0 when there is none.                                 *)
EndOf(lines, t) ==
    LET inside == { i \in 0 .. Len(lines) : TableAt(lines, i) = t }
        ends == { i \in inside : i = Len(lines) \/ lines[i + 1].kind = "table" }
        first == CHOOSE i \in ends : \A e \in ends : i <= e
        kept == { i \in 0 .. first : i = 0 \/ lines[i].kind # "blank" }
    IN IF inside = {} THEN 0 ELSE 1 + CHOOSE i \in kept : \A e \in kept : e <= i

(* A top-level key that is new goes to the end, like any other. *)
SetValueSlip(lines, t, k, v) ==
    LET found == AssignmentsOf(lines, t, k)
        line == Assignment(k, v)
        gap == IF lines # <<>> /\ Last(lines).kind # "blank" THEN <<Blank>> ELSE <<>>
    IN CASE found # {} ->
              [lines EXCEPT ![CHOOSE i \in found : \A j \in found : i <= j].value = v]
         [] found = {} /\ t # Top /\ EndOf(lines, t) # 0 -> InsertAt(lines, EndOf(lines, t), line)
         [] found = {} /\ t = Top -> Append(lines, line)
         [] OTHER -> lines \o gap \o <<Header(t), line, Blank>>

(* The first assignment of the key is given the value; else one is added   *)
(* to its table, else the table to the file.                               *)
SetValue(lines, t, k, v) ==
    LET found == AssignmentsOf(lines, t, k)
        line == Assignment(k, v)
        gap == IF lines # <<>> /\ Last(lines).kind # "blank" THEN <<Blank>> ELSE <<>>
    IN CASE found # {} ->
              [lines EXCEPT ![CHOOSE i \in found : \A j \in found : i <= j].value = v]
         [] found = {} /\ EndOf(lines, t) # 0 -> InsertAt(lines, EndOf(lines, t), line)
         [] OTHER -> lines \o gap \o <<Header(t), line, Blank>>

RemoveValue(lines, t, k) ==
    LET found == AssignmentsOf(lines, t, k)
    IN IF found = {} THEN lines
       ELSE RemoveAt(lines, CHOOSE i \in found : \A j \in found : i <= j)

(* A setting is changed in its window, or a shortcut recorded. *)
Write(t, k, v) ==
    /\ text' = SetValue(text, t, k, v)
    /\ Len(text') <= MaxLines
    /\ made' = [table |-> t, key |-> k, value |-> v]

(* A shortcut goes back to its default. *)
Reset(t, k) ==
    /\ text' = RemoveValue(text, t, k)
    /\ made' = NoAssignment

(* A person adds a line with an editor: a table once, a key once in it. *)
Type(line) ==
    /\ Len(text) < MaxLines
    /\ \E i \in 1 .. Len(text) + 1 :
         LET next == InsertAt(text, i, line)
             headers == { j \in 1 .. Len(next) : next[j].kind = "table" }
         IN /\ \A j, h \in headers : next[j] = next[h] => j = h
            /\ \A t \in Tables \cup {Top}, k \in Keys :
                 \A j, h \in AssignmentsOf(next, t, k) : j = h
            /\ text' = next
    /\ made' = NoAssignment

Next ==
    \/ \E t \in Tables \cup {Top}, k \in Keys, v \in Values : Write(t, k, v)
    \/ \E t \in Tables \cup {Top}, k \in Keys : Reset(t, k)
    \/ \E line \in Lines : Type(line)

Spec == Init /\ [][Next]_vars

--------------------------------------------------------------------------------

(* What the parser makes of the file. *)
Meaning(lines) ==
    { [table |-> TableAt(lines, i), key |-> lines[i].key, value |-> lines[i].value] :
        i \in { j \in 1 .. Len(lines) : lines[j].kind = "key" } }

(* The lines that say nothing to the parser, and the tables, in order. *)
Rest(lines) == SelectSeq(lines, LAMBDA l : l.kind \in {"comment", "table"})

(* A value the program writes is the one it reads back, in the table it    *)
(* was meant for; every other assignment, the comments and the order of    *)
(* the tables are as the user left them; and no key is assigned twice, so  *)
(* the file still parses.                                                  *)
OneValueChanges ==
    /\ made' # NoAssignment =>
         /\ made' \in Meaning(text')
         /\ \A a \in Meaning(text) \cup Meaning(text') :
              <<a.table, a.key>> # <<made'.table, made'.key>> =>
                 (a \in Meaning(text) <=> a \in Meaning(text'))
         /\ IsPrefix(Rest(text), Rest(text'))
    /\ \A t \in Tables \cup {Top}, k \in Keys :
         \A j, h \in AssignmentsOf(text', t, k) : j = h
================================================================================
