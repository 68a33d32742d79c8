-------------------------- MODULE FolderIconPicker --------------------------
(* The picker of folder icons (ui/modals/FolderIconModal.cpp): a strip of    *)
(* presets and a grid of icons that one cursor walks, a search box that      *)
(* filters both, and pictures pasted from the clipboard, which become masks. *)
EXTENDS Integers, Sequences, SequencesExt, FiniteSetsExt

CONSTANTS
    Presets,        \* the glyphs of the strip after "Default"
    Grid,           \* those of the grid
    Pictures,       \* what can be pasted
    Shapeless,      \* pictures, either way round, in which no shape is found
    Columns,        \* of a row
    Folder          \* folder -> the glyph it has, Default or a mask

VARIABLES
    folder,         \* m_pathLabel, and the folder the choice is bound to
    query,          \* m_query: what it leaves of the glyphs
    source, inverted, pasteGlyph,   \* m_pasteSource, m_pasteInverted, m_pasteGlyph
    strip, grid,    \* the two models
    inStrip, row,   \* the cursor: m_cursorInStrip, and the current row or -1
    preview         \* the glyph of the header, which accept() chooses

vars == <<folder, query, source, inverted, pasteGlyph, strip, grid, inStrip, row, preview>>

Closed == "closed"
NoPicture == "no picture"

(* A glyph is a name and what is drawn for it. *)
Icon(n) == <<n, "icon">>
Default == Icon("default")
NoGlyph == Icon("none")
Pasted == Icon("pasted image")

(* toMask() and idFor(): a picture either way round, if there is a shape.    *)
Mask(p, i) ==
    IF [of |-> p, inverted |-> i] \in Shapeless THEN NoGlyph
    ELSE <<p, IF i THEN "inverted" ELSE "image">>

IsImageGlyph(g) == g[2] # "icon"

(* What may be typed: nothing, or something that matches some of the glyphs. *)
All == Range(Presets) \cup Range(Grid) \cup {Pasted}

Queries == SUBSET All

-----------------------------------------------------------------------------
(* The cells of the strip: a pasted picture, or the present one, after       *)
(* Default.                                                                  *)
Cells(f, pasted) ==
    LET image == IF pasted # NoGlyph THEN <<pasted>>
                 ELSE IF IsImageGlyph(Folder[f]) THEN <<Folder[f]>> ELSE <<>>
    IN  <<Default>> \o image \o Presets

Matches(q, g) == IF IsImageGlyph(g) THEN Pasted \in q ELSE g \in q

(* refresh(), up to where the cursor goes. *)
Strip(f, q, pasted) ==
    IF q = All THEN Cells(f, pasted)
    ELSE SelectSeq(Cells(f, pasted), LAMBDA g : g # Default /\ Matches(q, g))

GridOf(q) == SelectSeq(Grid, LAMBDA g : g \in q)

(* select(): the cursor, and the preview of what is under it. *)
Select(s, i, st, gr) ==
    LET view == IF s THEN st ELSE gr
    IN  /\ inStrip' = s
        /\ row' = IF i + 1 \in DOMAIN view THEN i ELSE -1
        /\ preview' = IF i + 1 \in DOMAIN view THEN view[i + 1] ELSE NoGlyph

Show(f, q, pasted, s, i) ==
    /\ strip' = Strip(f, q, pasted)
    /\ grid' = GridOf(q)
    /\ Select(s, i, strip', grid')

(* refresh() *)
Refresh(f, q, pasted) ==
    IF Strip(f, q, pasted) # <<>> \/ GridOf(q) # <<>>
      THEN Show(f, q, pasted, Strip(f, q, pasted) # <<>>, 0)
      ELSE Show(f, q, pasted, inStrip, 0)

PlaceOf(g, s) == IF g \in Range(s) THEN Min({i \in DOMAIN s : s[i] = g}) - 1 ELSE -1

Init ==
    /\ folder = Closed
    /\ query = All
    /\ source = NoPicture /\ inverted = FALSE /\ pasteGlyph = NoGlyph
    /\ strip = <<>> /\ grid = <<>>
    /\ inStrip = TRUE /\ row = -1
    /\ preview = NoGlyph

(* open(): the cursor on the present choice. *)
Open ==
    /\ folder = Closed
    /\ \E f \in DOMAIN Folder :
          LET g == Folder[f]
              st == Strip(f, All, NoGlyph)
              place == IF PlaceOf(g, st) >= 0 THEN <<TRUE, PlaceOf(g, st)>>
                       ELSE IF PlaceOf(g, Grid) >= 0 THEN <<FALSE, PlaceOf(g, Grid)>>
                       ELSE <<TRUE, 0>>
          IN  /\ folder' = f
              /\ query' = All
              /\ Show(f, All, NoGlyph, place[1], place[2])
    /\ source' = NoPicture /\ inverted' = FALSE /\ pasteGlyph' = NoGlyph

(* textChanged of the search box *)
Type ==
    /\ folder # Closed
    /\ \E q \in Queries \ {query} :
          /\ query' = q
          /\ Refresh(folder, q, pasteGlyph)
    /\ UNCHANGED <<folder, source, inverted, pasteGlyph>>

(* rebuildPaste() *)
RebuildPaste(p, i) ==
    IF Mask(p, i) = NoGlyph
      THEN /\ pasteGlyph' = NoGlyph
           /\ Refresh(folder, query, NoGlyph)
           /\ UNCHANGED query
      ELSE /\ pasteGlyph' = Mask(p, i)
           /\ query' = All
           /\ Show(folder, All, Mask(p, i), TRUE, PlaceOf(Mask(p, i), Cells(folder, Mask(p, i))))

(* pasteImage(), when there is one on the clipboard *)
PasteImage ==
    /\ folder # Closed
    /\ \E p \in Pictures :
          /\ source' = p
          /\ inverted' = FALSE
          /\ RebuildPaste(p, FALSE)
    /\ UNCHANGED <<folder>>

(* Ctrl+I *)
Invert ==
    /\ folder # Closed
    /\ source # NoPicture
    /\ inverted' = ~inverted
    /\ RebuildPaste(source, ~inverted)
    /\ UNCHANGED <<folder, source>>

-----------------------------------------------------------------------------
Clamp(i, n) == Min({Max({0, i}), Max({0, n - 1})})

(* The column it was in, of the last row of the strip. *)
UpFromGrid(st) ==
    Min({((Len(st) - 1) \div Columns) * Columns + (row % Columns), Len(st) - 1})

(* moveCursor() by one column *)
MoveAcross ==
    /\ folder # Closed /\ row >= 0
    /\ \E d \in {-1, 1} :
          LET next == row + d
          IN  IF inStrip
                THEN IF next >= Len(strip) /\ grid # <<>>
                       THEN Select(FALSE, 0, strip, grid)
                       ELSE Select(TRUE, Clamp(next, Len(strip)), strip, grid)
                ELSE IF next < 0 /\ strip # <<>>
                       THEN Select(TRUE, Len(strip) - 1, strip, grid)
                       ELSE Select(FALSE, Clamp(next, Len(grid)), strip, grid)
    /\ UNCHANGED <<folder, query, source, inverted, pasteGlyph, strip, grid>>

(* moveCursor() by rows: one, or a page of them *)
MoveDown ==
    /\ folder # Closed /\ row >= 0
    /\ \E rows \in {1, 2} :
          \/ /\ inStrip /\ row + Columns < Len(strip)
             /\ Select(TRUE, row + Columns, strip, grid)
          \/ /\ inStrip /\ row + Columns >= Len(strip) /\ grid # <<>>
             /\ Select(FALSE, Min({row % Columns, Len(grid) - 1}), strip, grid)
          \/ /\ ~inStrip
             /\ Select(FALSE, Min({row + rows * Columns, Len(grid) - 1}), strip, grid)
    /\ UNCHANGED <<folder, query, source, inverted, pasteGlyph, strip, grid>>

MoveUp ==
    /\ folder # Closed /\ row >= 0 /\ ~inStrip
    /\ \E rows \in {1, 2} :
          \/ /\ row - rows * Columns >= 0
             /\ Select(FALSE, row - rows * Columns, strip, grid)
          \/ /\ row - rows * Columns < 0 /\ strip # <<>>
             /\ Select(TRUE, UpFromGrid(strip), strip, grid)
    /\ UNCHANGED <<folder, query, source, inverted, pasteGlyph, strip, grid>>

(* accept(), which chooses what is under the cursor if anything is, and Escape *)
Close ==
    /\ folder # Closed
    /\ folder' = Closed
    /\ UNCHANGED <<query, source, inverted, pasteGlyph, strip, grid, inStrip, row, preview>>

Next ==
    \/ Open
    \/ Type
    \/ PasteImage
    \/ Invert
    \/ MoveAcross
    \/ MoveDown
    \/ MoveUp
    \/ Close

Spec == Init /\ [][Next]_vars

-----------------------------------------------------------------------------
(* While the picker is open, Enter would choose what the preview shows: the  *)
(* cursor is on one of the glyphs listed if there are any, the pictures      *)
(* among them are the folder's own or the one pasted last, as it has been    *)
(* turned since, and none of them is left from before a paste that failed.   *)
PickIsWhatIsShown ==
    folder # Closed =>
        LET view == IF inStrip THEN strip ELSE grid
        IN  /\ (row >= 0) = (strip \o grid # <<>>)
            /\ preview = IF row >= 0 THEN view[row + 1] ELSE NoGlyph
            /\ \A g \in Range(strip) :
                  IsImageGlyph(g) => \/ g = Folder[folder]
                                     \/ source # NoPicture /\ g = Mask(source, inverted)
=============================================================================
