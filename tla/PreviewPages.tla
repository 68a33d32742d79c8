----------------------------- MODULE PreviewPages -----------------------------
(* The pages of the preview (ui/quicklook/QuickLookView.cpp and renderers/):  *)
(* which renderer is in front and what it makes of a content and of the keys, *)
(* with the plug-in that renders PDF pages on a thread of its own             *)
(* (plugins/pdf/PdfPlugin.cpp). How contents are loaded is in QuickLook: here *)
(* the one for the file the view is on arrives at some time.                  *)
EXTENDS Integers, Sequences

CONSTANTS
    Kind,          \* of each file: "image", "text" or "pdf", its renderer
    Large,         \* files above max_decode_mb, described and not read
    Unreadable,    \* files whose content is an error
    Animated,      \* images with several frames
    Pages,         \* of each PDF, its number of pages; 0 when it is damaged
    PluginThere,   \* the PDF plug-in is installed
    MaxZoom,       \* steps of the zoom either way, fewer than in the code
    MaxGeneration  \* bound on what the PDF renderer is asked

Files == DOMAIN Kind
None == "none"
Blank == [as |-> "blank", file |-> None, zoom |-> 0]
NoPage == [as |-> "blank", file |-> None, page |-> 0, zoom |-> 0]

VARIABLES
    path,          \* m_currentPath
    current,       \* the renderer in front
    given,         \* the file whose content it was given
    \* ImageRenderer
    image, movie, label, fitted, zoom,
    \* TextRenderer
    text, highlighter, wrap,
    \* PdfRenderer: is its page the plug-in's, or a card
    usingPlugin,
    \* the plug-in on the GUI thread
    pdfPath, pageIndex, pageCount, pdfZoom, pageShown,
    generation,
    \* its worker
    document,      \* the file that is open
    jobs,          \* the requests; the pool has one thread
    begun,         \* it has begun the first of them
    result         \* what the watched future has come to

viewVars == <<path, current, given>>
imageVars == <<image, movie, label, fitted, zoom>>
textVars == <<text, highlighter, wrap>>
askedVars == <<pdfPath, pageIndex, pageCount, pdfZoom, pageShown, generation>>
workVars == <<document, jobs, begun, result>>
pdfVars == <<usingPlugin, askedVars, workVars>>
vars == <<viewVars, imageVars, textVars, pdfVars>>

NoResult == [generation |-> 0]
Zooms == -MaxZoom .. MaxZoom
Ways == {"blank", "card", "movie", "still", "rendering", "page", "error"}
Labels == [as : Ways, file : Files \cup {None}, zoom : Zooms]
Shots == [as : Ways, file : Files \cup {None}, page : Nat, zoom : Zooms]
Jobs == [generation : Nat, path : Files \cup {None}, page : Nat, zoom : Zooms]
Pictures == [as : {"page", "error"}, page : Nat, pages : Nat]
Results == [generation : Nat, file : Files \cup {None}, zoom : Zooms, of : Pictures]

TypeOK ==
    /\ {path, given, image, movie, text, highlighter, pdfPath, document} \subseteq Files \cup {None}
    /\ current \in {None, "image", "text", "pdf", "fallback"}
    /\ label \in Labels /\ zoom \in Zooms
    /\ fitted \in BOOLEAN /\ wrap \in BOOLEAN /\ usingPlugin \in BOOLEAN /\ begun \in BOOLEAN
    /\ pageIndex \in Nat /\ pageCount \in Nat /\ pdfZoom \in Zooms /\ pageShown \in Shots
    /\ generation \in Nat /\ jobs \in Seq(Jobs) /\ result \in Results \cup {NoResult}

Init ==
    /\ path = None /\ current = None /\ given = None
    /\ image = None /\ movie = None /\ label = Blank /\ fitted = TRUE /\ zoom = 0
    /\ text = None /\ highlighter = None /\ wrap = FALSE
    /\ usingPlugin = FALSE
    /\ pdfPath = None /\ pageIndex = 0 /\ pageCount = 0 /\ pdfZoom = 0 /\ pageShown = NoPage
    /\ generation = 0
    /\ document = None /\ jobs = <<>> /\ begun = FALSE /\ result = NoResult

Clamped(level) == IF level > MaxZoom THEN MaxZoom ELSE IF level < -MaxZoom THEN -MaxZoom ELSE level

-----------------------------------------------------------------------------
(* ImageRenderer *)

(* rescale(): the picture goes into the label, whatever was there. *)
Rescale(picture, fit, level) ==
    IF picture = None THEN UNCHANGED <<label, zoom>>
    ELSE /\ zoom' = IF fit THEN 0 ELSE level
         /\ label' = [as |-> "still", file |-> picture, zoom |-> zoom']

SetImage(f) ==
    IF f \in Large
    THEN /\ movie' = None
         /\ label' = [Blank EXCEPT !.as = "card", !.file = f]
         /\ UNCHANGED <<image, fitted, zoom>>
    ELSE /\ image' = f
         /\ IF f \in Animated
            THEN /\ movie' = f
                 /\ label' = [Blank EXCEPT !.as = "movie", !.file = f]
                 /\ UNCHANGED <<fitted, zoom>>
            ELSE /\ movie' = None
                 /\ fitted' = TRUE
                 /\ Rescale(f, TRUE, 0)

ClearImage ==
    /\ image' = None /\ movie' = None /\ label' = Blank /\ fitted' = TRUE /\ zoom' = 0

(* + and -, and 0 to fit *)
ZoomImage(by) ==
    /\ fitted' = FALSE
    /\ IF image = None THEN zoom' = Clamped(zoom + by) /\ label' = label
                       ELSE Rescale(image, FALSE, Clamped(zoom + by))
    /\ UNCHANGED <<image, movie>>

FitImage ==
    /\ fitted' = TRUE
    /\ Rescale(image, TRUE, 0)
    /\ UNCHANGED <<image, movie>>

-----------------------------------------------------------------------------
(* TextRenderer: the last file's highlighter goes first; a long text, or one  *)
(* without the plug-in, gets none.                                            *)
SetText(f) ==
    /\ text' = f
    /\ highlighter' \in {None} \cup ({f} \ Large)
    /\ wrap' = wrap

ClearText == text' = None /\ highlighter' = None /\ wrap' = wrap

ToggleWrap == wrap' = ~wrap /\ UNCHANGED <<text, highlighter>>

-----------------------------------------------------------------------------
(* render(): the new request supersedes those before it, and the watcher      *)
(* turns to its future.                                                       *)
Render(reopen, f, page, level) ==
    /\ generation' = generation + 1
    /\ jobs' = Append(jobs, [generation |-> generation', path |-> IF reopen THEN f ELSE None,
                             page |-> page, zoom |-> level])
    /\ result' = NoResult
    /\ UNCHANGED <<document, begun>>

SetPdf(f) ==
    /\ pdfPath' = f /\ pageIndex' = 0 /\ pageCount' = 0 /\ pdfZoom' = 0
    /\ pageShown' = [NoPage EXCEPT !.as = "rendering"]
    /\ Render(TRUE, f, 0, 0)

ClearPdf ==
    /\ generation' = generation + 1
    /\ pdfPath' = None /\ pageCount' = 0 /\ pageShown' = NoPage
    /\ UNCHANGED <<pageIndex, pdfZoom, workVars>>

(* PluginBackedRenderer: a card for what is not rendered. *)
SetPluginContent(f) ==
    IF PluginThere /\ f \notin Large
    THEN usingPlugin' = TRUE /\ SetPdf(f)
    ELSE /\ usingPlugin' = FALSE
         /\ IF usingPlugin THEN ClearPdf ELSE UNCHANGED <<askedVars, workVars>>

ClearPlugin ==
    /\ usingPlugin' = FALSE
    /\ IF PluginThere THEN ClearPdf ELSE UNCHANGED <<askedVars, workVars>>

(* goToPage(): at the first or last page there is nothing to do. *)
GoToPage(page) ==
    IF page \notin 0 .. pageCount - 1 THEN UNCHANGED <<askedVars, workVars>>
    ELSE /\ pageIndex' = page
         /\ Render(FALSE, None, page, pdfZoom)
         /\ UNCHANGED <<pdfPath, pageCount, pdfZoom, pageShown>>

SetPdfZoom(level) ==
    /\ pdfZoom' = level
    /\ Render(FALSE, None, pageIndex, level)
    /\ UNCHANGED <<pdfPath, pageIndex, pageCount, pageShown>>

(* No key until the number of pages is known. *)
PdfKey ==
    /\ pageCount > 0
    /\ \/ \E by \in {-1, 1} : GoToPage(pageIndex + by) \/ SetPdfZoom(Clamped(pdfZoom + by))
       \/ SetPdfZoom(0)
    /\ UNCHANGED usingPlugin

Current(job) == job.generation = generation

(* renderPage(), to where it looks again whether it is still wanted *)
BeginJob ==
    /\ jobs # <<>> /\ ~begun
    /\ LET job == Head(jobs) IN
       IF ~Current(job) THEN jobs' = Tail(jobs) /\ UNCHANGED <<document, begun>>
       ELSE /\ begun' = TRUE
            /\ document' = IF job.path = None THEN document
                           ELSE IF Pages[job.path] = 0 THEN None ELSE job.path
            /\ jobs' = jobs
    /\ UNCHANGED <<viewVars, imageVars, textVars, usingPlugin, askedVars, result>>

Rendered(job) ==
    IF document = None THEN [as |-> "error", page |-> 0, pages |-> 0]
    ELSE [as |-> "page", pages |-> Pages[document],
          page |-> IF job.page < Pages[document] THEN job.page ELSE Pages[document] - 1]

(* Only the future of the last request is watched. *)
FinishJob ==
    /\ begun
    /\ begun' = FALSE
    /\ jobs' = Tail(jobs)
    /\ result' = IF Len(jobs) > 1 \/ ~Current(Head(jobs)) THEN result
                 ELSE [generation |-> Head(jobs).generation, file |-> document,
                       zoom |-> Head(jobs).zoom, of |-> Rendered(Head(jobs))]
    /\ UNCHANGED <<viewVars, imageVars, textVars, usingPlugin, askedVars, document>>

OnRendered ==
    /\ result # NoResult
    /\ result' = NoResult
    /\ IF result.generation # generation
       THEN UNCHANGED <<pageCount, pageIndex, pageShown>>
       ELSE /\ pageCount' = result.of.pages
            /\ pageIndex' = result.of.page
            /\ pageShown' = [as |-> result.of.as, file |-> result.file,
                             page |-> result.of.page, zoom |-> result.zoom]
    /\ UNCHANGED <<viewVars, imageVars, textVars, usingPlugin, pdfPath, pdfZoom, generation,
                   document, jobs, begun>>

-----------------------------------------------------------------------------
(* QuickLookView *)
ShowFile(f) ==
    /\ path' = f
    /\ UNCHANGED <<current, given, imageVars, textVars, pdfVars>>

RendererFor(f) == IF f \in Unreadable THEN "fallback" ELSE Kind[f]

(* Each of the others is cleared when it leaves the front. *)
Give(renderer, Set, Leave, own) ==
    IF current' = renderer THEN Set
    ELSE IF current = renderer THEN Leave
    ELSE UNCHANGED own

(* onLoaded() of the content for the file the view is on *)
OnLoaded ==
    /\ path # None
    /\ current' = RendererFor(path)
    /\ given' = path
    /\ Give("image", SetImage(path), ClearImage, imageVars)
    /\ Give("text", SetText(path), ClearText, textVars)
    /\ Give("pdf", SetPluginContent(path), ClearPlugin, pdfVars)
    /\ UNCHANGED path

Clear ==
    /\ path # None
    /\ path' = None /\ current' = None /\ given' = None
    /\ IF current = "image" THEN ClearImage ELSE UNCHANGED imageVars
    /\ IF current = "text" THEN ClearText ELSE UNCHANGED textVars
    /\ IF current = "pdf" THEN ClearPlugin ELSE UNCHANGED pdfVars

(* A key of the preview goes to the renderer in front. *)
HandleKey ==
    /\ \/ /\ current = "image"
          /\ ZoomImage(1) \/ ZoomImage(-1) \/ FitImage
          /\ UNCHANGED <<textVars, pdfVars>>
       \/ /\ current = "text"
          /\ ToggleWrap
          /\ UNCHANGED <<imageVars, pdfVars>>
       \/ /\ current = "pdf" /\ usingPlugin
          /\ PdfKey
          /\ UNCHANGED <<imageVars, textVars>>
    /\ UNCHANGED viewVars

Next ==
    \/ /\ generation < MaxGeneration
       /\ \/ \E f \in Files : ShowFile(f)
          \/ OnLoaded
          \/ Clear
          \/ HandleKey
    \/ BeginJob \/ FinishJob \/ OnRendered

Spec == Init /\ [][Next]_vars

-----------------------------------------------------------------------------
(* Of the view: a content is given to a renderer in front, which is the one   *)
(* for it; each of the others has nothing of it left.                         *)
FrontInv ==
    /\ current = None <=> given = None
    /\ current \notin {None, "fallback"} => current = Kind[given]
    /\ usingPlugin => current = "pdf" /\ given \notin Large /\ PluginThere
ImageInv ==
    IF current = "image"
    THEN movie \in {None, given} /\ (given \notin Large => label.file = given /\ image = given)
    ELSE image = None /\ movie = None /\ label = Blank
TextInv ==
    IF current = "text" THEN text = given /\ highlighter \in {None, given}
                        ELSE text = None /\ highlighter = None

(* Of the worker: only the last request may be of the generation that counts, *)
(* and its result comes when there is none.                                   *)
JobsInv ==
    /\ begun => jobs # <<>>
    /\ \A i \in DOMAIN jobs : /\ jobs[i].generation \in 1 .. generation
                              /\ Current(jobs[i]) => i = Len(jobs)
    /\ result # NoResult => result.generation \in 1 .. generation
    /\ result.generation = generation => jobs = <<>>

(* What is to come of the last request, while it waits or is at work, when it *)
(* has come, and when it is shown.                                            *)
Opened(f) == IF Pages[f] = 0 THEN None ELSE f
Idle == (\A i \in DOMAIN jobs : ~Current(jobs[i])) /\ result.generation # generation
Shown(f) == IF Pages[f] = 0 THEN pageShown.as = "error"
            ELSE pageShown = [as |-> "page", file |-> f, page |-> pageIndex, zoom |-> pdfZoom]
Waits(f) ==
    /\ jobs # <<>>
    /\ jobs[Len(jobs)] = [generation |-> generation, path |-> IF pageCount = 0 THEN f ELSE None,
                          page |-> pageIndex, zoom |-> pdfZoom]
    /\ begun /\ Len(jobs) = 1 => document = Opened(f)
Arrives(f) ==
    /\ document = Opened(f)
    /\ result = [generation |-> generation, file |-> document, zoom |-> pdfZoom,
                 of |-> IF Pages[f] = 0 THEN [as |-> "error", page |-> 0, pages |-> 0]
                        ELSE [as |-> "page", page |-> pageIndex, pages |-> Pages[f]]]
PdfInv ==
    IF usingPlugin
    THEN /\ pdfPath = given
         /\ pageShown.as = "page" => pageShown.file = given
         /\ IF pageCount = 0 THEN pageIndex = 0
            ELSE pageCount = Pages[given] /\ pageIndex < pageCount /\ document = given
         /\ Waits(given) \/ Arrives(given) \/ (Idle /\ Shown(given))
    ELSE /\ pdfPath = None /\ pageShown = NoPage
         /\ generation # 0 => Idle

Rests == jobs = <<>> /\ result = NoResult

(* What is in front is of the content it was given last, though pages are     *)
(* rendered late, superseded and asked for while the document is still the    *)
(* last file's: a page of a PDF is never one of another file, and at rest the *)
(* one whose number and zoom the footer tells; no movie goes on and no        *)
(* highlighter and no picture stays behind once their file has left the front.*)
PagesAreOfTheFile ==
    /\ pageShown.as = "page" => current = "pdf" /\ pageShown.file = given
    /\ current = "pdf" /\ usingPlugin /\ Rests => Shown(given)
    /\ movie \in {None, given}
    /\ highlighter \in {None, given} /\ text \in {None, given}
    /\ current = "image" /\ given \notin Large => label.file = given /\ image = given
    /\ current # "image" => image = None /\ label = Blank
===============================================================================
