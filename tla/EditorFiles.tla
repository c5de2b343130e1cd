---------------------------- MODULE EditorFiles ----------------------------
(* What the editor writes (backend/webui/routes/editor.py).  A selection of  *)
(* the last screenshot becomes a picture and a row of ui_map.csv, which the  *)
(* audit of the assets (scripts/audit_ui_assets.py) goes over; a snippet     *)
(* becomes a script under data/custom_task, whose place is its identity.     *)
(*                                                                           *)
(* A frame is a small canvas with ink on some of its points; a rectangle is  *)
(* [left, top, right, bottom], the last two outside of it.                   *)
EXTENDS Integers, FiniteSets, SequencesExt

CONSTANTS
    Keys,           \* the names given to selections
    Stem(_),        \* the start of the file name a key is spelled as
    FrameWidth, FrameHeight,
    Inks,           \* the frames: the points with ink
    Rects,          \* the selections asked for, some of them not on the frame
    Slack,          \* what a stored region is wider than the selection on each side
    Names,          \* the script names asked for: sequences of parts
    ParamLists,     \* the settings of parameters asked for
    MaxSaves        \* bound: pictures saved

VARIABLES
    shot,       \* _last_screenshot: a frame, NoShot before the first
    rows,       \* ui_map.csv: [key, region, img]
    pics,       \* the picture files: name |-> what they show
    scripts,    \* the script files: place |-> the parameters of their signature
    answered,   \* the place the last save of a script was answered with
    \* history
    cut,        \* for each key, what was selected last: [region, picture]
    saves

vars == <<shot, rows, pics, scripts, answered, cut, saves>>

NoShot == {<<-1, -1>>}
NoPicture == <<>>
Frame == [left |-> 0, top |-> 0, right |-> FrameWidth, bottom |-> FrameHeight]
Points(r) == (r.left..r.right - 1) \X (r.top..r.bottom - 1)
InFrame(r) == r.left >= 0 /\ r.top >= 0 /\ r.right <= FrameWidth /\ r.bottom <= FrameHeight
NotEmpty(r) == r.right > r.left /\ r.bottom > r.top
Within(r, s) == r.left >= s.left /\ r.top >= s.top /\ r.right <= s.right /\ r.bottom <= s.bottom

-----------------------------------------------------------------------------
(* Pictures.                                                                 *)

\* A picture of nearly all of the frame would be found everywhere.
FullscreenLike(r) ==
    100 * Cardinality(Points(r)) >= 85 * FrameWidth * FrameHeight

\* Mutant: the name is taken whether or not there is such a file.
SameFilename(stem) == <<stem, 1>>

\* The first of the numbered names that no file has.
UniqueFilename(stem) ==
    <<stem, CHOOSE n \in 1..Cardinality(DOMAIN pics) + 1 :
        /\ <<stem, n>> \notin DOMAIN pics
        /\ \A k \in 1..n - 1 : <<stem, k>> \in DOMAIN pics>>

\* The region a target is searched in: the selection, or all of the frame along a free axis, and
\* some slack, cut off at the right and the bottom.
Region(r, freeX, freeY) ==
    LET left == IF freeX THEN 0 ELSE r.left
        top == IF freeY THEN 0 ELSE r.top
        width == IF freeX THEN FrameWidth ELSE r.right - r.left
        height == IF freeY THEN FrameHeight ELSE r.bottom - r.top
        l == IF left >= Slack THEN left - Slack ELSE 0
        t == IF top >= Slack THEN top - Slack ELSE 0
    IN  [left |-> l, top |-> t,
         right |-> IF l + width + 2 * Slack <= FrameWidth THEN l + width + 2 * Slack ELSE FrameWidth,
         bottom |-> IF t + height + 2 * Slack <= FrameHeight THEN t + height + 2 * Slack ELSE FrameHeight]

\* The points where the colour changes inside a rectangle, on both sides of the change.
Edges(ink, r) ==
    {p \in Points(r) : \E q \in Points(r) :
        /\ (q[1] - p[1]) * (q[1] - p[1]) + (q[2] - p[2]) * (q[2] - p[2]) = 1
        /\ (p \in ink) # (q \in ink)}

\* optimize-rect: the rectangle shrinks to the edges in it.
Optimized(ink, r) ==
    LET xs == {p[1] : p \in Edges(ink, r)}
        ys == {p[2] : p \in Edges(ink, r)}
    IN  IF ~NotEmpty(r) \/ xs = {} THEN r
        ELSE [left |-> Min(xs), top |-> Min(ys), right |-> Max(xs) + 1, bottom |-> Max(ys) + 1]

\* The rows as they are written: one of each key, where the key first was, with what it has last.
Deduped(all) ==
    LET firsts == SelectSeq([i \in DOMAIN all |-> i],
                            LAMBDA i : \A j \in 1..i - 1 : all[j].key # all[i].key)
        last(key) == CHOOSE i \in DOMAIN all :
            all[i].key = key /\ \A j \in i + 1..Len(all) : all[j].key # key
    IN  [n \in DOMAIN firsts |-> all[last(all[firsts[n]].key)]]

\* The errors and warnings of the audit, but for pictures no row names.
AuditFinds ==
    {"DUP_KEY" : i \in {i \in DOMAIN rows : \E j \in 1..i - 1 : rows[j].key = rows[i].key}}
    \cup {"BAD_BOX" : i \in {i \in DOMAIN rows : ~NotEmpty(rows[i].region)}}
    \cup {"BOX_OUT_OF_CANVAS" : i \in {i \in DOMAIN rows : ~InFrame(rows[i].region)}}
    \cup {"MISSING_PIC" : i \in {i \in DOMAIN rows : rows[i].img \notin DOMAIN pics \cup {NoPicture}}}
    \cup {"DUP_IMG_REF" : i \in {i \in DOMAIN rows : rows[i].img # NoPicture
                                    /\ \E j \in 1..i - 1 : rows[j].img = rows[i].img}}

-----------------------------------------------------------------------------
(* Scripts.                                                                  *)
Root == "custom"

\* Signs that no file name has are replaced; what is left empty is dropped.
Blank == "blank"
Cleaned(name) == SelectSeq(name, LAMBDA part : part # Blank)
TaskPath(name) ==
    LET parts == Cleaned(name) IN IF parts[1] = Root THEN parts ELSE <<Root>> \o parts
NameIsGood(name) == Cleaned(name) # <<>> /\ Len(TaskPath(name)) >= 2

\* Mutant: the first part is kept in the path of the file.
WholePath(path) == path

\* Where the file is: below the directory of the scripts.
PlaceOf(path) == Tail(path)

\* The settings of the parameters that are not empty: [name, type, options], options a sequence.
Filled(params) == SelectSeq(params, LAMBDA p : ~(p.name = Blank /\ p.options = <<>>))
ChoiceTypes == {"enum", "enum_multi"}
NoDuplicates(options) ==
    LET firsts == SelectSeq([i \in DOMAIN options |-> i],
                            LAMBDA i : \A j \in 1..i - 1 : options[j] # options[i])
    IN  [n \in DOMAIN firsts |-> options[firsts[n]]]
ParamsAreGood(params) ==
    \A i \in DOMAIN Filled(params) :
        LET p == Filled(params)[i] IN
        /\ p.name \notin {Blank, "keyword"}
        /\ \A j \in 1..i - 1 : Filled(params)[j].name # p.name
        /\ p.type \in ChoiceTypes => p.options # <<>> /\ Blank \notin ToSet(p.options)

\* The signature of the task: a parameter with a choice has its first option for a default.
Signature(params) ==
    [i \in DOMAIN Filled(params) |->
        LET p == Filled(params)[i] IN
        [name |-> p.name, options |-> IF p.type \in ChoiceTypes THEN NoDuplicates(p.options) ELSE <<>>,
         default |-> IF p.type \in ChoiceTypes THEN p.options[1] ELSE p.type]]

-----------------------------------------------------------------------------
Init ==
    /\ shot = NoShot /\ rows = <<>> /\ pics = <<>> /\ scripts = <<>> /\ answered = <<>>
    /\ cut = <<>> /\ saves = 0

Shot ==
    /\ shot' \in Inks
    /\ UNCHANGED <<rows, pics, scripts, answered, cut, saves>>

\* One handler: the picture, then the row.  A selection that is not on the frame, or a picture of
\* all of it, is refused.
Save(key, rect, template, freeX, freeY, onlyOcr) ==
    /\ shot # NoShot /\ saves < MaxSaves
    /\ InFrame(rect) /\ NotEmpty(rect) /\ InFrame(template) /\ NotEmpty(template)
    /\ onlyOcr \/ ~FullscreenLike(template)
    /\ LET img == IF onlyOcr THEN NoPicture ELSE UniqueFilename(<<Stem(key), rect, freeX, freeY>>)
           picture == Points(template) \cap shot
           row == [key |-> key, region |-> Region(rect, freeX, freeY), img |-> img]
       IN  /\ pics' = IF onlyOcr THEN pics
                      ELSE [f \in DOMAIN pics \cup {img} |-> IF f = img THEN picture ELSE pics[f]]
           /\ rows' = Deduped(Append(SelectSeq(rows, LAMBDA r : r.key # key), row))
           /\ cut' = [k \in DOMAIN cut \cup {key} |->
                        IF k # key THEN cut[k]
                        ELSE [rect |-> rect, picture |-> IF onlyOcr THEN {} ELSE picture]]
    /\ saves' = saves + 1
    /\ UNCHANGED <<shot, scripts, answered>>

\* The picture is written, and the row is not: the disk is full, or the process is ended.
SaveBreaks(key, rect, template) ==
    /\ shot # NoShot /\ saves < MaxSaves
    /\ InFrame(template) /\ NotEmpty(template) /\ ~FullscreenLike(template)
    /\ LET img == UniqueFilename(<<Stem(key), rect, FALSE, FALSE>>)
       IN  pics' = [f \in DOMAIN pics \cup {img} |->
                        IF f = img THEN Points(template) \cap shot ELSE pics[f]]
    /\ saves' = saves + 1
    /\ UNCHANGED <<shot, rows, scripts, answered, cut>>

\* The snippet is wrapped into a task with the parameters asked for, and takes the place of the
\* script that was there, in one step; then the tasks are loaded anew.  It is refused while a task or
\* a snippet runs.
SaveScript(name, params) ==
    /\ NameIsGood(name) /\ ParamsAreGood(params)
    /\ LET place == PlaceOf(TaskPath(name)) IN
       /\ scripts' = [p \in DOMAIN scripts \cup {place} |->
                        IF p = place THEN Signature(params) ELSE scripts[p]]
       /\ answered' = TaskPath(name)
    /\ UNCHANGED <<shot, rows, pics, cut, saves>>

Next ==
    \/ Shot
    \/ \E key \in Keys, rect, template \in Rects :
        \/ \E freeX, freeY, onlyOcr \in BOOLEAN : Save(key, rect, template, freeX, freeY, onlyOcr)
        \/ SaveBreaks(key, rect, template)
    \/ \E name \in Names, params \in ParamLists : SaveScript(name, params)

Spec == Init /\ [][Next]_vars

-----------------------------------------------------------------------------
\* The files have what the editor writes into them.
TypeOK ==
    /\ shot \in Inks \cup {NoShot} /\ saves \in 0..MaxSaves
    /\ \A i \in DOMAIN rows : rows[i].key \in Keys

\* The audit of the assets finds neither an error nor a warning in what the editor has written.
AuditPasses == AuditFinds = {}

\* Each key has one row; its picture is what was selected for it last, whatever was saved under
\* other names since, and the region it is searched in holds the selection.
RowsAreOfTheirKeys ==
    /\ {rows[i].key : i \in DOMAIN rows} = DOMAIN cut
    /\ \A i \in DOMAIN rows :
        LET last == cut[rows[i].key] IN
        /\ Within(last.rect, rows[i].region)
        /\ rows[i].img # NoPicture => pics[rows[i].img] = last.picture

\* A rectangle shrunk to its edges has all of them, and shrinks no further.
ShrinkingIsStable ==
    shot # NoShot => \A r \in Rects : InFrame(r) /\ NotEmpty(r) =>
        LET s == Optimized(shot, r) IN
        Within(s, r) /\ Edges(shot, r) \subseteq Points(s) /\ Optimized(shot, s) = s

\* The name that a save is answered with leads to the script it wrote, however often it is saved
\* under that name; a signature has no name and no choice twice, and its defaults are choices.
ScriptsAreFound ==
    /\ answered # <<>> =>
        /\ NameIsGood(answered) /\ TaskPath(answered) = answered
        /\ Tail(answered) \in DOMAIN scripts
    /\ \A p \in DOMAIN scripts : \A i \in DOMAIN scripts[p] :
        LET it == scripts[p][i] IN
        /\ \A j \in 1..i - 1 : scripts[p][j].name # it.name
        /\ \A k, l \in DOMAIN it.options : k # l => it.options[k] # it.options[l]
        /\ it.options # <<>> => it.default \in ToSet(it.options)

\* All of the above.
FilesAreSound ==
    TypeOK /\ AuditPasses /\ RowsAreOfTheirKeys /\ ShrinkingIsStable /\ ScriptsAreFound
=============================================================================
