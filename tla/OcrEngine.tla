------------------------------ MODULE OcrEngine ------------------------------
(* Reading text off a frame (AutoScriptor/recognition/ocr_rec.py).  A thread *)
(* loads the library and makes the first engine; every thread that reads     *)
(* waits for it and makes an engine of its own, while the editor's requests  *)
(* use the first.  What an engine read from an image is kept for a while     *)
(* under the image's fingerprint, for all threads.  An image that was scaled *)
(* down and does not show the text is read again at its full size.           *)
EXTENDS Naturals, FiniteSets

CONSTANTS
    Threads,    \* the threads that look at the screen
    Http,       \* the event loop, which reads for the editor
    Frames,     \* what they look at: [ground, label, fine], fine print is lost by scaling down
    Labels,     \* what they look for
    Ttl,        \* ticks a result is kept
    CacheMax,   \* results kept
    Horizon     \* bound: ticks

VARIABLES
    init,       \* the first engine: "starting", "ready", "failed"
    own,        \* the threads that have an engine of their own
    cache,      \* fingerprint |-> [at, text]
    pc,         \* where a thread is: "idle", "lookup", "engine", "reading", "over"
    want,       \* the label it looks for
    image,      \* the image it reads: a frame and a scale
    asked,      \* when it looked into the cache
    answer,     \* "found", "absent", "error"
    now

vars == <<init, own, cache, pc, want, image, asked, answer, now>>

Readers == Threads \cup {Http}
Images == [frame : Frames, scale : {"half", "full"}]
Lost == "nothing"
NoImage == [frame |-> [ground |-> Lost, label |-> Lost, fine |-> FALSE], scale |-> "full"]

\* What an engine makes of an image.
Text(i) == IF i.scale = "half" /\ i.frame.fine THEN Lost ELSE i.frame.label

\* Mutant: only some of the pixels go into the fingerprint.
SparseFingerprint(i) == <<i.scale, i.frame.ground>>

\* The shape and a digest of every pixel.
Fingerprint(i) == <<i.scale, i.frame>>

\* The engine a reader uses.
Engine(r) == IF r \in own THEN r ELSE "first"

Init ==
    /\ init = "starting" /\ own = {} /\ cache = <<>> /\ now = 0
    /\ pc = [r \in Readers |-> "idle"] /\ answer = [r \in Readers |-> "none"]
    /\ want = [r \in Readers |-> Lost] /\ image = [r \in Readers |-> NoImage]
    /\ asked = [r \in Readers |-> 0]

-----------------------------------------------------------------------------
\* The library is imported and the first engine made, or one of them fails, for good.
Ready ==
    /\ init = "starting" /\ init' \in {"ready", "failed"}
    /\ UNCHANGED <<own, cache, pc, want, image, asked, answer, now>>

\* ocr() of a scaled region; the editor's request reads its crop as it is, and keeps nothing.
Ask(r, frame, label) ==
    /\ pc[r] = "idle"
    /\ want' = [want EXCEPT ![r] = label]
    /\ image' = [image EXCEPT ![r] = [frame |-> frame, scale |-> IF r = Http THEN "full" ELSE "half"]]
    /\ pc' = [pc EXCEPT ![r] = IF r = Http THEN "engine" ELSE "lookup"]
    /\ UNCHANGED <<init, own, cache, asked, answer, now>>

Answer(r, what) == pc' = [pc EXCEPT ![r] = "over"] /\ answer' = [answer EXCEPT ![r] = what]

\* What ocr() makes of the text of its image.
Judge(r, text) ==
    \/ text = want[r] /\ Answer(r, "found") /\ UNCHANGED image
    \/ text # want[r] /\ image[r].scale = "full" /\ Answer(r, "absent") /\ UNCHANGED image
    \/ /\ text # want[r] /\ image[r].scale = "half"
       /\ image' = [image EXCEPT ![r].scale = "full"]
       /\ pc' = [pc EXCEPT ![r] = "lookup"]
       /\ UNCHANGED answer

Lookup(r) ==
    /\ pc[r] = "lookup"
    /\ LET key == Fingerprint(image[r]) IN
       \/ /\ key \in DOMAIN cache /\ now - cache[key].at < Ttl
          /\ Judge(r, cache[key].text)
          /\ UNCHANGED asked
       \/ /\ ~(key \in DOMAIN cache /\ now - cache[key].at < Ttl)
          /\ pc' = [pc EXCEPT ![r] = "engine"]
          /\ asked' = [asked EXCEPT ![r] = now]
          /\ UNCHANGED <<answer, image>>
    /\ UNCHANGED <<init, own, cache, want, now>>

\* get_ocr_engine(): the first engine has to be there, within the time one waits for it; then a
\* thread makes its own.
TakeEngine(r) ==
    /\ pc[r] = "engine"
    /\ \/ init = "ready" /\ (r = Http \/ r \in own)
          /\ pc' = [pc EXCEPT ![r] = "reading"]
          /\ UNCHANGED <<own, answer>>
       \/ init = "ready" /\ r \notin own \cup {Http}
          /\ \/ own' = own \cup {r} /\ pc' = [pc EXCEPT ![r] = "reading"] /\ UNCHANGED answer
             \/ Answer(r, "error") /\ UNCHANGED own
       \/ init \in {"failed", "starting"} /\ Answer(r, "error") /\ UNCHANGED own
    /\ UNCHANGED <<init, cache, want, image, asked, now>>

\* The oldest result makes room; its time is that of the look into the cache.
Kept(key, entry) ==
    LET all == [k \in DOMAIN cache \cup {key} |-> IF k = key THEN entry ELSE cache[k]]
    IN  IF Cardinality(DOMAIN all) <= CacheMax THEN {all}
        ELSE LET Oldest == {k \in DOMAIN all : \A l \in DOMAIN all : all[k].at <= all[l].at}
             IN  {[l \in DOMAIN all \ {k} |-> all[l]] : k \in Oldest}

Recognise(r) ==
    /\ pc[r] = "reading"
    /\ \/ /\ r # Http
          /\ cache' \in Kept(Fingerprint(image[r]), [at |-> asked[r], text |-> Text(image[r])])
          /\ Judge(r, Text(image[r]))
       \/ r = Http /\ Judge(r, Text(image[r])) /\ UNCHANGED cache
       \/ Answer(r, "error") /\ UNCHANGED <<cache, image>>
    /\ UNCHANGED <<init, own, want, asked, now>>

Return(r) ==
    /\ pc[r] = "over"
    /\ pc' = [pc EXCEPT ![r] = "idle"] /\ answer' = [answer EXCEPT ![r] = "none"]
    /\ want' = [want EXCEPT ![r] = Lost] /\ image' = [image EXCEPT ![r] = NoImage]
    /\ asked' = [asked EXCEPT ![r] = 0]
    /\ UNCHANGED <<init, own, cache, now>>

Tick == now < Horizon /\ now' = now + 1 /\ UNCHANGED <<init, own, cache, pc, want, image, asked, answer>>

Next ==
    \/ Ready \/ Tick
    \/ \E r \in Readers :
        \/ \E frame \in Frames, label \in Labels : Ask(r, frame, label)
        \/ Lookup(r) \/ TakeEngine(r) \/ Recognise(r) \/ Return(r)

Spec == Init /\ [][Next]_vars

-----------------------------------------------------------------------------
\* The threads are where the code can be, and the kept results are those of a few images.
TypeOK ==
    /\ init \in {"starting", "ready", "failed"} /\ own \subseteq Threads /\ now \in 0..Horizon
    /\ pc \in [Readers -> {"idle", "lookup", "engine", "reading", "over"}]
    /\ image \in [Readers -> Images \cup {NoImage}] /\ Cardinality(DOMAIN cache) <= CacheMax

\* Whoever read it and however long it was kept, a text that is said to be found is on the frame
\* that was looked at, and one that is said to be absent is not, fine print included.
TextIsOfItsFrame ==
    \A r \in Readers :
        /\ answer[r] = "found" => image[r].frame.label = want[r]
        /\ answer[r] = "absent" => image[r].frame.label # want[r]

\* No two threads run the same engine at once.
EnginesApart ==
    \A r, s \in Readers : pc[r] = "reading" /\ pc[s] = "reading" /\ r # s => Engine(r) # Engine(s)

\* All of the above.
OcrIsSound == TypeOK /\ TextIsOfItsFrame /\ EnginesApart
=============================================================================
