----------------------------- MODULE PageRouter -----------------------------
(* Logging in (ZmxyOL/nav/envs/login.py).  Five shops sell the game, each    *)
(* with its own pages.  The router looks which of the pages registered for   *)
(* the client is on the screen, runs the handler of one of them, and looks   *)
(* again, until a handler says that it is done.  A dialog of the emulator    *)
(* swallows every touch; after a page has come three times in a row the      *)
(* router tries to close one.                                                *)
EXTENDS Naturals, Sequences

CONSTANTS
    Clients,    \* the shops the instance knows
    MaxSteps,   \* pages handled before the router gives up
    MaxDialogs  \* bound: dialogs that come up

VARIABLES
    client,
    screen,     \* the pages whose marks are on the screen
    dialog,     \* "none", "known": one the router can close, "other"
    dialogs,    \* dialogs that came up
    pc,         \* "look", "detect", "handle", "done", "raised"
    boxes,      \* the pages whose marks the last look found
    prev, last, repeated, steps,    \* as in PageRouter.run
    page,       \* the page whose handler runs
    game,       \* "login", "selecting", "inside", "refused": asked to log in again
    \* history
    deaf        \* pages handled in a row without effect, under a dialog the router can close

vars == <<client, screen, dialog, dialogs, pc, boxes, prev, last, repeated, steps, page, game, deaf>>

Page(name, mark, clients) == [name |-> name, mark |-> mark, clients |-> clients]
HZ4399 == "HZ4399"

\* The pages in the order they are registered; a state is the name.
Pages == <<
    Page("select", "enter game", {"H4399", HZ4399, "DANGLE", "UC", "VIVO"}),
    Page("authorization", "agreed", {"H4399", HZ4399}),
    Page("password", "account and password", {"H4399", HZ4399}),
    Page("quick", "by phone or account", {"H4399", HZ4399}),
    Page("authorization", "by password", {"DANGLE"}),
    Page("authorization", "by password", {"UC"}),
    Page("authorization", "phone number", {"VIVO"}) >>
Marks == {Pages[i].mark : i \in DOMAIN Pages}
LoginMarks == Marks \ {"enter game"}
NoPage == Page("none", "none", {})

PagesForClient == {i \in DOMAIN Pages : client \in Pages[i].clients}
Shown == {i \in PagesForClient : Pages[i].mark \in boxes}
First(ids) == CHOOSE i \in ids : \A j \in ids : i <= j

Alone == \A i, j \in Shown : i = j

\* Mutant: the first page on the screen is taken, whatever was handled before.
DetectFirst == Pages[First(Shown)]

\* The first page on the screen that is not the one handled last; if there is none, that one.
Detect ==
    LET others == {i \in Shown : Pages[i].name # prev}
    IN  Pages[First(IF others # {} THEN others ELSE Shown)]

\* The screens of a client before it is logged in.
LoginScreens(c) ==
    LET own == {Pages[i].mark : i \in {j \in DOMAIN Pages : c \in Pages[j].clients}} \ {"enter game"}
    IN  (SUBSET own) \ {{}}

Init ==
    /\ client \in Clients
    /\ game \in {"login", "selecting"}
    /\ screen \in (IF game = "login" THEN LoginScreens(client) ELSE {{"enter game"}})
    /\ dialog = "none" /\ dialogs = 0 /\ pc = "look" /\ boxes = {} /\ prev = "none" /\ last = "none"
    /\ repeated = 0 /\ steps = 0 /\ page = NoPage /\ deaf = 0

\* locate() of all the marks: at least one within the time.
Look ==
    /\ pc = "look" /\ steps < MaxSteps /\ Marks \cap screen # {}
    /\ boxes' = screen /\ pc' = "detect"
    /\ UNCHANGED <<client, screen, dialog, dialogs, prev, last, repeated, steps, page, game, deaf>>

GiveUp ==
    /\ pc = "look" /\ (steps = MaxSteps \/ Marks \cap screen = {})
    /\ pc' = "raised"
    /\ UNCHANGED <<client, screen, dialog, dialogs, boxes, prev, last, repeated, steps, page, game, deaf>>

\* The page is chosen, and if it is the third time in a row, a dialog closed.
Choose ==
    /\ pc = "detect"
    /\ page' = Detect /\ pc' = "handle" /\ last' = Detect.name
    /\ LET times == IF Detect.name = last THEN repeated + 1 ELSE 0 IN
       \/ times < 2 /\ repeated' = times /\ UNCHANGED <<dialog, deaf>>
       \/ /\ times >= 2 /\ repeated' = 0
          /\ dialog' = IF dialog = "known" THEN "none" ELSE dialog
          /\ deaf' = IF dialog = "known" THEN 0 ELSE deaf
    /\ UNCHANGED <<client, screen, dialogs, boxes, prev, steps, game>>

After(outcome) ==
    /\ pc' = outcome /\ steps' = steps + 1 /\ boxes' = {} /\ page' = NoPage /\ prev' = page.name
    /\ UNCHANGED <<client, dialog, dialogs, last, repeated>>

\* _select_character: into the game, or the game asks to log in again, which the page's handler
\* takes for done as well.  The app of 4399 ends before that.
SelectCharacter ==
    /\ pc = "handle" /\ page.name = "select"
    /\ \/ client = HZ4399 /\ After("done") /\ UNCHANGED <<screen, game>>
       \/ /\ client # HZ4399 /\ dialog = "none" /\ game = "selecting"
          /\ \/ game' = "inside" /\ screen' = {} /\ After("done")
             \/ game' = "refused" /\ screen' \in LoginScreens(client) /\ After("done")
       \/ client # HZ4399 /\ After("raised") /\ UNCHANGED <<screen, game>>
    /\ deaf' = 0

\* Mutant: the app of 4399 is taken to be logged in once the button was pressed.
FillAndClaim ==
    \/ /\ dialog = "none"
       /\ \/ game' = "selecting" /\ screen' = IF client = HZ4399 THEN {} ELSE {"enter game"}
          \/ client = HZ4399 /\ UNCHANGED game /\ screen' \in LoginScreens(client)
       /\ After(IF client = HZ4399 THEN "done" ELSE "look")
    \/ After("raised") /\ UNCHANGED game /\ (screen' = screen \/ (dialog = "none" /\ screen' \in LoginScreens(client)))

\* _fill_account_password and _finish_account_login: the app of 4399 waits until its login marks
\* are away, the others for the page where a character is selected.
FillAndFinish ==
    \/ /\ dialog = "none"
       /\ game' = "selecting"
       /\ screen' = IF client = HZ4399 THEN {} ELSE {"enter game"}
       /\ After(IF client = HZ4399 THEN "done" ELSE "look")
    \/ After("raised") /\ UNCHANGED game /\ (screen' = screen \/ (dialog = "none" /\ screen' \in LoginScreens(client)))

\* The first page of 4399: what it clicks may be missing, and if no form comes up it returns.
Authorize ==
    /\ pc = "handle" /\ page.name = "authorization" /\ client \in {"H4399", HZ4399}
    /\ \/ FillAndFinish /\ dialog = "none" /\ deaf' = 0
       \/ /\ dialog = "none" /\ screen' \in LoginScreens(client)
          /\ After("look") /\ deaf' = 0 /\ UNCHANGED game
       \/ /\ dialog # "none"
          /\ \/ After("look") /\ deaf' = IF dialog = "known" /\ Alone THEN deaf + 1 ELSE 0
             \/ After("raised") /\ deaf' = 0
          /\ UNCHANGED <<screen, game>>

PasswordLogin ==
    /\ pc = "handle" /\ page.name \in {"password", "quick"}
    /\ FillAndFinish /\ deaf' = 0

\* The pages of the other shops: what they click has to be there; they do not look what came of it.
ShopLogin ==
    /\ pc = "handle" /\ page.name = "authorization" /\ client \notin {"H4399", HZ4399}
    /\ \/ dialog = "none" /\ screen' = {"enter game"} /\ game' = "selecting" /\ After("look")
       \/ dialog = "none" /\ screen' \in LoginScreens(client) /\ After("look") /\ UNCHANGED game
       \/ After("raised") /\ UNCHANGED <<screen, game>>
    /\ deaf' = 0

\* The app moves on by itself, or a dialog of the emulator comes up.
AppMoves ==
    /\ pc \in {"look", "detect"} /\ game = "login"
    /\ screen' \in LoginScreens(client) \ {screen}
    /\ UNCHANGED <<client, dialog, dialogs, pc, boxes, prev, last, repeated, steps, page, game, deaf>>
DialogComesUp ==
    /\ pc \in {"look", "detect", "handle"} /\ dialog = "none" /\ dialogs < MaxDialogs
    /\ dialog' \in {"known", "other"} /\ dialogs' = dialogs + 1
    /\ UNCHANGED <<client, screen, pc, boxes, prev, last, repeated, steps, page, game, deaf>>

\* login() is called again when it is needed, in the game when the app was started anew.
Login ==
    /\ pc \in {"done", "raised"}
    /\ pc' = "look" /\ prev' = "none" /\ last' = "none" /\ repeated' = 0 /\ steps' = 0 /\ deaf' = 0
    /\ dialog' \in {dialog, "none"}
    /\ \/ game = "selecting" /\ screen' = {"enter game"} /\ UNCHANGED game
       \/ game \in {"login", "refused", "inside"} /\ game' = "login" /\ screen' \in LoginScreens(client)
    /\ UNCHANGED <<client, dialogs, boxes, page>>

Next ==
    \/ Look \/ GiveUp \/ Choose
    \/ SelectCharacter \/ Authorize \/ PasswordLogin \/ ShopLogin
    \/ AppMoves \/ DialogComesUp \/ Login

Spec == Init /\ [][Next]_vars

-----------------------------------------------------------------------------
\* The router is where its loop can be.
TypeOK ==
    /\ client \in Clients /\ screen \subseteq Marks /\ boxes \subseteq Marks
    /\ dialog \in {"none", "known", "other"} /\ dialogs \in 0..MaxDialogs
    /\ pc \in {"look", "detect", "handle", "done", "raised"} /\ steps \in 0..MaxSteps
    /\ game \in {"login", "selecting", "inside", "refused"} /\ repeated \in 0..1

\* A handler is run for a page of the client alone, whose mark was on the frame; and twice in a
\* row only if no other page of the client was on it.
HandlerFits ==
    pc = "handle" =>
        /\ client \in page.clients /\ page.mark \in boxes
        /\ page.name = prev => \A i \in Shown : Pages[i].name = prev

\* A dialog the router can close swallows the clicks of two handlers, not of a third, as long as
\* one page alone is on the screen.
DialogIsClosed == deaf <= 2

\* The app of 4399 is said to be logged in when none of its login marks is left.
BoxIsLoggedIn == pc = "done" /\ client = HZ4399 => screen \cap LoginMarks = {}

\* All of the above.
LoginIsSound == TypeOK /\ HandlerFits /\ DialogIsClosed /\ BoxIsLoggedIn
=============================================================================
