---------------------------- MODULE AccountStore ----------------------------
(***************************************************************************)
(* The accounts, their characters' tables of tasks, and the copies of them *)
(* (AutoScriptor/utils/app_config.py: AutoConfig, ConfigManager;           *)
(* ZmxyOL/accounts/account_store.py: Account, AccountStore; the operations *)
(* of orchestrator/projection.py and task_manager.py that go through them; *)
(* AutoScriptor/utils/json_io.py).                                         *)
(*                                                                         *)
(* A table exists three times: in the flat view cfg._config["tasks"], in   *)
(* the account's document, and in the account's file.  After a load the    *)
(* flat table is that of the document; a save gives the document a copy,   *)
(* and from then on they are two.  Every operation is a list of steps, and *)
(* the program may be killed between any two of them; a file is replaced   *)
(* in one step.  A table is the set of the edits that are in it.           *)
(***************************************************************************)
EXTENDS Integers, Sequences, FiniteSets

CONSTANTS
    Home,           \* the account of each character
    First,          \* the account the program begins with
    MaxEdits,       \* bound: edits in a behaviour
    Overlap         \* a pipeline's steps and the loop's may overlap

Chars == DOMAIN Home
Accounts == {Home[c] : c \in Chars}

ASSUME HomeAssumption == First \in Accounts /\ {"none", "gone"} \cap Chars = {}
ASSUME EditsAssumption == MaxEdits \in Nat

Threads == {"web", "run", "loop"}

\* The entries every registered task has, and the edits.
Entries == 0
Edits == 1..MaxEdits

VARIABLES
    config,     \* current_account in config.json
    file,       \* the account's file: its active character and tables, or Missing
    root,       \* current_acc: [acc, active, tables]
    flat,       \* cfg._config: [acc, who, table], whose tasks they are included
    shared,     \* flat's table and root's of the active character are one object
    creds,      \* the account whose decrypted credentials are in memory, or "none"
    todo,       \* the steps each thread has yet to take
    running,    \* a pipeline is under way: "no", "scheduled", "direct"
    held,       \* the table the outcome of a task is to be written to is still flat's
    owner,      \* history: whose edit it is, "none" before it is made
    saved,      \* history: the edits whose operation has come to its end
    failed      \* history: a save has failed; bound: once in a behaviour

vars == <<config, file, root, flat, shared, creds, todo, running, held, owner, saved, failed>>
memory == <<root, flat, shared, creds>>
disk == <<config, file>>

Missing == [active |-> "none", tables |-> <<>>]
Exists(acc) == file[acc] # Missing
Of(acc) == {c \in Chars : Home[c] = acc}

\* A new account has one character.
NewFile(c) == [active |-> c, tables |-> [x \in {c} |-> {}]]

\* load_account makes the file that is missing; flat_overlay of the account.
Read(acc) == IF Exists(acc) THEN file[acc] ELSE NewFile(CHOOSE c \in Of(acc) : TRUE)
Loaded(acc) == [acc |-> acc, active |-> Read(acc).active, tables |-> Read(acc).tables]
Written(acc) == file' = [file EXCEPT ![acc] = Read(acc)]
Shown(r) == [acc |-> r.acc, who |-> r.active, table |-> r.tables[r.active]]

Init ==
    /\ config = First
    /\ file = [a \in Accounts |->
                  IF a = First THEN NewFile(CHOOSE c \in Of(a) : TRUE) ELSE Missing]
    /\ root = Loaded(First) /\ flat = Shown(root) /\ shared = TRUE
    /\ creds = "none"
    /\ todo = [t \in Threads |-> <<>>] /\ running = "no" /\ held = FALSE
    /\ owner = [e \in Edits |-> "none"] /\ saved = {} /\ failed = FALSE

-----------------------------------------------------------------------------
(* The steps.                                                              *)

Step(what, arg) == [do |-> what, on |-> arg]

\* Mutant: prepare_for_save copies the other way round.
PreparedBackwards == root.tables

\* prepare_for_save(flat): the document gets a copy of the flat table.
Prepared ==
    IF root.active \in DOMAIN root.tables
    THEN [root.tables EXCEPT ![root.active] = flat.table] ELSE root.tables

\* AccountStore.save, of save_all.
SaveAccount ==
    /\ root' = [root EXCEPT !.tables = Prepared]
    /\ file' = [file EXCEPT ![root.acc] = [active |-> root.active, tables |-> Prepared]]
    /\ shared' = FALSE
    /\ UNCHANGED <<config, flat, creds, held, owner>>

\* persist_global, of save_all
SaveConfig ==
    /\ config' = flat.acc
    /\ UNCHANGED <<file, memory, held, owner>>

\* save_account_file: the document as it is.
SaveRoot ==
    /\ file' = [file EXCEPT ![root.acc] = [active |-> root.active, tables |-> root.tables]]
    /\ UNCHANGED <<config, memory, held, owner>>

\* Account.active_info; a character that the document has lost is refused.
Known(step) == step.do = "set active" => step.on \in DOMAIN root.tables

SetActive(c) ==
    /\ root' = [root EXCEPT !.active = c]
    /\ shared' = (shared /\ c = root.active)
    /\ UNCHANGED <<disk, flat, creds, held, owner>>

\* load_account with a key, as a switch of the account does: it may be the wrong one.
Load(acc) ==
    /\ root' = Loaded(acc) /\ Written(acc)
    /\ shared' = FALSE
    /\ creds' \in {"none", acc}
    /\ UNCHANGED <<config, flat, held, owner>>

\* reload_preserving_decrypted_credentials: the credentials are put back if the account is
\* the one they are for.
Reload ==
    /\ root' = Loaded(config) /\ Written(config)
    /\ shared' = FALSE
    /\ creds' = IF config = flat.acc THEN creds ELSE "none"
    /\ UNCHANGED <<config, flat, held, owner>>

\* _refresh_flat_config: whoever holds the former table writes to nobody's.
Refresh ==
    /\ flat' = Shown(root)
    /\ shared' = TRUE /\ held' = FALSE
    /\ UNCHANGED <<disk, root, creds, owner>>

\* An edit of a table in the document, of the flat table, of both.
Fresh == CHOOSE e \in Edits : owner[e] = "none"
Mine(c) == owner' = [owner EXCEPT ![Fresh] = c]

EditOther(c) ==
    /\ Mine(c)
    /\ root' = [root EXCEPT !.tables[c] = @ \cup {Fresh}]
    /\ UNCHANGED <<disk, flat, shared, creds, held>>

\* save_character_task of the active character: the document's table with the edit becomes
\* the flat one.
EditActive ==
    LET table == root.tables[root.active] \cup {Fresh} IN
    /\ Mine(root.active)
    /\ root' = [root EXCEPT !.tables[root.active] = table]
    /\ flat' = [flat EXCEPT !.table = table]
    /\ shared' = TRUE /\ held' = FALSE
    /\ UNCHANGED <<disk, creds>>

\* save_tasks: the flat table becomes the one the page has sent.
EditFlat ==
    /\ Mine(flat.who)
    /\ flat' = [flat EXCEPT !.table = @ \cup {Fresh}]
    /\ shared' = FALSE /\ held' = FALSE
    /\ UNCHANGED <<disk, root, creds>>

\* _update_next_exec_time: the entry is looked up, ...
LookUp == held' = TRUE /\ UNCHANGED <<disk, memory, owner>>

\* ... and written to.
WriteEntry ==
    /\ Mine(flat.who)
    /\ flat' = IF held THEN [flat EXCEPT !.table = @ \cup {Fresh}] ELSE flat
    /\ root' = IF held /\ shared
               THEN [root EXCEPT !.tables[root.active] = @ \cup {Fresh}] ELSE root
    /\ held' = FALSE
    /\ UNCHANGED <<disk, shared, creds>>

\* Registration fills the flat table.
Filled ==
    /\ flat' = [flat EXCEPT !.table = @ \cup {Entries}]
    /\ root' = IF shared THEN [root EXCEPT !.tables[root.active] = @ \cup {Entries}] ELSE root

Register == Filled /\ UNCHANGED <<disk, shared, creds, held, owner>>

\* _ensure_current_character_entries fills it too, and saves the document.
Ensure ==
    /\ Filled
    /\ IF Entries \in flat.table
       THEN UNCHANGED file
       ELSE file' = [file EXCEPT ![root.acc] = [active |-> root.active, tables |-> root'.tables]]
    /\ UNCHANGED <<config, shared, creds, held, owner>>

AddCharacter(c) ==
    /\ root' = [root EXCEPT !.tables = [x \in DOMAIN @ \cup {c} |-> IF x = c THEN {} ELSE @[x]]]
    /\ UNCHANGED <<disk, flat, shared, creds, held, owner>>

\* The edits of a character that is deleted are gone.
Forget(gone) == owner' = [e \in Edits |-> IF owner[e] \in gone THEN "gone" ELSE owner[e]]

DeleteCharacter(c) ==
    /\ root' = [root EXCEPT !.tables = [x \in DOMAIN @ \ {c} |-> @[x]]]
    /\ Forget({c})
    /\ UNCHANGED <<disk, flat, shared, creds, held>>

\* add_account writes the file of the new account.
NewAccount(c) ==
    /\ file' = [file EXCEPT ![Home[c]] = NewFile(c)]
    /\ UNCHANGED <<config, memory, held, owner>>

Do(step) ==
    CASE step.do = "save account" -> SaveAccount
      [] step.do = "save config" -> SaveConfig
      [] step.do = "save root" -> SaveRoot
      [] step.do = "set active" -> SetActive(step.on)
      [] step.do = "load" -> Load(step.on)
      [] step.do = "reload" -> Reload
      [] step.do = "refresh" -> Refresh
      [] step.do = "edit other" -> EditOther(step.on)
      [] step.do = "edit active" -> EditActive
      [] step.do = "edit flat" -> EditFlat
      [] step.do = "register" -> Register
      [] step.do = "look up" -> LookUp
      [] step.do = "write entry" -> WriteEntry
      [] step.do = "ensure" -> Ensure
      [] step.do = "add character" -> AddCharacter(step.on)
      [] step.do = "delete character" -> DeleteCharacter(step.on)
      [] step.do = "new account" -> NewAccount(step.on)

-----------------------------------------------------------------------------
(* The operations.                                                         *)

Save == <<Step("save account", ""), Step("save config", "")>>
SaveFile == <<Step("save root", "")>>

\* Mutant: the character is switched after the view was made anew.
SwitchLate(c) == <<Step("refresh", ""), Step("set active", c)>> \o Save

SwitchCharacter(c) == <<Step("set active", c), Step("refresh", "")>> \o Save
SwitchAccount(a) == Save \o <<Step("load", a), Step("refresh", "")>> \o Save
Synchronise == <<Step("reload", ""), Step("refresh", "")>>
ReloadAll == Synchronise \o <<Step("register", "")>> \o Save

Busy(t) == todo[t] # <<>>

\* A thread begins an operation.  Of those under the configuration lock there is one at a
\* time; Overlap is for the two that are not under it.
Free(t) ==
    /\ ~Busy(t)
    /\ \A u \in Threads \ {t} : Busy(u) =>
          Overlap /\ "web" \notin {t, u}

Begin(t, steps) ==
    /\ Free(t)
    /\ todo' = [todo EXCEPT ![t] = steps]
    /\ UNCHANGED <<disk, memory, running, held, owner, saved, failed>>

\* A handler of the WebUI: the runtime is idle when it looks, and it gets the lock.
Web(steps) == running = "no" /\ Begin("web", steps)

CanEdit == \E e \in Edits : owner[e] = "none"
Others == DOMAIN root.tables \ {root.active}

SaveTask ==
    /\ CanEdit
    /\ \/ Web(<<Step("edit active", "")>> \o Save)
       \/ Web(<<Step("edit flat", "")>> \o Save)
       \/ \E c \in Others : Web(<<Step("edit other", c)>> \o SaveFile)

\* The dispatch queue, a profession, new credentials are in the document; the settings of the
\* program in config.json.
SaveSettings == Web(SaveFile) \/ Web(<<Step("save config", "")>>)

Switch == \E c \in DOMAIN root.tables : Web(SwitchCharacter(c) \o <<Step("ensure", "")>>)

ChangeAccount == \E a \in {x \in Accounts : Exists(x)} : Web(SwitchAccount(a) \o <<Step("ensure", "")>>)

NewCharacter ==
    \E c \in Of(root.acc) \ DOMAIN root.tables :
        Web(<<Step("add character", c)>> \o SaveFile \o SwitchCharacter(c) \o <<Step("ensure", "")>>)

\* Not the active one; the file is written again when the dispatch queue has been cleared
\* of the character.
RemoveCharacter ==
    \E c \in Others : Web(<<Step("delete character", c)>> \o SaveFile \o SaveFile)

NewFirst ==
    \E c \in Chars :
        /\ ~Exists(Home[c])
        /\ Web(<<Step("new account", c)>> \o SwitchAccount(Home[c]) \o <<Step("ensure", "")>>)

\* delete_account is one step; not the current one.
RemoveAccount ==
    /\ running = "no" /\ Free("web")
    /\ \E a \in Accounts \ {flat.acc} :
          /\ file' = [file EXCEPT ![a] = Missing]
          /\ Forget(Of(a)) /\ saved' = {e \in saved : owner[e] \notin Of(a)}
    /\ UNCHANGED <<config, memory, todo, running, held, failed>>

\* The key is verified: the configuration is loaded with it.
Verify ==
    /\ running = "no" /\ Free("web")
    /\ root' = Loaded(config) /\ Written(config) /\ flat' = Shown(root') /\ shared' = TRUE
    /\ creds' = config /\ held' = FALSE
    /\ UNCHANGED <<config, todo, running, owner, saved, failed>>

\* A pipeline; its end.
StartRun ==
    /\ running = "no" /\ Free("run")
    /\ running' \in {"scheduled", "direct"}
    /\ UNCHANGED <<disk, memory, todo, held, owner, saved, failed>>

EndRun ==
    /\ running # "no" /\ ~Busy("run")
    /\ running' = "no"
    /\ UNCHANGED <<disk, memory, todo, held, owner, saved, failed>>

\* The outcome of a task; the end of a turn; the next character's turn.
Outcome ==
    /\ running # "no" /\ CanEdit
    /\ Begin("run", <<Step("look up", ""), Step("write entry", "")>> \o Save)
EndTurn == running # "no" /\ (Begin("run", Save) \/ Begin("run", ReloadAll))
NextCharacter ==
    /\ running = "scheduled"
    /\ \E c \in Others : Begin("run", SwitchCharacter(c))

\* The loop synchronises the configuration while a direct run is under way; idle, it reloads.
Sync ==
    \/ running = "no" /\ Begin("loop", ReloadAll)
    \/ running = "direct" /\ Begin("loop", Synchronise)

\* config.json is edited outside of the program.
EditConfig ==
    /\ \E a \in {x \in Accounts : Exists(x)} : config' = a
    /\ UNCHANGED <<file, memory, todo, running, held, owner, saved, failed>>

\* A thread takes its next step; the operation is over with the last.
Advance(t) ==
    /\ Busy(t)
    /\ IF Known(Head(todo[t]))
       THEN Do(Head(todo[t])) /\ todo' = [todo EXCEPT ![t] = Tail(@)]
       ELSE UNCHANGED <<disk, memory, held, owner>> /\ todo' = [todo EXCEPT ![t] = <<>>]
    /\ saved' = IF \A u \in Threads : todo'[u] = <<>>
                THEN {e \in Edits : owner'[e] \in Chars}
                ELSE {e \in saved : owner'[e] \in Chars}
    /\ UNCHANGED <<running, failed>>

\* The program is killed, and started again: it loads the configuration, registers the tasks
\* and saves.  The edits that have not reached their file are gone.
InFile(e) == owner[e] \in Chars /\ Exists(Home[owner[e]])
             /\ \E c \in DOMAIN file[Home[owner[e]]].tables : e \in file[Home[owner[e]]].tables[c]

DropUnsaved ==
    owner' = [e \in Edits |-> IF owner[e] \in Chars /\ e \notin saved /\ ~InFile(e)
                             THEN "gone" ELSE owner[e]]

Restart ==
    /\ root' = Loaded(config) /\ Written(config) /\ flat' = Shown(root') /\ shared' = TRUE
    /\ creds' = "none"
    /\ todo' = [t \in Threads |-> IF t = "web" THEN <<Step("register", "")>> \o Save ELSE <<>>]
    /\ running' = "no" /\ held' = FALSE
    /\ DropUnsaved
    /\ UNCHANGED <<config, saved, failed>>

\* A file cannot be replaced: the operation ends with the error, the file is what it was, but
\* the document has got its copy.
SaveFails(t) ==
    /\ ~failed
    /\ Busy(t) /\ Head(todo[t]).do \in {"save account", "save config", "save root"}
    /\ todo' = [todo EXCEPT ![t] = <<>>]
    /\ IF Head(todo[t]).do = "save account"
       THEN root' = [root EXCEPT !.tables = Prepared] /\ shared' = FALSE
       ELSE UNCHANGED <<root, shared>>
    /\ DropUnsaved /\ failed' = TRUE
    /\ UNCHANGED <<disk, flat, creds, running, held, saved>>

Next ==
    \/ SaveTask \/ SaveSettings \/ Switch \/ ChangeAccount \/ NewCharacter \/ RemoveCharacter
    \/ NewFirst \/ RemoveAccount \/ Verify
    \/ StartRun \/ EndRun \/ Outcome \/ EndTurn \/ NextCharacter \/ Sync
    \/ EditConfig \/ Restart
    \/ \E t \in Threads : Advance(t) \/ SaveFails(t)

Spec == Init /\ [][Next]_vars

-----------------------------------------------------------------------------
(* What the accounts promise.                                              *)

Tabled(tables) == \A c \in DOMAIN tables : tables[c] \subseteq Edits \cup {Entries}

\* Types; the active character of a document is one of its own, and the flat view shows the
\* account's active character whenever no operation is under way.
TypeOK ==
    /\ config \in Accounts
    /\ \A a \in Accounts : Exists(a) =>
          /\ file[a].active \in DOMAIN file[a].tables /\ DOMAIN file[a].tables \subseteq Of(a)
          /\ Tabled(file[a].tables)
    /\ root.active \in DOMAIN root.tables /\ DOMAIN root.tables \subseteq Of(root.acc)
    /\ Tabled(root.tables)
    /\ (\A t \in Threads : ~Busy(t)) => flat.who = root.active /\ flat.acc = root.acc
    /\ flat.table \subseteq Edits \cup {Entries}
    /\ shared \in BOOLEAN /\ held \in BOOLEAN
    /\ running \in {"no", "scheduled", "direct"}
    /\ owner \in [Edits -> Chars \cup {"none", "gone"}] /\ saved \subseteq Edits
    /\ failed \in BOOLEAN

OwnOf(c) == {e \in Edits : owner[e] \in {c, "gone"}}

\* An edit is in the tables of its own character only: in the document, in the flat view and
\* in the file, at every step of a switch, of a save, of a reload, and after a kill.
TablesStayHome ==
    /\ \A c \in DOMAIN root.tables : root.tables[c] \cap Edits \subseteq OwnOf(c)
    /\ flat.table \cap Edits \subseteq OwnOf(flat.who)
    /\ \A a \in Accounts : \A c \in DOMAIN file[a].tables :
          file[a].tables[c] \cap Edits \subseteq OwnOf(c)

\* What an operation has saved stays in the file, whatever is switched, reloaded, saved or
\* killed afterwards, until its character or account is deleted.
SavedIsKept ==
    \A e \in saved :
        LET c == owner[e] IN Exists(Home[c]) /\ e \in file[Home[c]].tables[c]

\* Between operations the page shows, and a pipeline works from, what a restart would load;
\* up to the entries without an edit, and to saves that have failed.
ShownIsSaved ==
    ~failed /\ (\A t \in Threads : ~Busy(t)) =>
        /\ file[flat.acc].active = flat.who
        /\ flat.table \ {Entries} = file[flat.acc].tables[flat.who] \ {Entries}

\* The decrypted credentials in memory are those of the account that is loaded.
CredentialsBelong == creds \in {"none", root.acc}

\* The accounts' invariant: types; tables, page and credentials are those of the character
\* and the account they are taken for.
StoreIsSound == TypeOK /\ TablesStayHome /\ ShownIsSaved /\ CredentialsBelong
=============================================================================
