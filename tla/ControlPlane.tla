---------------------------- MODULE ControlPlane ----------------------------
(***************************************************************************)
(* The requests of the control plane (packages/control-plane/src) that     *)
(* change files of the repository: the editing of the configuration, the   *)
(* files of the setup, the commands of the runbook and the decisions.      *)
(*                                                                         *)
(* Every request is a handler of one Node process: handlers interleave at  *)
(* their awaits and nothing locks a file.  All end in the same way: they   *)
(* read a log, extend it and write it back in place.  A file is written by *)
(* truncating it and filling it, so another handler, or a crash, may come  *)
(* in between.                                                             *)
(*                                                                         *)
(* A configuration stands for the set of edits that it holds.              *)
(***************************************************************************)
EXTENDS Integers, Sequences, SequencesExt

CONSTANTS
  Requests,  \* the requests that change something
  Kinds,     \* what they ask for
  Kept       \* how many actions the history of commands keeps

VARIABLES
  readOnly,   \* the server was started with --read-only
  serving,    \* the step each request is about to take
  kind,       \* what it asks for
  forced,     \* it may overwrite files that are there
  agenda,     \* the files and logs it has still to write, in order
  against,    \* the file it has compared its text with
  text,       \* the edits in the text it writes
  extended,   \* the log it has read, with its own entry
  file,       \* the files of the repository
  log,        \* the logs under .visual-hive
  clobbered,  \* requests whose open file another has truncated or filled
  disturbed,  \* history: files and logs two requests, or a crash, came between
  appended,   \* history: the entries of each log in the order of their writing
  before      \* history: the files before the first request

controlVars == <<readOnly, serving, kind, forced, agenda, against, text, extended, file,
                 log, clobbered, disturbed, appended, before>>

-----------------------------------------------------------------------------
AllKinds == {"save", "apply", "setup", "docs", "bundle", "command", "profile",
             "decide"}

ASSUME ControlAssumption == Kept \in Nat \ {0} /\ Kinds \subseteq AllKinds

Setups == {"setup", "docs", "bundle"}
Files == {"config", "docs"}
Logs == Files \cup {"bundle", "actions", "decisions"}
ControlSteps == {"idle", "snapshot", "outputs", "exists", "read", "open", "fill", "run",
                 "readLog", "openLog", "fillLog", "done", "failed"}

(* A file's name is also that of its audit log.  The bundle goes on to the *)
(* workflow templates, which are written as the document is.               *)
Agenda(k) ==
  CASE k \in {"save", "apply", "setup"} -> <<"config">>
    [] k = "docs" -> <<"docs">>
    [] k = "bundle" -> <<"config", "docs", "bundle">>
    [] k = "command" -> <<"actions">>
    [] k = "profile" -> <<"actions", "actions">>
    [] OTHER -> <<"decisions">>

FirstStep(k) ==
  CASE k = "save" -> "read"
    [] k = "apply" -> "snapshot"
    [] k = "bundle" -> "outputs"
    [] k \in {"command", "profile"} -> "run"
    [] k = "decide" -> "readLog"
    [] OTHER -> "exists"

TaskStep(item) ==
  CASE item \in Files -> "exists"
    [] item = "actions" -> "run"
    [] OTHER -> "readLog"

(* What is at a path, and the edits it holds when it is all there.         *)
NoFile == [is |-> "absent", holds |-> {}]
Torn == [is |-> "torn", holds |-> {}]
Whole(edits) == [is |-> "whole", holds |-> edits]
Contents == {NoFile, Torn} \cup {Whole(edits) : edits \in SUBSET Requests}

(* An entry: who wrote it, what the file was, what it is made to be.       *)
Entries == [by : Requests, old : Contents, new : SUBSET Requests]

ControlTypeOK ==
  /\ readOnly \in BOOLEAN
  /\ serving \in [Requests -> ControlSteps]
  /\ kind \in [Requests -> AllKinds \cup {"none"}]
  /\ forced \in [Requests -> BOOLEAN]
  /\ agenda \in [Requests -> Seq(Logs)]
  /\ against \in [Requests -> Contents]
  /\ text \in [Requests -> SUBSET Requests]
  /\ extended \in [Requests -> Seq(Entries)]
  /\ file \in [Files -> Contents]
  /\ log \in [Logs -> [torn : BOOLEAN, entries : Seq(Entries)]]
  /\ clobbered \in SUBSET Requests
  /\ disturbed \in SUBSET Logs
  /\ appended \in [Logs -> Seq(Entries)]
  /\ before \in [Files -> Contents]

ControlInit ==
  /\ readOnly \in BOOLEAN
  /\ serving = [q \in Requests |-> "idle"]
  /\ kind = [q \in Requests |-> "none"]
  /\ forced = [q \in Requests |-> FALSE]
  /\ agenda = [q \in Requests |-> <<>>]
  /\ against = [q \in Requests |-> NoFile]
  /\ text = [q \in Requests |-> {q}]
  /\ extended = [q \in Requests |-> <<>>]
  /\ file \in [Files -> {NoFile, Whole({})}]
  /\ log = [l \in Logs |-> [torn |-> FALSE, entries |-> <<>>]]
  /\ clobbered = {}
  /\ disturbed = {}
  /\ appended = [l \in Logs |-> <<>>]
  /\ before = file

Now(q, step) == serving' = [serving EXCEPT ![q] = step]
Item(q) == Head(agenda[q])

(* Those between their first look at an item and its last write.           *)
Busy(item) ==
  {q \in Requests : /\ agenda[q] # <<>> /\ Item(q) = item
                    /\ serving[q] \notin {"idle", "outputs", "run", "done", "failed"}}

(* Requests at the same item disturb each other ...                        *)
Enters(q, item) ==
  disturbed' = disturbed \cup {x \in {item} : Busy(item) \ {q} # {}}

(* ... and one that writes what another has open spoils it.                *)
Spoils(q, step) ==
  clobbered' = (clobbered \ {q}) \cup
    {p \in Requests \ {q} : serving[p] = step /\ Item(p) = Item(q)}

request == <<readOnly, kind, forced>>
record == <<log, appended>>
past == <<disturbed, before>>

-----------------------------------------------------------------------------
(* A request comes in.  Read-only refuses it, except that a command is     *)
(* recorded as blocked.  A request that is refused for another reason (not *)
(* confirmed, a profile that is not executable) changes no more than one   *)
(* that never comes.                                                       *)
Arrives(q) ==
  /\ serving[q] = "idle"
  /\ \E k \in Kinds, force \in BOOLEAN :
       /\ kind' = [kind EXCEPT ![q] = k]
       /\ force => k \in Setups
       /\ forced' = [forced EXCEPT ![q] = force]
       /\ IF readOnly /\ k # "command"
            THEN Now(q, "failed") /\ UNCHANGED agenda
            ELSE /\ Now(q, FirstStep(k))
                 /\ agenda' = [agenda EXCEPT ![q] = Agenda(k)]
       /\ IF ~readOnly /\ FirstStep(k) \notin {"outputs", "run"}
            THEN Enters(q, Head(Agenda(k)))
            ELSE UNCHANGED disturbed
  /\ UNCHANGED <<readOnly, against, text, extended, file, record, clobbered, before>>

(* Mutant of ReadsSnapshot: the snapshot is one the server has kept.        *)
ReadsOldSnapshot(q) ==
  /\ serving[q] = "snapshot"
  /\ text' = [text EXCEPT ![q] = before["config"].holds \cup {q}]
  /\ Now(q, "read")
  /\ UNCHANGED <<request, agenda, against, extended, file, record, clobbered, past>>

(* A coverage recommendation is applied to the configuration as parsed for *)
(* the snapshot; it may turn out to be applied already.                    *)
ReadsSnapshot(q) ==
  /\ serving[q] = "snapshot"
  /\ IF file["config"].is = "whole"
       THEN /\ text' = [text EXCEPT ![q] = file["config"].holds \cup {q}]
            /\ Now(q, "read") \/ Now(q, "done")
       ELSE Now(q, "failed") /\ UNCHANGED text
  /\ UNCHANGED <<request, agenda, against, extended, file, record, clobbered, past>>

(* The bundle is refused when any of its files is there, unless forced.    *)
LooksAtOutputs(q) ==
  /\ serving[q] = "outputs"
  /\ IF forced[q] \/ \A f \in Files : file[f].is = "absent"
       THEN Now(q, "exists") /\ Enters(q, "config")
       ELSE Now(q, "failed") /\ UNCHANGED disturbed
  /\ UNCHANGED <<request, agenda, against, text, extended, file, record, clobbered, before>>

(* Mutant of LooksForFile: force is not asked for.                         *)
LooksForNothing(q) ==
  /\ serving[q] = "exists"
  /\ Now(q, "read")
  /\ UNCHANGED <<request, agenda, against, text, extended, file, record, clobbered, past>>

(* A file of the setup is written when it is not there, or forced.         *)
LooksForFile(q) ==
  /\ serving[q] = "exists"
  /\ Now(q, IF forced[q] \/ file[Item(q)].is = "absent" THEN "read" ELSE "failed")
  /\ UNCHANGED <<request, agenda, against, text, extended, file, record, clobbered, past>>

(* validateConfigDraft: the file is read for the diff, and the text parsed.*)
ReadsCurrent(q) ==
  /\ serving[q] = "read"
  /\ against' = [against EXCEPT ![q] = file[Item(q)]]
  /\ Now(q, "open") \/ (Item(q) = "config" /\ Now(q, "failed"))
  /\ UNCHANGED <<request, agenda, text, extended, file, record, clobbered, past>>

(* writeFile truncates the file ...                                        *)
OpensFile(q) ==
  /\ serving[q] = "open"
  /\ file' = [file EXCEPT ![Item(q)] = Torn]
  /\ Spoils(q, "fill")
  /\ Now(q, "fill")
  /\ UNCHANGED <<request, agenda, against, text, extended, record, past>>

(* ... and fills it, which leaves the end of a longer text of another      *)
(* handler that had the file open too.                                     *)
FillsFile(q) ==
  /\ serving[q] = "fill"
  /\ \/ file' = [file EXCEPT ![Item(q)] = Whole(text[q])]
     \/ q \in clobbered /\ file' = [file EXCEPT ![Item(q)] = Torn]
  /\ Spoils(q, "fill")
  /\ Now(q, "readLog")
  /\ UNCHANGED <<request, agenda, against, text, extended, record, past>>

(* executeRunbookCommand: child processes run until one fails, or none     *)
(* runs at all; a profile goes on to the next command only when it passed. *)
RunsCommand(q) ==
  /\ serving[q] = "run"
  /\ \/ UNCHANGED agenda
     \/ agenda' = [agenda EXCEPT ![q] = <<"actions">>]
  /\ Enters(q, "actions")
  /\ Now(q, "readLog")
  /\ UNCHANGED <<request, against, text, extended, file, record, clobbered, before>>

-----------------------------------------------------------------------------
EntryOf(q) ==
  IF Item(q) \in Files
    THEN [by |-> q, old |-> against[q], new |-> text[q]]
    ELSE [by |-> q, old |-> NoFile, new |-> {}]

(* The last entries of a log that fit in it: only the actions are bounded. *)
(* (Decisions are written with the newest first; here the order is that of *)
(* all logs.)                                                              *)
Newest(item, entries) ==
  IF item = "actions" /\ Len(entries) > Kept
    THEN SubSeq(entries, Len(entries) - Kept + 1, Len(entries))
    ELSE entries

(* Mutant of ReadsLog: the oldest entries are kept.                        *)
ReadsLogKeepsOldest(q) ==
  LET item == Item(q)
      longer == Append(log[item].entries, EntryOf(q)) IN
  /\ serving[q] = "readLog"
  /\ extended' = [extended EXCEPT ![q] =
       IF item = "actions" /\ Len(longer) > Kept THEN SubSeq(longer, 1, Kept) ELSE longer]
  /\ Now(q, "openLog")
  /\ UNCHANGED <<request, agenda, against, text, file, record, clobbered, past>>

(* The log is read; one that does not parse counts as empty, except that   *)
(* a decision is not recorded over one.                                    *)
ReadsLog(q) ==
  LET item == Item(q) IN
  /\ serving[q] = "readLog"
  /\ IF log[item].torn
       THEN IF item = "decisions"
              THEN Now(q, "failed") /\ UNCHANGED extended
              ELSE /\ extended' = [extended EXCEPT ![q] = <<EntryOf(q)>>]
                   /\ Now(q, "openLog")
       ELSE /\ extended' = [extended EXCEPT
                 ![q] = Newest(item, Append(log[item].entries, EntryOf(q)))]
            /\ Now(q, "openLog")
  /\ UNCHANGED <<request, agenda, against, text, file, record, clobbered, past>>

OpensLog(q) ==
  /\ serving[q] = "openLog"
  /\ log' = [log EXCEPT ![Item(q)] = [torn |-> TRUE, entries |-> <<>>]]
  /\ Spoils(q, "fillLog")
  /\ Now(q, "fillLog")
  /\ UNCHANGED <<request, agenda, against, text, extended, file, appended, past>>

(* The next item of the agenda; a file's own check comes first.            *)
GoesOn(q) ==
  LET rest == Tail(agenda[q]) IN
  /\ agenda' = [agenda EXCEPT ![q] = rest]
  /\ IF rest = <<>>
       THEN Now(q, "done") /\ UNCHANGED disturbed
       ELSE /\ Now(q, TaskStep(Head(rest)))
            /\ IF Head(rest) = "actions" THEN UNCHANGED disturbed
                                         ELSE Enters(q, Head(rest))

FillsLog(q) ==
  LET item == Item(q) IN
  /\ serving[q] = "fillLog"
  /\ \/ log' = [log EXCEPT ![item] = [torn |-> FALSE, entries |-> extended[q]]]
     \/ q \in clobbered /\ log' = [log EXCEPT ![item] = [torn |-> TRUE, entries |-> <<>>]]
  /\ appended' = [appended EXCEPT ![item] = Append(@, EntryOf(q))]
  /\ extended' = [extended EXCEPT ![q] = <<>>]
  /\ against' = [against EXCEPT ![q] = NoFile]
  /\ Spoils(q, "fillLog")
  /\ GoesOn(q)
  /\ UNCHANGED <<request, text, file, before>>

-----------------------------------------------------------------------------
(* The server is stopped, or dies, and is started again.                   *)
Restarts ==
  /\ \E q \in Requests : serving[q] \notin {"idle", "done", "failed"}
  /\ disturbed' = disturbed \cup
       {Item(q) : q \in {p \in Requests :
                           serving[p] \in {"fill", "readLog", "openLog", "fillLog"}}}
  /\ serving' = [q \in Requests |->
                   IF serving[q] \in {"idle", "done"} THEN serving[q] ELSE "failed"]
  /\ extended' = [q \in Requests |-> <<>>]
  /\ against' = [q \in Requests |-> NoFile]
  /\ agenda' = [q \in Requests |-> <<>>]
  /\ clobbered' = {}
  /\ UNCHANGED <<request, text, file, record, before>>

RequestStep(q) ==
  \/ Arrives(q) \/ ReadsSnapshot(q) \/ LooksAtOutputs(q) \/ LooksForFile(q)
  \/ ReadsCurrent(q) \/ OpensFile(q) \/ FillsFile(q) \/ RunsCommand(q)
  \/ ReadsLog(q) \/ OpensLog(q) \/ FillsLog(q)

ControlNext == (\E q \in Requests : RequestStep(q)) \/ Restarts

ControlSpec == ControlInit /\ [][ControlNext]_controlVars

-----------------------------------------------------------------------------
ComesFrom(part, all) ==
  \E at \in [DOMAIN part -> DOMAIN all] :
    /\ \A i, j \in DOMAIN part : i < j => at[i] < at[j]
    /\ \A i \in DOMAIN part : part[i] = all[at[i]]

(* Whatever comes between, a log that can be read holds entries that were  *)
(* written, each once and in the order of their writing; and all of them,  *)
(* up to the bound, when nothing came between its handlers.                *)
LogsKeep ==
  \A l \in Logs :
    /\ ~log[l].torn => ComesFrom(log[l].entries, appended[l])
    /\ l \notin disturbed /\ (\A q \in Busy(l) : serving[q] # "fillLog") =>
         log[l] = [torn |-> FALSE, entries |-> Newest(l, appended[l])]

(* The audit log of a file tells how it came to be: every entry starts     *)
(* from what the one before has made, an applied recommendation only adds  *)
(* to it, and the last one made what is there, when nothing came between.  *)
AuditReplays ==
  \A f \in Files \ disturbed :
    LET e == log[f].entries IN
    /\ \A i \in 1..Len(e) :
         /\ e[i].old = IF i = 1 THEN before[f] ELSE Whole(e[i - 1].new)
         /\ kind[e[i].by] = "apply" => e[i].new = e[i].old.holds \cup {e[i].by}
    /\ Busy(f) = {} => file[f] = IF e = <<>> THEN before[f] ELSE Whole(Last(e).new)

(* The setup writes no file over another without being forced to, unless   *)
(* something came between its look and its writing.                        *)
UnforcedSpares ==
  \A f \in Files \ disturbed : \A e \in Range(log[f].entries) :
    kind[e.by] \in Setups /\ ~forced[e.by] => e.old = NoFile
=============================================================================
