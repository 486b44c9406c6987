------------------------------ MODULE RunStore -------------------------------
(***************************************************************************)
(* The files of one run and the processes that write them: runs/store.py,  *)
(* runs/fsutil.py, and the loading and committing parts of runs/manager.py.*)
(*                                                                         *)
(* A run is a snapshot, replaced atomically, and a log of lines.  A        *)
(* mutation takes the run's lock, loads snapshot plus newer events, appends*)
(* its events one by one and then saves the edited document.  It may die,  *)
(* or fail with an error, between any two of these steps and in the middle *)
(* of an append.  The lock dies with its holder.                           *)
(*                                                                         *)
(* A document is represented by the events it reflects: `applied` lists    *)
(* their ids since the run's plan was fixed.                               *)
(***************************************************************************)
EXTENDS Integers, SequencesExt

CONSTANTS
  Processes,
  NoProcess,
  MaxEvents,   \* bound: events issued
  MaxBatch     \* bound: events of one mutation

ASSUME ProcessAssumption == NoProcess \notin Processes
ASSUME SizeAssumption == MaxEvents \in Nat \ {0} /\ MaxBatch \in Nat \ {0}

Event == 1..MaxEvents

VARIABLES
  snapshot,  \* run.json
  log,       \* the lines of events.jsonl
  unended,   \* the log's last byte is not a newline
  lock,      \* the process that holds .lock
  op,        \* op[p]: the mutation p is in the middle of
  issued     \* events whose writing was begun

storeVars == <<snapshot, log, unended, lock, op, issued>>

Doc == [seq : Nat, applied : Seq(Event)]

NoRun == [seq |-> -1, applied |-> << >>]      \* the file is missing
Broken == [seq |-> -2, applied |-> << >>]     \* the log does not start a run

\* A line is an event, or a fragment nobody can parse.
Torn == [seq |-> 0, id |-> 0, start |-> FALSE]

Line == [seq : Nat, id : Event, start : BOOLEAN] \cup {Torn}

Idle == [at |-> "idle", doc |-> NoRun, left |-> 0, start |-> FALSE]

StoreTypeOK ==
  /\ snapshot \in Doc \cup {NoRun}
  /\ log \in Seq(Line)
  /\ unended \in BOOLEAN
  /\ lock \in Processes \cup {NoProcess}
  /\ op \in [Processes -> [at : {"idle", "append", "save"}, doc : Doc \cup {NoRun},
                           left : 0..MaxBatch, start : BOOLEAN]]
  /\ issued \in 0..MaxEvents

(******************************* Loading ***********************************)

LastSeq(lines) == Max({0} \cup {entry.seq : entry \in Range(lines)})

\* read_events(after_seq): the whole lines with what a document does not show.
IsNews(doc, entry) == entry # Torn /\ entry.seq > doc.seq

\* _apply_event.  run.created and run.replanned carry the whole document.
Apply(doc, e) ==
  IF doc # Broken /\ e.start THEN [seq |-> e.seq, applied |-> <<e.id>>]
  ELSE IF doc \in {NoRun, Broken} THEN Broken
  ELSE [seq |-> e.seq, applied |-> Append(doc.applied, e.id)]

\* _load_unlocked, from a snapshot that may be missing.
LoadFrom(base, lines) ==
  FoldLeft(LAMBDA doc, entry : IF IsNews(base, entry) THEN Apply(doc, entry) ELSE doc, base, lines)

Loaded == LoadFrom(snapshot, log)

IsRun(doc) == doc \notin {NoRun, Broken}

(****************************** Mutations **********************************)

\* Writers do not wait for one another.
NeverLocked == lock \in Processes \cup {NoProcess}

Unlocked == lock = NoProcess

Begin(p, doc, n, start) ==
  /\ lock' = p
  /\ op' = [op EXCEPT ![p] =
              [at |-> "append", doc |-> doc, left |-> n, start |-> start]]

EndMutation(p) ==
  /\ lock' = NoProcess
  /\ op' = [op EXCEPT ![p] = Idle]

\* create_run: the snapshot, numbered 0, comes before its first event.
Create(p, n) ==
  /\ Unlocked /\ op[p].at = "idle"
  /\ snapshot = NoRun /\ log = << >>
  /\ issued < MaxEvents
  /\ snapshot' = [seq |-> 0, applied |-> <<issued + 1>>]
  /\ issued' = issued + 1
  /\ Begin(p, snapshot', n, TRUE)
  /\ UNCHANGED <<log, unended>>

\* _mutate: load, and let the operation collect n events.
Mutate(p, n) ==
  /\ Unlocked /\ op[p].at = "idle"
  /\ IsRun(Loaded)
  /\ Begin(p, Loaded, n, FALSE)
  /\ UNCHANGED <<snapshot, log, unended, issued>>

\* _replace_run: run.replanned carries the document of the new plan.
Replace(p, n) ==
  /\ Unlocked /\ op[p].at = "idle"
  /\ IsRun(Loaded)
  /\ issued < MaxEvents
  /\ issued' = issued + 1
  /\ Begin(p, [seq |-> 0, applied |-> <<issued + 1>>], n, TRUE)
  /\ UNCHANGED <<snapshot, log, unended>>

\* The next event of p's mutation.  The first one of a new document carries it.
NextEvent(p) ==
  [seq |-> LastSeq(log) + 1,
   id |-> IF op[p].start THEN op[p].doc.applied[1] ELSE issued + 1,
   start |-> op[p].start]

CanWrite(p) ==
  /\ op[p].at = "append"
  /\ ~op[p].start => issued < MaxEvents

Issue(p) == issued' = IF op[p].start THEN issued ELSE issued + 1

\* append_jsonl ends an unended line before it writes.
AddLine(lines, entry) == Append(lines, entry)

\* The transaction misses its end.
AppendEventOn(p) ==
  /\ CanWrite(p)
  /\ log' = AddLine(log, NextEvent(p))
  /\ unended' = FALSE
  /\ Issue(p)
  /\ op' = [op EXCEPT ![p].doc = Apply(@, NextEvent(p)), ![p].left = @ - 1,
                      ![p].start = FALSE]
  /\ UNCHANGED <<snapshot, lock>>

AppendEvent(p) ==
  /\ CanWrite(p)
  /\ log' = AddLine(log, NextEvent(p))
  /\ unended' = FALSE
  /\ Issue(p)
  /\ op' = [op EXCEPT ![p] =
              [at |-> IF op[p].left = 1 THEN "save" ELSE "append",
               doc |-> Apply(op[p].doc, NextEvent(p)),
               left |-> op[p].left - 1, start |-> FALSE]]
  /\ UNCHANGED <<snapshot, lock>>

\* The append stops half way: with the old line ended and nothing written,
\* with a fragment, or with all but the newline.
AppendFails(p) ==
  /\ CanWrite(p)
  /\ \/ unended' = FALSE /\ UNCHANGED log
     \/ unended' = TRUE /\ log' = AddLine(log, Torn)
     \/ unended' = TRUE /\ log' = AddLine(log, NextEvent(p))
  /\ Issue(p)
  /\ EndMutation(p)
  /\ UNCHANGED snapshot

Save(p) ==
  /\ op[p].at = "save"
  /\ snapshot' = op[p].doc
  /\ EndMutation(p)
  /\ UNCHANGED <<log, unended, issued>>

\* Death or an error between two writes.
Fail(p) ==
  /\ op[p].at # "idle"
  /\ EndMutation(p)
  /\ UNCHANGED <<snapshot, log, unended, issued>>

LogStartsRun ==
  \E i \in DOMAIN log : log[i] # Torn /\ log[i].start /\ \A j \in 1..i - 1 : log[j] = Torn

\* The snapshot goes missing or is corrupted.  Not where the log does not start
\* with the run's creation, which a crash in Create may leave: there it loses the
\* run, although "the whole run is rebuilt from the `run.created` event onward"
\* (docs/runtime.md:70-71).
LoseSnapshot ==
  /\ LogStartsRun
  /\ snapshot' = NoRun
  /\ UNCHANGED <<log, unended, lock, op, issued>>

(**************************** The specification ****************************)

StoreInit ==
  /\ snapshot = NoRun
  /\ log = << >> /\ unended = FALSE
  /\ lock = NoProcess /\ op = [p \in Processes |-> Idle]
  /\ issued = 0

StoreNext ==
  \/ \E p \in Processes :
       \/ \E n \in 1..MaxBatch : Create(p, n) \/ Mutate(p, n) \/ Replace(p, n)
       \/ AppendEvent(p) \/ AppendFails(p) \/ Save(p) \/ Fail(p)
  \/ LoseSnapshot

StoreSpec == StoreInit /\ [][StoreNext]_storeVars

(***************************** Properties **********************************)

\* What a process would load is what an EventLog holds: no crash, error, torn
\* line, stale or lost snapshot, or interleaving of two processes loses an
\* event that was once readable, applies one twice, or reorders them
\* (_load_unlocked, append_jsonl, the run lock).
Stored == INSTANCE EventLog
  WITH run <- IF IsRun(Loaded) THEN Loaded.applied ELSE << >>

StoredSpec == Stored!Spec

==============================================================================
