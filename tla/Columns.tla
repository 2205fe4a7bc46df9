------------------------------- MODULE Columns -------------------------------
(***************************************************************************)
(* The choices of columns in a table: which are visible, and their order.  *)
(* A choice goes to the query cache at once, and to the server 300 ms      *)
(* after the last one, in a request that carries every field: the chosen   *)
(* one and, for the others, what the table showed when it was last drawn.  *)
(*                                                                         *)
(* The value of a field is the number of the choice that made it: 0 is the *)
(* default, 1 what an earlier visit has stored.  Widths are never chosen.  *)
(***************************************************************************)
EXTENDS Integers, Sequences

CONSTANTS MaxChoices, MaxMishaps

Fields == {"visible", "order"}
Defaults == [f \in Fields |-> 0]

VARIABLES
  stored,    \* the row of user_preferences
  columns,   \* the entry of the query cache: whether there is data, and which
  read,      \* the request for the row: not sent, sent, or the row that it has read
  mounted,   \* the table is on the screen
  seen,      \* the preferences of the table's last render
  pending,   \* the choices that wait for the timer
  saves,     \* the requests that store choices, in the order of their sending
  last,      \* the last choice of each field
  moved,     \* fields whose last choice an answer has replaced in the cache
  excused,   \* fields whose last choice the row need not hold
  choices, mishaps

columnsVars == <<stored, columns, read, mounted, seen, pending, saves, last, moved, excused, choices, mishaps>>

None == [is |-> FALSE, value |-> Defaults]
Some(value) == [is |-> TRUE, value |-> value]

ColumnsInit ==
  /\ stored = [f \in Fields |-> 1] /\ last = stored
  /\ columns = None /\ pending = None /\ seen = Defaults
  /\ read = [at |-> "idle", value |-> Defaults]
  /\ mounted = FALSE /\ saves = <<>>
  /\ moved = {} /\ excused = {} /\ choices = 0 /\ mishaps = 0
-----------------------------------------------------------------------------
\* Without data the table shows the defaults.
Shown == columns.value

\* The entry after an answer; what it holds may be older than the last choice.
Receive(value) == columns' = Some(value) /\ moved' = {f \in Fields : value[f] # last[f]}

\* A row without preferences is answered with the defaults.
GetPreferences == stored
Upsert(value) == stored' = value

\* PUT, with all the fields.
Mutate(value) == saves' = Append(saves, [value |-> value, at |-> "sent", heard |-> TRUE])
At(n, at) == saves' = [saves EXCEPT ![n].at = at]
Over(n) == saves' = [saves EXCEPT ![n] = [value |-> Defaults, at |-> "over", heard |-> TRUE]]
Sending(n) == n \in DOMAIN saves /\ saves[n].at # "over"

Behind(row) == {f \in Fields : row[f] # last[f]}

\* The last choices that are lost with these values.
Lost(value) == {f \in Behind(stored) : value[f] = last[f]}
Mishap == mishaps < MaxMishaps /\ mishaps' = mishaps + 1
-----------------------------------------------------------------------------
\* The hook is mounted: the row is asked for when there is no data, or it is stale.
MountTable ==
  /\ ~mounted
  /\ mounted' = TRUE
  /\ seen' = Shown
  /\ \/ read.at # "idle" /\ UNCHANGED read
     \/ read.at = "idle" /\ read' = [read EXCEPT !.at = "sent"]
     \/ columns.is /\ UNCHANGED read
  /\ UNCHANGED <<stored, columns, pending, saves, last, moved, excused, choices, mishaps>>

\* The network comes back, and the data is stale.
ReadAgain ==
  /\ mounted /\ columns.is /\ read.at = "idle"
  /\ read' = [read EXCEPT !.at = "sent"]
  /\ UNCHANGED <<stored, columns, mounted, seen, pending, saves, last, moved, excused, choices, mishaps>>

\* What waits for the timer is sent at once.
UnmountTable ==
  /\ mounted
  /\ mounted' = FALSE
  /\ IF pending.is THEN Mutate(pending.value) ELSE UNCHANGED saves
  /\ pending' = None /\ seen' = Defaults
  /\ UNCHANGED <<stored, columns, read, last, moved, excused, choices, mishaps>>

Render ==
  /\ mounted /\ seen # Shown
  /\ seen' = Shown
  /\ UNCHANGED <<stored, columns, read, mounted, pending, saves, last, moved, excused, choices, mishaps>>

\* Slip: the other fields are taken from the defaults.
MergedWithDefaults(f, value) == [Defaults EXCEPT ![f] = value]

\* The updates, over the preferences of the last render.
Merged(f, value) == [seen EXCEPT ![f] = value]

\* A field that the table did not show as it was last chosen is stored as it
\* was shown: because an answer had replaced the choice, or the row was never
\* read, or the table was not yet drawn again.
Overwritten(f) ==
  {g \in Fields \ {f} : seen[g] # last[g] /\ (g \in moved \/ ~columns.is \/ seen # Shown)}

\* savePreferences: the cache shows the choice, and the timer begins again.
Choose(f) ==
  LET value == Merged(f, choices + 2)
  IN /\ mounted /\ choices < MaxChoices
     /\ choices' = choices + 1
     /\ last' = [last EXCEPT ![f] = choices + 2]
     /\ columns' = Some(value) /\ pending' = Some(value)
     /\ excused' = (excused \ {f}) \cup Overwritten(f)
     /\ moved' = moved \ {f}
     /\ UNCHANGED <<stored, read, mounted, seen, saves, mishaps>>

\* The timer.
Save ==
  /\ pending.is
  /\ pending' = None
  /\ Mutate(pending.value)
  /\ UNCHANGED <<stored, columns, read, mounted, seen, last, moved, excused, choices, mishaps>>
-----------------------------------------------------------------------------
ReadRow ==
  /\ read.at = "sent"
  /\ read' = [at |-> "read", value |-> GetPreferences]
  /\ UNCHANGED <<stored, columns, mounted, seen, pending, saves, last, moved, excused, choices, mishaps>>

\* The answer of a read takes the place of choices made since.
AnswerRead ==
  /\ read.at = "read"
  /\ Receive(read.value)
  /\ read' = [at |-> "idle", value |-> Defaults]
  /\ UNCHANGED <<stored, mounted, seen, pending, saves, last, excused, choices, mishaps>>

\* No second attempt: the table goes on with what it has.
FailRead ==
  /\ read.at # "idle" /\ Mishap
  /\ read' = [at |-> "idle", value |-> Defaults]
  /\ UNCHANGED <<stored, columns, mounted, seen, pending, saves, last, moved, excused, choices>>

\* The transaction is committed before the answer arrives or after it, and two
\* requests in either order: the earlier one then takes back the later one's.
CommitSave(n) ==
  /\ Sending(n) /\ saves[n].at # "committed"
  /\ Upsert(saves[n].value)
  /\ IF saves[n].at = "answered" THEN Over(n) ELSE At(n, "committed")
  /\ excused' = excused \cup
       (IF \E later \in (n + 1)..Len(saves) : saves[later].at \in {"committed", "over"}
        THEN Behind(saves[n].value) ELSE {})
  /\ UNCHANGED <<columns, read, mounted, seen, pending, last, moved, choices, mishaps>>

\* onSuccess puts the answer, which repeats the request, into the cache.
AnswerSave(n) ==
  /\ Sending(n) /\ saves[n].at # "answered"
  /\ IF saves[n].at = "committed" THEN Over(n) ELSE At(n, "answered")
  /\ IF saves[n].heard THEN Receive(saves[n].value) ELSE UNCHANGED <<columns, moved>>
  /\ UNCHANGED <<stored, read, mounted, seen, pending, last, excused, choices, mishaps>>

\* The request fails, or its commit, or only its answer: nothing tries it again
\* and the cache keeps the choice.
FailSave(n) ==
  /\ Sending(n) /\ Mishap
  /\ Over(n)
  /\ excused' = excused \cup Lost(saves[n].value)
  /\ UNCHANGED <<stored, columns, read, mounted, seen, pending, last, moved, choices>>

\* The window is closed: nothing is flushed, and nobody hears the answers.
ClosePage ==
  /\ Mishap
  /\ mounted' = FALSE
  /\ columns' = None /\ pending' = None /\ seen' = Defaults
  /\ read' = [at |-> "idle", value |-> Defaults]
  /\ moved' = {}
  /\ saves' = [n \in DOMAIN saves |-> [saves[n] EXCEPT !.heard = FALSE]]
  /\ excused' = excused \cup (IF pending.is THEN Lost(pending.value) ELSE {})
  /\ UNCHANGED <<stored, last, choices>>
-----------------------------------------------------------------------------
ColumnsNext ==
  \/ MountTable \/ ReadAgain \/ UnmountTable \/ Render \/ Save
  \/ \E f \in Fields : Choose(f)
  \/ ReadRow \/ AnswerRead \/ FailRead
  \/ \E n \in DOMAIN saves : CommitSave(n) \/ AnswerSave(n) \/ FailSave(n)
  \/ ClosePage
-----------------------------------------------------------------------------
\* When no choice waits and no request is under way, the row holds the last
\* choice of every field, though every request stores all of them and the
\* answers of reads and of earlier requests keep arriving in between: it is
\* lost only by a request that failed or was overtaken, or when another field
\* was chosen while the table did not show it.
ChoicesKept ==
  (~pending.is /\ \A n \in DOMAIN saves : ~Sending(n))
  => \A f \in Fields : stored[f] = last[f] \/ f \in excused
=============================================================================
