---------------------------- MODULE Pages_proofs ----------------------------
(***************************************************************************)
(* Proofs about the pages: whatever the number of changes, choices and     *)
(* failures, what the user has changed is shown (OwnChangesShow), and what *)
(* the user has chosen in a table is stored (ChoicesKept).                 *)
(***************************************************************************)
EXTENDS Pages, SequenceTheorems, TLAPS

(* An entry that requests fill.                                             *)

Meanings == [followed : BOOLEAN, early : {Hooks[h].early : h \in DOMAIN Hooks},
             refreshes : BOOLEAN, removes : BOOLEAN, cancels : BOOLEAN]
Call == [hook : Meanings, commit : {"open", "done", "undone"},
         answer : {"open", "ok", "error"}, excused : BOOLEAN]

CacheTypeOK ==
  /\ query \in DOMAIN Queries
  /\ entry \in [filled : BOOLEAN, has : SUBSET Nat, stale : BOOLEAN, watched : BOOLEAN]
  /\ fetch \in {Idle, Fetching} \cup [at : {"read"}, has : SUBSET Nat]
  /\ calls \in Seq(Call)

\* What a page follows, its hook reports; what it forgets, its hook asks for again.
Reported(c) ==
  /\ c.hook.followed => c.hook.refreshes \/ c.hook.removes
  /\ c.hook.cancels => c.hook.refreshes

\* A change that the page owes to its user.
Owed(n) == calls[n].answer = "ok" /\ calls[n].commit # "undone"
           /\ calls[n].hook.followed /\ ~calls[n].excused

\* A reordering has taken the request away and will ask for it again.
Suspended == \E n \in DOMAIN calls : calls[n].hook.cancels /\ calls[n].answer = "open"

\* A fresh entry shows the change; an open page shows it or waits for a request;
\* and the request that has read the rows has read it.
Shows(n) ==
  /\ entry.filled /\ ~entry.stale => n \in entry.has
  /\ entry.filled /\ entry.watched => n \in entry.has \/ fetch # Idle \/ Suspended
  /\ fetch.at = "read" => n \in fetch.has

CacheInv ==
  /\ CacheTypeOK
  /\ \A n \in DOMAIN calls : Reported(calls[n]) /\ (Owed(n) => Shows(n))
-----------------------------------------------------------------------------
(* What the steps do to the changes.                                        *)

LEMMA CallSteps ==
  ASSUME calls \in Seq(Call), NEW n \in DOMAIN calls, NEW c \in Call
  PROVE  /\ [calls EXCEPT ![n] = c] \in Seq(Call)
         /\ DOMAIN [calls EXCEPT ![n] = c] = DOMAIN calls
         /\ \A m \in DOMAIN calls : [calls EXCEPT ![n] = c][m] = IF m = n THEN c ELSE calls[m]
<1>1. DOMAIN calls = 1..Len(calls) /\ \A m \in DOMAIN calls : calls[m] \in Call
  BY ElementOfSeq, LenProperties
<1>2. [calls EXCEPT ![n] = c] \in Seq(Call)
  BY <1>1, ExceptSeq
<1> QED
  BY <1>1, <1>2

LEMMA ExcusingSteps ==
  ASSUME calls \in Seq(Call), NEW set
  PROVE  /\ Excusing(set) \in Seq(Call)
         /\ DOMAIN Excusing(set) = DOMAIN calls
         /\ \A n \in DOMAIN calls :
              /\ Excusing(set)[n].hook = calls[n].hook
              /\ Excusing(set)[n].commit = calls[n].commit
              /\ Excusing(set)[n].answer = calls[n].answer
              /\ Excusing(set)[n].excused <=> calls[n].excused \/ n \in set
<1>1. DOMAIN calls = 1..Len(calls) /\ Len(calls) \in Nat /\ \A n \in DOMAIN calls : calls[n] \in Call
  BY ElementOfSeq, LenProperties
<1>2. ASSUME NEW n \in DOMAIN calls
      PROVE  /\ Excusing(set)[n] \in Call
             /\ Excusing(set)[n].hook = calls[n].hook
             /\ Excusing(set)[n].commit = calls[n].commit
             /\ Excusing(set)[n].answer = calls[n].answer
             /\ Excusing(set)[n].excused <=> calls[n].excused \/ n \in set
  <2>1. calls[n] \in Call /\ (calls[n].excused \/ n \in set) \in BOOLEAN
    BY <1>1
  <2>2. Excusing(set)[n] = [calls[n] EXCEPT !.excused = calls[n].excused \/ n \in set]
    BY <2>1 DEF Excusing
  <2> QED
    BY <2>1, <2>2 DEF Call
<1>3. Excusing(set) \in [1..Len(calls) -> Call]
  BY <1>1, <1>2 DEF Excusing
<1> QED
  BY <1>1, <1>2, <1>3 DEF Excusing
-----------------------------------------------------------------------------
(* The steps of the page and of its request.                                *)

LEMMA CacheStart == Init /\ query # Preferences => CacheInv
<1> SUFFICES ASSUME Init, query # Preferences PROVE CacheInv
  OBVIOUS
<1>1. calls = <<>> /\ entry = NoData /\ fetch = Idle /\ query \in DOMAIN Queries
  BY DEF Init
<1>2. calls \in Seq(Call) /\ DOMAIN calls = {}
  BY <1>1
<1> QED
  BY <1>1, <1>2 DEF CacheInv, CacheTypeOK, NoData, Idle

LEMMA PageKeeps ==
  ASSUME CacheInv, Mount \/ Unmount \/ Collect \/ Expire \/ Refetch \/ AnswerFetch
  PROVE  CacheInv'
<1>1. query' = query /\ calls' = calls
  BY DEF Mount, Unmount, Collect, Expire, Refetch, AnswerFetch
<1>2. CacheTypeOK'
  <2>1. CASE Mount
    BY <1>1, <2>1 DEF CacheInv, CacheTypeOK, Mount
  <2>2. CASE Unmount
    BY <1>1, <2>2 DEF CacheInv, CacheTypeOK, Unmount
  <2>3. CASE Collect
    BY <1>1, <2>3 DEF CacheInv, CacheTypeOK, Collect, NoData
  <2>4. CASE Expire
    BY <1>1, <2>4 DEF CacheInv, CacheTypeOK, Expire
  <2>5. CASE Refetch
    BY <1>1, <2>5 DEF CacheInv, CacheTypeOK, Refetch
  <2>6. CASE AnswerFetch
    <3>1. fetch.has \in SUBSET Nat
      BY DEF CacheInv, CacheTypeOK, Idle, Fetching
    <3> QED
      BY <1>1, <2>6, <3>1 DEF CacheInv, CacheTypeOK, AnswerFetch
  <2> QED
    BY <2>1, <2>2, <2>3, <2>4, <2>5, <2>6
<1>3. ASSUME NEW n \in DOMAIN calls, Owed(n), Shows(n)
      PROVE  Shows(n)'
  <2>1. Suspended' = Suspended
    BY <1>1 DEF Suspended
  <2>2. CASE Mount
    BY <1>3, <2>1, <2>2 DEF CacheInv, CacheTypeOK, Mount, Shows, Idle, Fetching
  <2>3. CASE Unmount
    BY <1>3, <2>1, <2>3 DEF CacheInv, CacheTypeOK, Unmount, Shows
  <2>4. CASE Collect
    BY <1>3, <2>1, <2>4 DEF CacheInv, CacheTypeOK, Collect, NoData, Shows
  <2>5. CASE Expire
    BY <1>3, <2>1, <2>5 DEF CacheInv, CacheTypeOK, Expire, Shows
  <2>6. CASE Refetch
    BY <1>3, <2>1, <2>6 DEF CacheInv, CacheTypeOK, Refetch, Shows, Idle, Fetching
  <2>7. CASE AnswerFetch
    BY <1>3, <2>1, <2>7 DEF CacheInv, CacheTypeOK, AnswerFetch, Shows, Idle, Fetching
  <2> QED
    BY <2>2, <2>3, <2>4, <2>5, <2>6, <2>7
<1> QED
  BY <1>1, <1>2, <1>3 DEF CacheInv, Owed

\* Of what a step excuses, the page owes nothing more.
LEMMA ExcusedOwed ==
  ASSUME calls \in Seq(Call), NEW set, calls' = Excusing(set)
  PROVE  /\ calls' \in Seq(Call) /\ DOMAIN calls' = DOMAIN calls
         /\ Suspended' = Suspended
         /\ \A n \in DOMAIN calls :
              /\ calls'[n].hook = calls[n].hook
              /\ Reported(calls[n]) => Reported(calls'[n])
              /\ Owed(n)' => Owed(n) /\ n \notin set
<1>1. /\ calls' \in Seq(Call) /\ DOMAIN calls' = DOMAIN calls
      /\ \A n \in DOMAIN calls :
           /\ calls'[n].hook = calls[n].hook
           /\ calls'[n].commit = calls[n].commit
           /\ calls'[n].answer = calls[n].answer
           /\ calls'[n].excused <=> calls[n].excused \/ n \in set
  BY ExcusingSteps
<1>2. Suspended' = Suspended
  BY <1>1 DEF Suspended
<1> QED
  BY <1>1, <1>2 DEF Owed, Reported

LEMMA ReadKeeps == CacheInv /\ Read => CacheInv'
<1> SUFFICES ASSUME CacheInv, Read PROVE CacheInv'
  OBVIOUS
<1> DEFINE late == {n \in DOMAIN calls : calls[n].answer = "ok" /\ calls[n].commit = "open"}
<1>1. /\ calls \in Seq(Call) /\ calls' = Excusing(late) /\ query' = query /\ entry' = entry
      /\ fetch' = [at |-> "read", has |-> Committed]
  BY DEF CacheInv, CacheTypeOK, Read
<1> HIDE DEF late
<1>2. /\ calls' \in Seq(Call) /\ DOMAIN calls' = DOMAIN calls
      /\ Suspended' = Suspended
      /\ \A n \in DOMAIN calls :
           /\ Reported(calls[n]) => Reported(calls'[n])
           /\ Owed(n)' => Owed(n) /\ n \notin late
  BY <1>1, ExcusedOwed
<1>3. Committed \in SUBSET Nat
  <2>1. DOMAIN calls = 1..Len(calls) /\ Len(calls) \in Nat
    BY <1>1, LenProperties
  <2> QED
    BY <2>1 DEF Committed
<1>4. CacheTypeOK'
  BY <1>1, <1>2, <1>3 DEF CacheInv, CacheTypeOK
<1>5. ASSUME NEW n \in DOMAIN calls, Owed(n)' PROVE Shows(n)'
  <2>1. calls[n] \in Call
    BY <1>1, ElementOfSeq, LenProperties
  <2>2. Owed(n) /\ Shows(n) /\ n \notin late
    BY <1>2, <1>5 DEF CacheInv
  <2>3. n \in Committed
    BY <2>1, <2>2 DEF Committed, Owed, Call, late
  <2>4. fetch' # Idle
    BY <1>1 DEF Idle
  <2> QED
    BY <1>1, <2>2, <2>3, <2>4 DEF Shows
<1> QED
  BY <1>2, <1>4, <1>5 DEF CacheInv

LEMMA FailFetchKeeps == CacheInv /\ FailFetch => CacheInv'
<1> SUFFICES ASSUME CacheInv, FailFetch PROVE CacheInv'
  OBVIOUS
<1> DEFINE told == {n \in DOMAIN calls : calls[n].answer = "ok"}
<1>1. /\ calls \in Seq(Call) /\ query' = query /\ entry' = entry /\ fetch' = Idle
      /\ calls' = IF entry.watched THEN Excusing(told) ELSE calls
  BY DEF CacheInv, CacheTypeOK, FailFetch
<1>2. CASE entry.watched
  <2> HIDE DEF told
  <2>1. /\ calls' \in Seq(Call) /\ DOMAIN calls' = DOMAIN calls
        /\ \A n \in DOMAIN calls :
             /\ Reported(calls[n]) => Reported(calls'[n])
             /\ Owed(n)' => Owed(n) /\ n \notin told
    BY <1>1, <1>2, ExcusedOwed
  <2>2. \A n \in DOMAIN calls : ~Owed(n)'
    BY <2>1 DEF Owed, told
  <2> QED
    BY <1>1, <2>1, <2>2 DEF CacheInv, CacheTypeOK
<1>3. CASE ~entry.watched
  <2>1. \A n \in DOMAIN calls : Shows(n) => Shows(n)'
    BY <1>1, <1>3 DEF Shows, Idle
  <2> QED
    BY <1>1, <1>3, <2>1 DEF CacheInv, CacheTypeOK, Owed
<1> QED
  BY <1>2, <1>3
-----------------------------------------------------------------------------
(* The steps of a change.                                                   *)

\* A change goes on: its number and its hook stay.
LEMMA CallGoesOn ==
  ASSUME CacheInv, NEW n \in DOMAIN calls, NEW c \in Call,
         c.hook = calls[n].hook, calls' = [calls EXCEPT ![n] = c]
  PROVE  /\ calls' \in Seq(Call) /\ DOMAIN calls' = DOMAIN calls
         /\ calls'[n] = c /\ \A m \in DOMAIN calls \ {n} : calls'[m] = calls[m]
         /\ \A m \in DOMAIN calls : Reported(calls'[m])
<1>1. /\ calls' \in Seq(Call) /\ DOMAIN calls' = DOMAIN calls
      /\ \A m \in DOMAIN calls : calls'[m] = IF m = n THEN c ELSE calls[m]
  BY CallSteps DEF CacheInv, CacheTypeOK
<1> QED
  BY <1>1 DEF CacheInv, Reported

LEMMA CallElement ==
  ASSUME CacheInv, NEW n \in DOMAIN calls
  PROVE  calls[n] \in Call /\ n \in Nat
BY ElementOfSeq, LenProperties DEF CacheInv, CacheTypeOK

\* The page asks again, or the request that it waits for has read the change.
LEMMA InvalidateShows ==
  ASSUME CacheInv, Invalidate, NEW n,
         fetch' = fetch /\ fetch.at = "read" => n \in fetch.has
  PROVE  Shows(n)'
<1>1. /\ entry' = [entry EXCEPT !.stale = entry.stale \/ entry.filled]
      /\ fetch' = IF AsksAgain THEN Fetching ELSE fetch
  BY DEF Invalidate
<1>2. /\ entry'.filled = entry.filled /\ entry'.watched = entry.watched
      /\ entry'.stale <=> entry.stale \/ entry.filled
  BY <1>1 DEF CacheInv, CacheTypeOK
<1>3. CASE AsksAgain
  BY <1>1, <1>2, <1>3 DEF Shows, Fetching, Idle
<1>4. CASE ~AsksAgain
  BY <1>1, <1>2, <1>4 DEF Shows, AsksAgain
<1> QED
  BY <1>3, <1>4

LEMMA InvalidateType ==
  ASSUME CacheInv, Invalidate \/ Dropped \/ UNCHANGED <<entry, fetch>>,
         query' = query, calls' \in Seq(Call)
  PROVE  CacheTypeOK'
<1>1. CASE Invalidate
  <2>1. entry' \in [filled : BOOLEAN, has : SUBSET Nat, stale : BOOLEAN, watched : BOOLEAN]
    BY <1>1 DEF Invalidate, CacheInv, CacheTypeOK
  <2> QED
    BY <1>1, <2>1 DEF Invalidate, CacheInv, CacheTypeOK
<1>2. CASE Dropped
  BY <1>2 DEF Dropped, NoData, CacheInv, CacheTypeOK
<1>3. CASE UNCHANGED <<entry, fetch>>
  BY <1>3 DEF CacheInv, CacheTypeOK
<1> QED
  BY <1>1, <1>2, <1>3

LEMMA MeaningReported ==
  ASSUME query \in DOMAIN Queries, NEW h \in DOMAIN Hooks
  PROVE  Meaning(h) \in Meanings /\ Reported([hook |-> Meaning(h), commit |-> "open",
                                               answer |-> "open", excused |-> FALSE])
<1> DEFINE followed == Followed(query, h)
           refreshes == Under(query, Hooks[h].refreshes)
           removes == Under(query, Hooks[h].removes)
           cancels == h = <<"reorder", "custom_asset_types">> /\ refreshes
<1>1. followed => refreshes \/ removes
  BY Attended
<1>2. /\ followed \in BOOLEAN /\ refreshes \in BOOLEAN /\ removes \in BOOLEAN /\ cancels \in BOOLEAN
  BY DEF Followed, Under
<1>3. cancels => refreshes
  OBVIOUS
<1>4. Meaning(h) = [followed |-> followed, early |-> Hooks[h].early, refreshes |-> refreshes,
                    removes |-> removes, cancels |-> cancels]
  BY DEF Meaning
<1> HIDE DEF followed, refreshes, removes, cancels
<1>5. Meaning(h) \in Meanings
  BY <1>2, <1>4 DEF Meanings
<1> QED
  BY <1>1, <1>3, <1>4, <1>5 DEF Reported

LEMMA StartKeeps ==
  ASSUME CacheInv, NEW h \in DOMAIN Hooks, Start(h)
  PROVE  CacheInv'
<1> DEFINE c == [hook |-> Meaning(h), commit |-> "open", answer |-> "open", excused |-> FALSE]
<1>1. /\ calls' = Append(calls, c) /\ query' = query /\ entry' = entry
      /\ fetch' = IF Meaning(h).cancels THEN Idle ELSE fetch
  BY DEF Start
<1>2. Meaning(h) \in Meanings /\ Reported(c)
  BY MeaningReported DEF CacheInv, CacheTypeOK
<1>3. c \in Call
  BY <1>2 DEF Call
<1>4. c.answer = "open" /\ c.hook = Meaning(h)
  OBVIOUS
<1> HIDE DEF c
<1>5. PICK k \in Nat :
      /\ calls' \in Seq(Call) /\ DOMAIN calls' = DOMAIN calls \cup {k} /\ k \notin DOMAIN calls
      /\ calls'[k] = c /\ \A n \in DOMAIN calls : calls'[n] = calls[n]
  <2> DEFINE k == Len(calls) + 1
  <2>1. calls \in Seq(Call) /\ DOMAIN calls = 1..Len(calls) /\ Len(calls) \in Nat
    BY LenProperties DEF CacheInv, CacheTypeOK
  <2>2. /\ calls' \in Seq(Call) /\ Len(calls') = k
        /\ calls'[k] = c /\ \A n \in 1..Len(calls) : calls'[n] = calls[n]
    BY <1>1, <1>3, <2>1, AppendProperties
  <2>3. DOMAIN calls' = 1..k
    BY <2>2, LenProperties
  <2> QED
    BY <2>1, <2>2, <2>3
<1>6. CacheTypeOK'
  BY <1>1, <1>5 DEF CacheInv, CacheTypeOK
<1>7. ~Owed(k)' /\ \A n \in DOMAIN calls : Owed(n)' <=> Owed(n)
  BY <1>4, <1>5 DEF Owed
<1>8. (Suspended => Suspended') /\ (Meaning(h).cancels => Suspended')
  BY <1>4, <1>5 DEF Suspended
<1>9. ASSUME NEW n \in DOMAIN calls, Shows(n) PROVE Shows(n)'
  <2>1. CASE Meaning(h).cancels
    BY <1>1, <1>8, <1>9, <2>1 DEF Shows, Idle
  <2>2. CASE ~Meaning(h).cancels
    BY <1>1, <1>8, <1>9, <2>2 DEF Shows
  <2> QED
    BY <2>1, <2>2
<1>10. \A n \in DOMAIN calls' : Reported(calls'[n])
  BY <1>2, <1>5 DEF CacheInv
<1> QED
  BY <1>5, <1>6, <1>7, <1>9, <1>10 DEF CacheInv

\* The server's side: nothing new is owed.
LEMMA ServerKeeps ==
  ASSUME CacheInv, NEW n \in DOMAIN calls, Commit(n) \/ LoseCommit(n)
  PROVE  CacheInv'
<1>1. calls[n] \in Call
  BY CallElement
<1>2. /\ query' = query /\ entry' = entry /\ fetch' = fetch
      /\ calls[n].commit = "open"
      /\ \E e \in {"done", "undone"} : calls' = [calls EXCEPT ![n].commit = e]
  BY DEF Commit, LoseCommit
<1>3. PICK e \in {"done", "undone"} : calls' = [calls EXCEPT ![n] = [calls[n] EXCEPT !.commit = e]]
  BY <1>2
<1>4. /\ [calls[n] EXCEPT !.commit = e] \in Call
      /\ [calls[n] EXCEPT !.commit = e].hook = calls[n].hook
      /\ [calls[n] EXCEPT !.commit = e].answer = calls[n].answer
      /\ [calls[n] EXCEPT !.commit = e].excused = calls[n].excused
  BY <1>1 DEF Call
<1>5. /\ calls' \in Seq(Call) /\ DOMAIN calls' = DOMAIN calls
      /\ \A m \in DOMAIN calls : calls'[m].hook = calls[m].hook /\ calls'[m].answer = calls[m].answer
                                 /\ calls'[m].excused = calls[m].excused
      /\ \A m \in DOMAIN calls \ {n} : calls'[m] = calls[m]
      /\ \A m \in DOMAIN calls : Reported(calls'[m])
  BY <1>3, <1>4, CallGoesOn
<1>6. \A m \in DOMAIN calls : Owed(m)' => Owed(m)
  BY <1>2, <1>5 DEF Owed
<1>7. Suspended' = Suspended
  BY <1>5 DEF Suspended
<1>8. \A m \in DOMAIN calls : Shows(m) => Shows(m)'
  BY <1>2, <1>7 DEF Shows
<1>9. CacheTypeOK'
  BY <1>2, <1>5 DEF CacheInv, CacheTypeOK
<1> QED
  BY <1>5, <1>6, <1>8, <1>9 DEF CacheInv

\* A change that fails for the user is owed no more; the hook that had taken
\* the request away asks again.
LEMMA FailureKeeps ==
  ASSUME CacheInv, NEW n \in DOMAIN calls, Refuse(n) \/ LoseAnswer(n)
  PROVE  CacheInv'
<1>1. calls[n] \in Call
  BY CallElement
<1>2. PICK e \in {"open", "done", "undone"} :
        calls' = [calls EXCEPT ![n] = [calls[n] EXCEPT !.answer = "error", !.commit = e]]
  <2>1. CASE Refuse(n)
    <3>1. calls' = [calls EXCEPT ![n] = [calls[n] EXCEPT !.answer = "error", !.commit = "undone"]]
      BY <2>1 DEF Refuse
    <3> QED
      BY <3>1
  <2>2. CASE LoseAnswer(n)
    <3>1. /\ calls' = [calls EXCEPT ![n] = [calls[n] EXCEPT !.answer = "error"]]
          /\ calls[n].commit = "done"
      BY <2>2 DEF LoseAnswer
    <3>2. [calls[n] EXCEPT !.answer = "error"] = [calls[n] EXCEPT !.answer = "error", !.commit = "done"]
      BY <1>1, <3>1 DEF Call
    <3> QED
      BY <3>1, <3>2
  <2> QED
    BY <2>1, <2>2
<1>3. /\ query' = query /\ Settled(n)
  BY DEF Refuse, LoseAnswer
<1> DEFINE c == [calls[n] EXCEPT !.answer = "error", !.commit = e]
<1>4. c \in Call /\ c.hook = calls[n].hook /\ c.answer = "error"
  BY <1>1 DEF Call
<1>5. /\ calls' \in Seq(Call) /\ DOMAIN calls' = DOMAIN calls
      /\ calls'[n].answer = "error"
      /\ \A m \in DOMAIN calls \ {n} : calls'[m] = calls[m]
      /\ \A m \in DOMAIN calls : Reported(calls'[m])
  BY <1>2, <1>4, CallGoesOn
<1>6. CacheTypeOK'
  BY <1>3, <1>5, InvalidateType DEF Settled
<1>7. ASSUME NEW m \in DOMAIN calls, Owed(m)' PROVE Shows(m)'
  <2>1. m # n
    BY <1>5, <1>7 DEF Owed
  <2>2. Shows(m)
    BY <1>5, <1>7, <2>1 DEF Owed, CacheInv
  <2>3. CASE calls[n].hook.cancels
    BY <1>3, <2>2, <2>3, InvalidateShows DEF Settled, Shows
  <2>4. CASE ~calls[n].hook.cancels
    <3>1. Suspended => Suspended'
      BY <1>5, <2>4 DEF Suspended
    <3> QED
      BY <1>3, <2>2, <2>4, <3>1 DEF Settled, Shows
  <2> QED
    BY <2>3, <2>4
<1> QED
  BY <1>5, <1>6, <1>7 DEF CacheInv

\* A change is answered: its hook removes the entry, or asks again unless the
\* request under way must do, and then what that one has not read is excused.
LEMMA AnswerKeeps ==
  ASSUME CacheInv, NEW n \in DOMAIN calls, Answer(n)
  PROVE  CacheInv'
<1>1. PICK x : /\ x = Excusing(Unseen(n))
               /\ calls' = [x EXCEPT ![n] = [x[n] EXCEPT !.answer = "ok"]]
  BY DEF Answer
<1>2. query' = query /\ Succeed(n)
  BY DEF Answer
<1>3. /\ x \in Seq(Call) /\ DOMAIN x = DOMAIN calls
      /\ \A m \in DOMAIN calls :
           /\ x[m].hook = calls[m].hook
           /\ x[m].commit = calls[m].commit
           /\ x[m].answer = calls[m].answer
           /\ x[m].excused <=> calls[m].excused \/ m \in Unseen(n)
  BY <1>1, ExcusingSteps DEF CacheInv, CacheTypeOK
<1>4. x[n] \in Call
  BY <1>3, ElementOfSeq, LenProperties
<1>5. PICK c \in Call : /\ c = [x[n] EXCEPT !.answer = "ok"]
                        /\ c.hook = x[n].hook /\ c.commit = x[n].commit
                        /\ c.answer = "ok" /\ (c.excused <=> x[n].excused)
  <2> DEFINE c == [x[n] EXCEPT !.answer = "ok"]
  <2>1. /\ c \in Call /\ c.hook = x[n].hook /\ c.commit = x[n].commit
        /\ c.answer = "ok" /\ c.excused = x[n].excused
    BY <1>4 DEF Call
  <2> HIDE DEF c
  <2>2. c = [x[n] EXCEPT !.answer = "ok"]
    BY DEF c
  <2> QED
    BY <2>1, <2>2
<1>6. /\ calls' \in Seq(Call) /\ DOMAIN calls' = DOMAIN calls
      /\ calls'[n] = c /\ \A m \in DOMAIN calls \ {n} : calls'[m] = x[m]
  <2>1. DOMAIN x = 1..Len(x)
    BY <1>3, LenProperties
  <2>2. calls' = [x EXCEPT ![n] = c]
    BY <1>1, <1>5
  <2>3. n \in 1..Len(x)
    BY <1>3, <2>1
  <2>4. calls' \in Seq(Call)
    BY <1>3, <2>2, <2>3, ExceptSeq
  <2> QED
    BY <1>3, <2>2, <2>4
<1>7. /\ \A m \in DOMAIN calls :
           /\ calls'[m].hook = calls[m].hook /\ calls'[m].commit = calls[m].commit
           /\ calls'[m].excused <=> calls[m].excused \/ m \in Unseen(n)
      /\ \A m \in DOMAIN calls \ {n} : calls'[m].answer = calls[m].answer
      /\ calls'[n].answer = "ok"
  BY <1>3, <1>5, <1>6
<1>8. \A m \in DOMAIN calls : Reported(calls'[m])
  BY <1>7 DEF CacheInv, Reported
<1>9. CacheTypeOK'
  BY <1>2, <1>6, InvalidateType DEF Succeed
<1>10. ASSUME NEW m \in DOMAIN calls, Owed(m)' PROVE Shows(m)'
  <2>1. m # n => Shows(m)
    BY <1>7, <1>10 DEF Owed, CacheInv
  <2>2. CASE calls[n].hook.removes
    BY <1>2, <2>2 DEF Succeed, Dropped, NoData, Idle, Shows
  <2>3. CASE ~calls[n].hook.removes /\ calls[n].hook.refreshes
    <3>1. Invalidate
      BY <1>2, <2>3 DEF Succeed
    <3>2. ASSUME fetch' = fetch, fetch.at = "read", m = n PROVE n \in fetch.has
      <4>1. n \notin Unseen(n)
        BY <1>7, <1>10, <3>2 DEF Owed
      <4>2. ~(entry.watched /\ entry.filled)
        BY <3>1, <3>2 DEF Invalidate, AsksAgain, Fetching
      <4> QED
        BY <3>2, <4>1, <4>2 DEF Unseen
    <3>3. fetch' = fetch /\ fetch.at = "read" => m \in fetch.has
      BY <2>1, <3>2 DEF Shows
    <3> QED
      BY <3>1, <3>3, InvalidateShows
  <2>4. CASE ~calls[n].hook.removes /\ ~calls[n].hook.refreshes
    <3>1. ~calls[n].hook.cancels /\ ~calls[n].hook.followed
      BY <2>4 DEF CacheInv, Reported
    <3>2. m # n
      BY <1>7, <1>10, <3>1 DEF Owed
    <3>3. Suspended => Suspended'
      BY <1>6, <1>7, <3>1 DEF Suspended
    <3> QED
      BY <1>2, <2>1, <2>4, <3>2, <3>3 DEF Succeed, Shows
  <2> QED
    BY <2>2, <2>3, <2>4
<1> QED
  BY <1>6, <1>8, <1>9, <1>10 DEF CacheInv
-----------------------------------------------------------------------------
LEMMA CacheKeeps == CacheInv /\ [PageCacheNext]_cacheVars => CacheInv'
<1> SUFFICES ASSUME CacheInv, [PageCacheNext]_cacheVars PROVE CacheInv'
  OBVIOUS
<1>1. CASE UNCHANGED cacheVars
  BY <1>1 DEF cacheVars, CacheInv, CacheTypeOK, Reported, Owed, Shows, Suspended
<1>2. CASE PageCacheNext
  BY <1>2, PageKeeps, ReadKeeps, FailFetchKeeps, StartKeeps, ServerKeeps, FailureKeeps, AnswerKeeps
     DEF PageCacheNext
<1> QED
  BY <1>1, <1>2

LEMMA CacheGoal == CacheInv => OwnChangesShow
<1> SUFFICES ASSUME CacheInv, fetch = Idle, entry.filled, entry.watched \/ ~entry.stale,
                    \A n \in DOMAIN calls : calls[n].commit # "open" /\ calls[n].answer # "open",
                    NEW n \in Committed, calls[n].answer = "ok", calls[n].hook.followed,
                    ~calls[n].excused
             PROVE  n \in entry.has
  BY DEF OwnChangesShow
<1>1. n \in DOMAIN calls /\ Owed(n) /\ ~Suspended
  BY DEF Committed, Owed, Suspended
<1> QED
  BY <1>1 DEF CacheInv, Shows

\* Whatever the order in which commits, answers and requests meet, whatever is
\* lost, and wherever the user goes: an open page and a fresh entry show the
\* user's own changes.
THEOREM PagesShow == Spec => []OwnChangesShow
<1> DEFINE Inv == (query # Preferences => CacheInv) /\ (query = Preferences => calls = <<>>)
<1>1. Init => Inv
  BY CacheStart DEF Init
<1>2. Inv /\ [Next]_<<cacheVars, columnsVars>> => Inv'
  <2> SUFFICES ASSUME Inv, [Next]_<<cacheVars, columnsVars>> PROVE Inv'
    OBVIOUS
  <2>1. query' = query
    BY DEF Next, cacheVars, PageCacheNext, Mount, Unmount, Collect, Expire, Refetch, Read, AnswerFetch,
           FailFetch, Start, Commit, Answer, Refuse, LoseAnswer, LoseCommit
  <2>2. CASE query # Preferences
    BY <2>1, <2>2, CacheKeeps DEF Next, cacheVars
  <2>3. CASE query = Preferences
    BY <2>1, <2>3 DEF Next, cacheVars
  <2> QED
    BY <2>2, <2>3
<1>3. Inv => OwnChangesShow
  <2>1. CASE query # Preferences
    BY <2>1, CacheGoal
  <2>2. CASE query = Preferences
    BY <2>2 DEF OwnChangesShow, Committed
  <2> QED
    BY <2>1, <2>2
<1> QED
  BY <1>1, <1>2, <1>3, PTL DEF Spec
-----------------------------------------------------------------------------
(* The preferences of a table.                                              *)

Value == [Fields -> Nat]
Data == [is : BOOLEAN, value : Value]
Request == [value : Value, at : {"sent", "answered", "committed", "over"}, heard : BOOLEAN]

ColumnsTypeOK ==
  /\ choices \in Nat /\ mounted \in BOOLEAN
  /\ stored \in Value /\ last \in Value /\ seen \in Value
  /\ columns \in Data /\ pending \in Data
  /\ read \in [at : {"idle", "sent", "read"}, value : Value]
  /\ saves \in Seq(Request)
  /\ moved \subseteq Fields /\ excused \subseteq Fields

\* The value of a field is the number of a choice that has been made.
Made(value) == \A f \in Fields : value[f] <= choices + 1
AllMade ==
  /\ Made(stored) /\ Made(last) /\ Made(seen)
  /\ Made(columns.value) /\ Made(pending.value) /\ Made(read.value)
  /\ \A n \in DOMAIN saves : Made(saves[n].value)

\* A request whose values may still be written, and one that carries the last
\* choice of the field.
Uncommitted(n) == saves[n].at \in {"sent", "answered"}
Carries(n, f) == saves[n].value[f] = last[f]

\* What waits for the timer has every last choice, and the cache has those that
\* no answer has replaced.
Waiting(f) == pending.is => pending.value[f] = last[f]
Cached(f) == columns.is => f \in moved \/ columns.value[f] = last[f]

\* The last choice of the field waits for the timer and is nowhere else.
Unsent(f) ==
  /\ pending.is /\ stored[f] # last[f]
  /\ \A n \in DOMAIN saves : Uncommitted(n) => ~Carries(n, f)

\* It is in the row or on its way, and what could still take it out of the row
\* has been overtaken or comes before a request that carries it.
Sure(f) ==
  /\ stored[f] = last[f] \/ \E n \in DOMAIN saves : Uncommitted(n) /\ Carries(n, f)
  /\ \A n \in DOMAIN saves : Uncommitted(n) =>
       \/ Carries(n, f)
       \/ \E m \in DOMAIN saves : m > n /\ (~Uncommitted(m) \/ Carries(m, f))

Kept(f) == Waiting(f) /\ Cached(f) /\ (Unsent(f) \/ Sure(f))
ColumnsInv == ColumnsTypeOK /\ AllMade /\ \A f \in Fields : f \in excused \/ Kept(f)

LEMMA ColumnsStart == Init => ColumnsInv
<1> SUFFICES ASSUME Init PROVE ColumnsInv
  OBVIOUS
<1>1. /\ stored = [f \in Fields |-> 1] /\ last = stored /\ choices = 0
      /\ columns = None /\ pending = None /\ seen = Defaults
      /\ read = [at |-> "idle", value |-> Defaults]
      /\ mounted = FALSE /\ saves = <<>> /\ moved = {} /\ excused = {}
  BY DEF Init, ColumnsInit
<1>2. ColumnsTypeOK
  <2>1. Defaults \in Value /\ stored \in Value /\ saves \in Seq(Request)
    BY <1>1 DEF Defaults, Value
  <2> QED
    BY <1>1, <2>1 DEF ColumnsTypeOK, None, Data
<1>3. AllMade
  <2>1. Made(stored) /\ Made(Defaults)
    BY <1>1 DEF Made, Defaults
  <2> QED
    BY <1>1, <2>1 DEF AllMade, None
<1>4. \A f \in Fields : Kept(f)
  BY <1>1 DEF Kept, Waiting, Cached, Sure, None
<1> QED
  BY <1>2, <1>3, <1>4 DEF ColumnsInv

LEMMA SaveElement ==
  ASSUME ColumnsTypeOK, NEW n \in DOMAIN saves
  PROVE  saves[n] \in Request /\ n \in Nat
BY ElementOfSeq, LenProperties DEF ColumnsTypeOK
-----------------------------------------------------------------------------
(* The steps of the table and of the request for the row.                   *)

\* The choices and their requests stay where they are.
Untouched == UNCHANGED <<stored, pending, saves, last, excused, choices>>

LEMMA UntouchedKeeps ==
  ASSUME Untouched, NEW f \in Fields, Kept(f), Cached(f)'
  PROVE  Kept(f)'
BY DEF Untouched, Kept, Waiting, Unsent, Sure, Uncommitted, Carries

LEMMA TableKeeps ==
  ASSUME ColumnsInv, MountTable \/ ReadAgain \/ Render \/ ReadRow \/ AnswerRead \/ FailRead
  PROVE  ColumnsInv'
<1>1. Untouched
  BY DEF Untouched, MountTable, ReadAgain, Render, ReadRow, AnswerRead, FailRead
<1>2. /\ seen' \in {seen, columns.value} /\ mounted' \in BOOLEAN
      /\ read' \in [at : {"idle", "sent", "read"}, value : {read.value, stored, Defaults}]
      /\ \/ columns' = columns /\ moved' = moved
         \/ /\ columns' = [is |-> TRUE, value |-> read.value]
            /\ moved' = {f \in Fields : read.value[f] # last[f]}
  <2>1. CASE MountTable
    BY <2>1 DEF MountTable, Shown, ColumnsInv, ColumnsTypeOK
  <2>2. CASE ReadAgain
    BY <2>2 DEF ReadAgain, ColumnsInv, ColumnsTypeOK
  <2>3. CASE Render
    BY <2>3 DEF Render, Shown, ColumnsInv, ColumnsTypeOK
  <2>4. CASE ReadRow
    BY <2>4 DEF ReadRow, GetPreferences, ColumnsInv, ColumnsTypeOK
  <2>5. CASE AnswerRead
    BY <2>5 DEF AnswerRead, Receive, Some, ColumnsInv, ColumnsTypeOK
  <2>6. CASE FailRead
    BY <2>6 DEF FailRead, ColumnsInv, ColumnsTypeOK
  <2> QED
    BY <2>1, <2>2, <2>3, <2>4, <2>5, <2>6
<1>3. ColumnsTypeOK'
  <2>1. Defaults \in Value
    BY DEF Defaults, Value
  <2>2. QED
    <3>1. /\ seen \in Value /\ columns.value \in Value /\ read.value \in Value
          /\ columns \in Data /\ moved \subseteq Fields
      BY DEF ColumnsInv, ColumnsTypeOK, Data
    <3>2. seen' \in Value /\ moved' \subseteq Fields /\ mounted' \in BOOLEAN
      BY <1>2, <3>1
    <3>3. columns' \in Data
      <4>1. [is |-> TRUE, value |-> read.value] \in Data
        BY <3>1 DEF Data
      <4> QED
        BY <1>2, <3>1, <4>1
    <3>4. read' \in [at : {"idle", "sent", "read"}, value : Value]
      <4>1. stored \in Value
        BY DEF ColumnsInv, ColumnsTypeOK
      <4> QED
        BY <1>2, <2>1, <3>1, <4>1
    <3> QED
      BY <1>1, <1>2, <3>2, <3>3, <3>4 DEF ColumnsInv, ColumnsTypeOK, Untouched
<1>4. AllMade'
  <2>1. Made(Defaults)
    BY DEF Made, Defaults, ColumnsInv, ColumnsTypeOK
  <2>2. Made(stored)' /\ Made(last)' /\ Made(pending.value)' /\ \A n \in DOMAIN saves' : Made(saves[n].value)'
    BY <1>1 DEF ColumnsInv, AllMade, Made, Untouched
  <2>3. Made(seen)' /\ Made(columns.value)'
    BY <1>1, <1>2 DEF ColumnsInv, AllMade, Made, Untouched
  <2>4. Made(read.value)'
    <3>1. read'.value \in {read.value, stored, Defaults}
      BY <1>2
    <3> QED
      BY <1>1, <2>1, <3>1 DEF ColumnsInv, AllMade, Made, Untouched
  <2> QED
    BY <2>2, <2>3, <2>4 DEF AllMade
<1>5. \A f \in Fields : Cached(f) => Cached(f)'
  BY <1>1, <1>2 DEF Cached, Untouched
<1>6. \A f \in Fields : f \in excused' \/ Kept(f)'
  BY <1>1, <1>5, UntouchedKeeps DEF ColumnsInv, Kept, Untouched
<1> QED
  BY <1>3, <1>4, <1>6 DEF ColumnsInv
-----------------------------------------------------------------------------
(* The choices.                                                             *)

\* What waits is sent, and then it is on its way.
LEMMA SendKeeps ==
  ASSUME ColumnsInv, pending.is, Mutate(pending.value), pending' = None,
         UNCHANGED <<stored, columns, last, moved, excused, choices, read>>,
         mounted' \in BOOLEAN, seen' \in {seen, Defaults}
  PROVE  ColumnsInv'
<1> DEFINE e == [value |-> pending.value, at |-> "sent", heard |-> TRUE]
<1>1. e \in Request /\ e.at = "sent" /\ e.value = pending.value
  BY DEF ColumnsInv, ColumnsTypeOK, Data, Request
<1>2. saves' = Append(saves, e)
  BY DEF Mutate
<1> HIDE DEF e
<1>3. PICK k \in Nat :
      /\ saves' \in Seq(Request) /\ DOMAIN saves' = DOMAIN saves \cup {k}
      /\ DOMAIN saves = 1..(k - 1)
      /\ saves'[k] = e /\ \A n \in DOMAIN saves : saves'[n] = saves[n]
  <2> DEFINE k == Len(saves) + 1
  <2>1. saves \in Seq(Request) /\ DOMAIN saves = 1..Len(saves) /\ Len(saves) \in Nat
    BY LenProperties DEF ColumnsInv, ColumnsTypeOK
  <2>2. /\ saves' \in Seq(Request) /\ Len(saves') = k
        /\ saves'[k] = e /\ \A n \in 1..Len(saves) : saves'[n] = saves[n]
    BY <1>1, <1>2, <2>1, AppendProperties
  <2>3. DOMAIN saves' = 1..k
    BY <2>2, LenProperties
  <2> QED
    BY <2>1, <2>2, <2>3
<1>4. Defaults \in Value /\ Made(Defaults)
  BY DEF Defaults, Value, Made, ColumnsInv, ColumnsTypeOK
<1>5. ColumnsTypeOK'
  <2>1. seen' \in Value /\ pending' \in Data
    BY <1>4 DEF ColumnsInv, ColumnsTypeOK, None, Data
  <2> QED
    BY <1>3, <2>1 DEF ColumnsInv, ColumnsTypeOK
<1>6. AllMade'
  <2>1. /\ \A f \in Fields : pending.value[f] <= choices + 1
        /\ \A n \in DOMAIN saves : \A f \in Fields : saves[n].value[f] <= choices + 1
    BY DEF ColumnsInv, AllMade, Made
  <2>2. \A n \in DOMAIN saves' : \A f \in Fields : saves'[n].value[f] <= choices + 1
    BY <1>1, <1>3, <2>1
  <2>3. Made(seen)' /\ Made(pending.value)'
    BY <1>4 DEF ColumnsInv, AllMade, Made, None
  <2> QED
    BY <2>2, <2>3 DEF ColumnsInv, AllMade, Made
<1>7. ASSUME NEW f \in Fields, f \notin excused PROVE Kept(f)'
  <2>1. pending.value[f] = last[f] /\ Cached(f)
    BY <1>7 DEF ColumnsInv, Kept, Waiting
  <2>2. Waiting(f)' /\ Cached(f)'
    BY <2>1 DEF Waiting, Cached, None
  <2>3. Uncommitted(k)' /\ Carries(k, f)'
    BY <1>1, <1>3, <2>1 DEF Uncommitted, Carries
  <2>4. \A n \in DOMAIN saves : k > n
    BY <1>3
  <2>5. Sure(f)'
    BY <1>3, <2>3, <2>4 DEF Sure
  <2> QED
    BY <2>2, <2>5 DEF Kept
<1> QED
  BY <1>5, <1>6, <1>7 DEF ColumnsInv

LEMMA LeaveKeeps ==
  ASSUME ColumnsInv, UnmountTable \/ Save
  PROVE  ColumnsInv'
<1>1. CASE pending.is
  <2>1. /\ Mutate(pending.value) /\ pending' = None
        /\ UNCHANGED <<stored, columns, last, moved, excused, choices, read>>
        /\ mounted' \in BOOLEAN /\ seen' \in {seen, Defaults}
    BY <1>1 DEF UnmountTable, Save, ColumnsInv, ColumnsTypeOK
  <2> QED
    BY <1>1, <2>1, SendKeeps
<1>2. CASE ~pending.is
  <2>1. /\ UNCHANGED <<stored, columns, last, moved, excused, choices, read, saves>>
        /\ pending' = None /\ seen' = Defaults /\ mounted' = FALSE
    BY <1>2 DEF UnmountTable, Save
  <2>2. Defaults \in Value /\ Made(Defaults)
    BY DEF Defaults, Value, Made, ColumnsInv, ColumnsTypeOK
  <2>3. ColumnsTypeOK'
    BY <2>1, <2>2 DEF ColumnsInv, ColumnsTypeOK, None, Data
  <2>4. AllMade'
    BY <2>1, <2>2 DEF ColumnsInv, AllMade, Made, None
  <2>5. ASSUME NEW f \in Fields, f \notin excused PROVE Kept(f)'
    <3>1. Sure(f) /\ Cached(f)
      BY <1>2, <2>5 DEF ColumnsInv, Kept, Unsent
    <3>2. Sure(f)' /\ Cached(f)' /\ Waiting(f)'
      BY <2>1, <3>1 DEF Sure, Uncommitted, Carries, Cached, Waiting, None
    <3> QED
      BY <3>2 DEF Kept
  <2> QED
    BY <2>1, <2>3, <2>4, <2>5 DEF ColumnsInv
<1> QED
  BY <1>1, <1>2

\* A new choice is nowhere but in what waits; and the other fields wait with
\* their last choices, unless the table did not show those.
LEMMA ChooseKeeps ==
  ASSUME ColumnsInv, NEW f \in Fields, Choose(f)
  PROVE  ColumnsInv'
<1> DEFINE c == choices + 2
<1>1. PICK value : value = [seen EXCEPT ![f] = c]
  OBVIOUS
<1>2. /\ choices' = choices + 1 /\ last' = [last EXCEPT ![f] = c]
      /\ columns' = [is |-> TRUE, value |-> value] /\ pending' = [is |-> TRUE, value |-> value]
      /\ excused' = (excused \ {f}) \cup Overwritten(f) /\ moved' = moved \ {f}
      /\ UNCHANGED <<stored, read, mounted, seen, saves>>
  BY <1>1 DEF Choose, Merged, Some
<1>3. /\ choices \in Nat /\ stored \in Value /\ last \in Value /\ seen \in Value
      /\ \A n \in DOMAIN saves : saves[n].value \in Value
  BY SaveElement DEF ColumnsInv, ColumnsTypeOK, Request
<1>4. /\ value \in Value /\ value[f] = c /\ \A g \in Fields \ {f} : value[g] = seen[g]
      /\ last' \in Value /\ last'[f] = c /\ \A g \in Fields \ {f} : last'[g] = last[g]
  BY <1>1, <1>2, <1>3 DEF Value
<1>5. ColumnsTypeOK'
  BY <1>2, <1>3, <1>4 DEF ColumnsInv, ColumnsTypeOK, Data, Overwritten
<1>6. AllMade'
  <2>1. \A g \in Fields : value[g] <= c /\ last'[g] <= c
    BY <1>3, <1>4 DEF ColumnsInv, AllMade, Made, Value
  <2>2. /\ \A g \in Fields : stored[g] <= c /\ seen[g] <= c /\ read.value[g] <= c
        /\ \A n \in DOMAIN saves : \A g \in Fields : saves[n].value[g] <= c
    BY <1>3 DEF ColumnsInv, ColumnsTypeOK, AllMade, Made, Value
  <2> QED
    BY <1>2, <1>3, <2>1, <2>2 DEF AllMade, Made
<1>7. Kept(f)'
  <2>1. stored[f] # c /\ \A n \in DOMAIN saves : saves[n].value[f] # c
    BY <1>3 DEF ColumnsInv, AllMade, Made, Value
  <2>2. Unsent(f)'
    BY <1>2, <1>4, <2>1 DEF Unsent, Carries
  <2> QED
    BY <1>2, <1>4, <2>2 DEF Kept, Waiting, Cached
<1>8. ASSUME NEW g \in Fields \ {f}, g \notin excused' PROVE Kept(g)'
  <2>1. Kept(g) /\ g \notin Overwritten(f)
    BY <1>2, <1>8 DEF ColumnsInv
  <2>2. seen[g] = last[g]
    BY <2>1 DEF Overwritten, Kept, Cached, Shown
  <2>3. Waiting(g)' /\ Cached(g)'
    BY <1>2, <1>4, <2>2 DEF Waiting, Cached
  <2>4. Unsent(g) => Unsent(g)'
    BY <1>2, <1>4 DEF Unsent, Uncommitted, Carries
  <2>5. Sure(g) => Sure(g)'
    BY <1>2, <1>4 DEF Sure, Uncommitted, Carries
  <2> QED
    BY <2>1, <2>3, <2>4, <2>5 DEF Kept
<1> QED
  BY <1>5, <1>6, <1>7, <1>8 DEF ColumnsInv
-----------------------------------------------------------------------------
(* The requests that store.                                                 *)

\* A request moves on with what it carries, or is over.
LEMMA SaveMoves ==
  ASSUME ColumnsInv, NEW n \in DOMAIN saves,
         \/ \E at \in {"answered", "committed"} : At(n, at)
         \/ Over(n)
  PROVE  /\ saves' \in Seq(Request) /\ DOMAIN saves' = DOMAIN saves
         /\ \A m \in DOMAIN saves : saves'[m].value = saves[m].value \/ saves'[m].value = Defaults
         /\ \A m \in DOMAIN saves \ {n} : saves'[m] = saves[m]
         /\ \A at \in {"answered", "committed"} :
              At(n, at) => saves'[n].at = at /\ saves'[n].value = saves[n].value
         /\ Over(n) => saves'[n].at = "over"
<1>1. saves[n] \in Request
  BY SaveElement DEF ColumnsInv
<1>2. saves \in Seq(Request) /\ n \in 1..Len(saves) /\ DOMAIN saves = 1..Len(saves)
  BY LenProperties DEF ColumnsInv, ColumnsTypeOK
<1>3. ASSUME NEW e \in Request, saves' = [saves EXCEPT ![n] = e]
      PROVE  /\ saves' \in Seq(Request) /\ DOMAIN saves' = DOMAIN saves
             /\ saves'[n] = e /\ \A m \in DOMAIN saves \ {n} : saves'[m] = saves[m]
  BY <1>2, <1>3, ExceptSeq
<1>4. ASSUME NEW at \in {"answered", "committed"}, At(n, at)
      PROVE  /\ saves' = [saves EXCEPT ![n] = [saves[n] EXCEPT !.at = at]]
             /\ [saves[n] EXCEPT !.at = at] \in Request
             /\ [saves[n] EXCEPT !.at = at].at = at
             /\ [saves[n] EXCEPT !.at = at].value = saves[n].value
  BY <1>1, <1>4 DEF At, Request
<1>5. ASSUME Over(n)
      PROVE  /\ saves' = [saves EXCEPT ![n] = [value |-> Defaults, at |-> "over", heard |-> TRUE]]
             /\ [value |-> Defaults, at |-> "over", heard |-> TRUE] \in Request
  <2>1. Defaults \in Value
    BY DEF Defaults, Value
  <2> QED
    BY <1>5, <2>1 DEF Over, Request
<1>6. ASSUME NEW at \in {"answered", "committed"}, At(n, at)
      PROVE  /\ saves' \in Seq(Request) /\ DOMAIN saves' = DOMAIN saves
             /\ saves'[n].at = at /\ saves'[n].value = saves[n].value
             /\ \A m \in DOMAIN saves \ {n} : saves'[m] = saves[m]
  BY <1>3, <1>4, <1>6
<1>7. ASSUME Over(n)
      PROVE  /\ saves' \in Seq(Request) /\ DOMAIN saves' = DOMAIN saves
             /\ saves'[n].at = "over" /\ saves'[n].value = Defaults
             /\ \A m \in DOMAIN saves \ {n} : saves'[m] = saves[m]
  <2> DEFINE e == [value |-> Defaults, at |-> "over", heard |-> TRUE]
  <2>1. e \in Request /\ saves' = [saves EXCEPT ![n] = e] /\ e.at = "over" /\ e.value = Defaults
    BY <1>5, <1>7
  <2> HIDE DEF e
  <2> QED
    BY <1>3, <2>1
<1> QED
  BY <1>6, <1>7

LEMMA SavesMade ==
  ASSUME ColumnsInv, choices' = choices, DOMAIN saves' = DOMAIN saves,
         \A m \in DOMAIN saves : saves'[m].value = saves[m].value \/ saves'[m].value = Defaults
  PROVE  \A m \in DOMAIN saves' : Made(saves[m].value)'
<1>1. \A f \in Fields : Defaults[f] <= choices + 1
  BY DEF Defaults, ColumnsInv, ColumnsTypeOK
<1>2. \A m \in DOMAIN saves : \A f \in Fields : saves'[m].value[f] <= choices + 1
  BY <1>1 DEF ColumnsInv, AllMade, Made
<1> QED
  BY <1>2 DEF Made

\* Of the choices that a request has carried, those remain sure that the row
\* holds or a later request carries.
LEMMA SureWithout ==
  ASSUME ColumnsInv, NEW n \in DOMAIN saves, NEW f \in Fields,
         DOMAIN saves' = DOMAIN saves, last' = last,
         \A m \in DOMAIN saves \ {n} : saves'[m] = saves[m], ~Uncommitted(n)',
         Sure(f),
         stored'[f] = last[f] \/ \E m \in DOMAIN saves \ {n} : Uncommitted(m) /\ Carries(m, f)
  PROVE  Sure(f)'
<1>1. \A m \in DOMAIN saves \ {n} : (Uncommitted(m)' <=> Uncommitted(m)) /\ (Carries(m, f)' <=> Carries(m, f))
  BY DEF Uncommitted, Carries
<1>2. stored'[f] = last'[f] \/ \E m \in DOMAIN saves' : Uncommitted(m)' /\ Carries(m, f)'
  BY <1>1
<1>3. ASSUME NEW m \in DOMAIN saves', Uncommitted(m)', ~Carries(m, f)'
      PROVE  \E k \in DOMAIN saves' : k > m /\ (~Uncommitted(k)' \/ Carries(k, f)')
  <2>1. m \in DOMAIN saves \ {n} /\ Uncommitted(m) /\ ~Carries(m, f)
    BY <1>1, <1>3
  <2>2. PICK k \in DOMAIN saves : k > m /\ (~Uncommitted(k) \/ Carries(k, f))
    BY <2>1 DEF Sure
  <2>3. ~Uncommitted(k)' \/ Carries(k, f)'
    BY <1>1, <2>2
  <2> QED
    BY <2>2, <2>3
<1> QED
  BY <1>2, <1>3 DEF Sure

LEMMA CommitSaveKeeps ==
  ASSUME ColumnsInv, NEW n \in DOMAIN saves, CommitSave(n)
  PROVE  ColumnsInv'
<1> DEFINE overtaken == \E k \in (n + 1)..Len(saves) : saves[k].at \in {"committed", "over"}
<1>1. /\ Uncommitted(n) /\ stored' = saves[n].value
      /\ Over(n) \/ At(n, "committed")
      /\ excused' = excused \cup (IF overtaken THEN Behind(saves[n].value) ELSE {})
      /\ UNCHANGED <<columns, read, mounted, seen, pending, last, moved, choices>>
  <2>1. saves[n] \in Request
    BY SaveElement DEF ColumnsInv
  <2> QED
    BY <2>1 DEF CommitSave, Sending, Upsert, Uncommitted, Request
<1>2. saves[n].value \in Value /\ Made(saves[n].value)
  BY SaveElement DEF ColumnsInv, AllMade, Request
<1>3. /\ saves' \in Seq(Request) /\ DOMAIN saves' = DOMAIN saves /\ ~Uncommitted(n)'
      /\ \A m \in DOMAIN saves : saves'[m].value = saves[m].value \/ saves'[m].value = Defaults
      /\ \A m \in DOMAIN saves \ {n} : saves'[m] = saves[m]
  BY <1>1, SaveMoves DEF Uncommitted
<1>4. ColumnsTypeOK'
  BY <1>1, <1>2, <1>3 DEF ColumnsInv, ColumnsTypeOK, Behind
<1>5. AllMade'
  BY <1>1, <1>2, <1>3, SavesMade DEF ColumnsInv, AllMade, Made
<1>6. ASSUME NEW f \in Fields, f \notin excused' PROVE Kept(f)'
  <2>1. f \notin excused /\ Kept(f)
    BY <1>1, <1>6 DEF ColumnsInv
  <2>2. Waiting(f)' /\ Cached(f)'
    BY <1>1, <2>1 DEF Kept, Waiting, Cached
  <2>3. CASE Unsent(f)
    <3>1. Unsent(f)'
      BY <1>1, <1>3, <2>3 DEF Unsent, Uncommitted, Carries
    <3> QED
      BY <2>2, <3>1 DEF Kept
  <2>4. CASE Sure(f) /\ Carries(n, f)
    <3>1. stored'[f] = last[f]
      BY <1>1, <2>4 DEF Carries
    <3> QED
      BY <1>1, <1>3, <2>2, <2>4, <3>1, SureWithout DEF Kept
  <2>5. CASE Sure(f) /\ ~Carries(n, f)
    <3>1. PICK k \in DOMAIN saves : k > n /\ (~Uncommitted(k) \/ Carries(k, f))
      BY <1>1, <2>5 DEF Sure
    <3>2. k \in (n + 1)..Len(saves) /\ k # n
      BY <3>1, LenProperties DEF ColumnsInv, ColumnsTypeOK
    <3>3. f \in Behind(saves[n].value)
      BY <2>5 DEF Behind, Carries
    <3>4. ~overtaken
      BY <1>1, <1>6, <3>3
    <3>5. Uncommitted(k)
      <4>1. saves[k] \in Request
        BY SaveElement DEF ColumnsInv
      <4> QED
        BY <3>2, <3>4, <4>1 DEF Uncommitted, Request
    <3> QED
      BY <1>1, <1>3, <2>2, <2>5, <3>1, <3>2, <3>5, SureWithout DEF Kept
  <2> QED
    BY <2>1, <2>3, <2>4, <2>5 DEF Kept
<1> QED
  BY <1>4, <1>5, <1>6 DEF ColumnsInv

LEMMA FailSaveKeeps ==
  ASSUME ColumnsInv, NEW n \in DOMAIN saves, FailSave(n)
  PROVE  ColumnsInv'
<1>1. /\ Over(n) /\ excused' = excused \cup Lost(saves[n].value)
      /\ UNCHANGED <<stored, columns, read, mounted, seen, pending, last, moved, choices>>
  BY DEF FailSave
<1>2. /\ saves' \in Seq(Request) /\ DOMAIN saves' = DOMAIN saves /\ ~Uncommitted(n)'
      /\ \A m \in DOMAIN saves : saves'[m].value = saves[m].value \/ saves'[m].value = Defaults
      /\ \A m \in DOMAIN saves \ {n} : saves'[m] = saves[m]
  BY <1>1, SaveMoves DEF Uncommitted
<1>3. ColumnsTypeOK'
  BY <1>1, <1>2 DEF ColumnsInv, ColumnsTypeOK, Lost, Behind
<1>4. AllMade'
  BY <1>1, <1>2, SavesMade DEF ColumnsInv, AllMade, Made
<1>5. ASSUME NEW f \in Fields, f \notin excused' PROVE Kept(f)'
  <2>1. f \notin Lost(saves[n].value) /\ Kept(f)
    BY <1>1, <1>5 DEF ColumnsInv
  <2>2. Waiting(f)' /\ Cached(f)'
    BY <1>1, <2>1 DEF Kept, Waiting, Cached
  <2>3. CASE Unsent(f)
    <3>1. Unsent(f)'
      BY <1>1, <1>2, <2>3 DEF Unsent, Uncommitted, Carries
    <3> QED
      BY <2>2, <3>1 DEF Kept
  <2>4. CASE Sure(f)
    <3>1. stored'[f] = last[f] \/ ~Carries(n, f)
      BY <1>1, <2>1 DEF Lost, Behind, Carries
    <3>2. stored'[f] = last[f] \/ \E m \in DOMAIN saves \ {n} : Uncommitted(m) /\ Carries(m, f)
      BY <1>1, <2>4, <3>1 DEF Sure
    <3> QED
      BY <1>1, <1>2, <2>2, <2>4, <3>2, SureWithout DEF Kept
  <2> QED
    BY <2>1, <2>3, <2>4 DEF Kept
<1> QED
  BY <1>3, <1>4, <1>5 DEF ColumnsInv

LEMMA AnswerSaveKeeps ==
  ASSUME ColumnsInv, NEW n \in DOMAIN saves, AnswerSave(n)
  PROVE  ColumnsInv'
<1>1. /\ IF saves[n].at = "committed" THEN Over(n) ELSE At(n, "answered")
      /\ saves[n].at \in {"sent", "committed"}
      /\ IF saves[n].heard THEN Receive(saves[n].value) ELSE UNCHANGED <<columns, moved>>
      /\ UNCHANGED <<stored, read, mounted, seen, pending, last, excused, choices>>
  <2>1. saves[n] \in Request
    BY SaveElement DEF ColumnsInv
  <2> QED
    BY <2>1 DEF AnswerSave, Sending, Request
<1>2. saves[n].value \in Value /\ Made(saves[n].value)
  BY SaveElement DEF ColumnsInv, AllMade, Request
<1>3. /\ saves' \in Seq(Request) /\ DOMAIN saves' = DOMAIN saves
      /\ \A m \in DOMAIN saves : saves'[m].value = saves[m].value \/ saves'[m].value = Defaults
      /\ \A m \in DOMAIN saves \ {n} : saves'[m] = saves[m]
      /\ Uncommitted(n)' <=> Uncommitted(n)
      /\ Uncommitted(n) => saves'[n].value = saves[n].value
  BY <1>1, SaveMoves DEF Uncommitted
<1>4. columns' \in Data /\ moved' \subseteq Fields
  <2>1. Some(saves[n].value) \in Data
    BY <1>2 DEF Some, Data
  <2> QED
    BY <1>1, <2>1 DEF ColumnsInv, ColumnsTypeOK, Receive
<1>5. ColumnsTypeOK'
  BY <1>1, <1>3, <1>4 DEF ColumnsInv, ColumnsTypeOK
<1>6. AllMade'
  <2>1. Made(columns.value)'
    BY <1>1, <1>2 DEF ColumnsInv, AllMade, Made, Receive, Some
  <2> QED
    BY <1>1, <1>3, <2>1, SavesMade DEF ColumnsInv, AllMade, Made
<1>7. ASSUME NEW f \in Fields, f \notin excused' PROVE Kept(f)'
  <2>1. Kept(f)
    BY <1>1, <1>7 DEF ColumnsInv
  <2>2. Waiting(f)' /\ Cached(f)'
    BY <1>1, <2>1 DEF Kept, Waiting, Cached, Receive, Some
  <2>3. \A m \in DOMAIN saves : /\ Uncommitted(m)' <=> Uncommitted(m)
                                /\ Uncommitted(m) => (Carries(m, f)' <=> Carries(m, f))
    BY <1>1, <1>3 DEF Uncommitted, Carries
  <2>4. Unsent(f) => Unsent(f)'
    BY <1>1, <1>3, <2>3 DEF Unsent
  <2>5. Sure(f) => Sure(f)'
    BY <1>1, <1>3, <2>3 DEF Sure
  <2> QED
    BY <2>1, <2>2, <2>4, <2>5 DEF Kept
<1> QED
  BY <1>5, <1>6, <1>7 DEF ColumnsInv

\* What is not flushed is lost, unless the row holds it already.
LEMMA ClosePageKeeps ==
  ASSUME ColumnsInv, ClosePage
  PROVE  ColumnsInv'
<1>1. /\ mounted' = FALSE /\ columns' = None /\ pending' = None /\ seen' = Defaults
      /\ read' = [at |-> "idle", value |-> Defaults] /\ moved' = {}
      /\ saves' = [n \in DOMAIN saves |-> [saves[n] EXCEPT !.heard = FALSE]]
      /\ excused' = excused \cup (IF pending.is THEN Lost(pending.value) ELSE {})
      /\ UNCHANGED <<stored, last, choices>>
  BY DEF ClosePage
<1>2. Defaults \in Value /\ Made(Defaults)
  BY DEF Defaults, Value, Made, ColumnsInv, ColumnsTypeOK
<1>3. /\ saves' \in Seq(Request) /\ DOMAIN saves' = DOMAIN saves
      /\ \A m \in DOMAIN saves : saves'[m].value = saves[m].value /\ saves'[m].at = saves[m].at
  <2>1. ASSUME NEW m \in DOMAIN saves
        PROVE  /\ saves'[m] \in Request
               /\ saves'[m].value = saves[m].value /\ saves'[m].at = saves[m].at
    <3>1. saves[m] \in Request /\ saves'[m] = [saves[m] EXCEPT !.heard = FALSE]
      BY <1>1, SaveElement DEF ColumnsInv
    <3> QED
      BY <3>1 DEF Request
  <2>2. DOMAIN saves = 1..Len(saves) /\ Len(saves) \in Nat
    BY LenProperties DEF ColumnsInv, ColumnsTypeOK
  <2>3. saves' \in [1..Len(saves) -> Request]
    BY <1>1, <2>1, <2>2
  <2> QED
    BY <1>1, <2>1, <2>2, <2>3
<1>4. ColumnsTypeOK'
  BY <1>1, <1>2, <1>3 DEF ColumnsInv, ColumnsTypeOK, None, Data, Lost, Behind
<1>5. AllMade'
  BY <1>1, <1>2, <1>3, SavesMade DEF ColumnsInv, AllMade, Made, None
<1>6. ASSUME NEW f \in Fields, f \notin excused' PROVE Kept(f)'
  <2>1. Kept(f)
    BY <1>1, <1>6 DEF ColumnsInv
  <2>2. ~Unsent(f)
    BY <1>1, <1>6, <2>1 DEF Kept, Waiting, Unsent, Lost, Behind
  <2>3. Sure(f)'
    <3>1. \A m \in DOMAIN saves :
            (Uncommitted(m)' <=> Uncommitted(m)) /\ (Carries(m, f)' <=> Carries(m, f))
      BY <1>1, <1>3 DEF Uncommitted, Carries
    <3>2. Sure(f)
      BY <2>1, <2>2 DEF Kept
    <3> QED
      BY <1>1, <1>3, <3>1, <3>2 DEF Sure
  <2> QED
    BY <1>1, <2>3 DEF Kept, Waiting, Cached, None
<1> QED
  BY <1>4, <1>5, <1>6 DEF ColumnsInv
-----------------------------------------------------------------------------
LEMMA ColumnsKeeps == ColumnsInv /\ [ColumnsNext]_columnsVars => ColumnsInv'
<1> SUFFICES ASSUME ColumnsInv, [ColumnsNext]_columnsVars PROVE ColumnsInv'
  OBVIOUS
<1>1. CASE UNCHANGED columnsVars
  BY <1>1 DEF columnsVars, ColumnsInv, ColumnsTypeOK, AllMade, Made, Kept, Waiting, Cached, Unsent,
              Sure, Uncommitted, Carries
<1>2. CASE ColumnsNext
  BY <1>2, TableKeeps, LeaveKeeps, ChooseKeeps, CommitSaveKeeps, AnswerSaveKeeps, FailSaveKeeps,
     ClosePageKeeps DEF ColumnsNext
<1> QED
  BY <1>1, <1>2

LEMMA ColumnsGoal == ColumnsInv => ChoicesKept
<1> SUFFICES ASSUME ColumnsInv, ~pending.is, \A n \in DOMAIN saves : ~Sending(n),
                    NEW f \in Fields, f \notin excused
             PROVE  stored[f] = last[f]
  BY DEF ChoicesKept
<1>1. Sure(f)
  BY DEF ColumnsInv, Kept, Unsent
<1> QED
  BY <1>1 DEF Sure, Uncommitted, Sending

\* Whatever number of choices meets whatever order of renders, saves, answers
\* and commits, the row ends with the last choice of every field that is not
\* lost by a failure, an overtaken request, or a choice that the table did not
\* show.
THEOREM TableKeepsChoices == Spec => []ChoicesKept
<1>1. Init => ColumnsInv
  BY ColumnsStart
<1>2. ColumnsInv /\ [Next]_<<cacheVars, columnsVars>> => ColumnsInv'
  BY ColumnsKeeps DEF Next
<1>3. ColumnsInv => ChoicesKept
  BY ColumnsGoal
<1> QED
  BY <1>1, <1>2, <1>3, PTL DEF Spec
=============================================================================
