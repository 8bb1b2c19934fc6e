----------------------------- MODULE UploadZone -----------------------------
(***************************************************************************)
(* The upload zone of the dashboard and what it drives: a browser that     *)
(* uploads the files dropped on it, a few at a time, each through          *)
(* upload-url, a PUT to object storage, confirm and polling; the server's  *)
(* documents, which move as Lifecycle says; the stored objects; and        *)
(* deletions from the document list, which remove objects before rows.     *)
(*                                                                         *)
(* JavaScript runs one callback at a time: a continuation of uploadFile,   *)
(* with the finally handler that follows it, is one action.                *)
(***************************************************************************)
EXTENDS Integers, FiniteSets, Sequences, SequencesExt

CONSTANTS
    Files,          \* files of an allowed type and size that a user may drop
    MaxConcurrent,  \* MAX_CONCURRENT
    MaxPolls,       \* iterations of the polling loop
    MaxDeletes      \* bound on the documents a deletion is tried on

ASSUME UploadAssumption ==
    /\ IsFiniteSet(Files)
    /\ MaxConcurrent \in Nat \ {0} /\ MaxPolls \in Nat \ {0}
    /\ MaxDeletes \in Nat

VARIABLES
    item,           \* status of each entry of the list on the page
    queue, active,  \* queueRef and activeRef
    reply,          \* the fetch each upload waits for, and its answer
    polls,          \* how often each upload has polled
    phase,          \* the server's document for each file
    object,         \* files whose object is in storage
    deleting,       \* documents a deletion has locked and not yet committed
    cutOff          \* history: documents a deletion was cut off on

client == <<item, queue, active, polls>>
server == <<phase, object, deleting, cutOff>>
vars   == <<client, reply, server>>

Documents == INSTANCE Lifecycle WITH Docs <- Files

-----------------------------------------------------------------------------
\* "none" is a file not dropped yet, "confirming" the status uploading at 60 %,
\* and "gone" an entry taken off the list.
Running == {"requesting", "uploading", "confirming", "processing"}
Settled == {"done", "error", "timeout"}

InFlight == {f \in Files : item[f] \in Running}

TypeOK ==
    /\ item \in [Files -> Running \cup Settled \cup {"none", "pending", "gone"}]
    /\ queue \in Seq(Files)
    /\ active \in Nat
    /\ reply \in [Files -> {"none", "sent", "ok", "busy", "ready", "failed",
                            "bad"}]
    /\ polls \in [Files -> 0 .. MaxPolls]
    /\ phase \in [Files -> {"absent", "uploaded", "processing", "ready",
                            "indexed", "failed", "deleted"}]
    /\ object \subseteq Files
    /\ deleting \subseteq Files
    /\ cutOff \subseteq Files

Init ==
    /\ item = [f \in Files |-> "none"]
    /\ queue = << >>
    /\ active = 0
    /\ reply = [f \in Files |-> "none"]
    /\ polls = [f \in Files |-> 0]
    /\ Documents!Init
    /\ object = {}
    /\ deleting = {}
    /\ cutOff = {}

-----------------------------------------------------------------------------
(* The browser. *)

Startable_OneTooMany(k, running, q) ==
    {i \in 1 .. Len(q) : i <= k /\ running + i <= MaxConcurrent + 1}

\* The positions of q that k calls of processNext take, with `running` uploads
\* under way.
Startable(k, running, q) ==
    {i \in 1 .. Len(q) : i <= k /\ running + i <= MaxConcurrent}

\* k calls of processNext: the files taken off q are requested at once.  The
\* list and the answers are otherwise `list` and `answers`.
ProcessNext(k, running, q, list, answers) ==
    LET n == Cardinality(Startable(k, running, q))
        started == {q[i] : i \in 1 .. n}
    IN  /\ active' = running + n
        /\ queue' = SubSeq(q, n + 1, Len(q))
        /\ item' = [f \in Files |->
                      IF f \in started THEN "requesting" ELSE list[f]]
        /\ reply' = [f \in Files |-> IF f \in started THEN "sent" ELSE answers[f]]

\* handleFiles.
Drop ==
    /\ \E S \in SUBSET {f \in Files : item[f] = "none"} \ {{}} :
          \E new \in SetToSeqs(S) :
              ProcessNext(MaxConcurrent, active, queue \o new,
                          [f \in Files |-> IF f \in S THEN "pending" ELSE item[f]],
                          reply)
    /\ UNCHANGED <<server, polls>>

Settle_Leaks(f, outcome) ==
    /\ item' = [item EXCEPT ![f] = outcome]
    /\ reply' = [reply EXCEPT ![f] = "none"]
    /\ active' = active - 1
    /\ UNCHANGED <<server, queue, polls>>

Settle_ReleasedTwice(f, outcome) ==
    /\ ProcessNext(1, active - 2, queue, [item EXCEPT ![f] = outcome],
                   [reply EXCEPT ![f] = "none"])
    /\ UNCHANGED <<server, polls>>

\* uploadFile returns, and the finally handler frees its slot and fills it.
Settle(f, outcome) ==
    /\ ProcessNext(1, active - 1, queue, [item EXCEPT ![f] = outcome],
                   [reply EXCEPT ![f] = "none"])
    /\ UNCHANGED <<server, polls>>

\* A fetch answered: the next one is sent, or the polling loop begins.
Move(f, from, to, next) ==
    /\ item[f] = from
    /\ item' = [item EXCEPT ![f] = to]
    /\ reply' = [reply EXCEPT ![f] = next]
    /\ UNCHANGED <<server, queue, active, polls>>

Requested(f) == reply[f] = "ok" /\ Move(f, "requesting", "uploading", "sent")

Stored_Unchecked(f) ==
    reply[f] \in {"ok", "bad"} /\ Move(f, "uploading", "confirming", "sent")

Stored(f)    == reply[f] = "ok" /\ Move(f, "uploading", "confirming", "sent")
Confirmed(f) == reply[f] = "ok" /\ Move(f, "confirming", "processing", "none")

\* A fetch before the polling loop is refused or throws.
Fails(f) ==
    /\ item[f] \in {"requesting", "uploading", "confirming"}
    /\ reply[f] = "bad"
    /\ Settle(f, "error")

Poll(f) ==
    /\ item[f] = "processing" /\ reply[f] = "none" /\ polls[f] < MaxPolls
    /\ reply' = [reply EXCEPT ![f] = "sent"]
    /\ polls' = [polls EXCEPT ![f] = @ + 1]
    /\ UNCHANGED <<server, item, queue, active>>

\* The document is ready or failed, or it is not and the loop goes round.  A
\* poll that is refused or throws counts as one that found nothing.
Polled(f) ==
    /\ item[f] = "processing"
    /\ \/ reply[f] = "ready" /\ Settle(f, "done")
       \/ reply[f] = "failed" /\ Settle(f, "error")
       \/ /\ reply[f] \in {"busy", "bad"} /\ polls[f] < MaxPolls
          /\ Move(f, "processing", "processing", "none")
       \/ /\ reply[f] \in {"busy", "bad"} /\ polls[f] = MaxPolls
          /\ Settle(f, "timeout")

\* Takes the entries with a status in S off the list.
TakeOff(S) ==
    item' = [f \in Files |-> IF item[f] \in S THEN "gone" ELSE item[f]]

CancelPending_ListOnly ==
    /\ queue # << >>
    /\ TakeOff({"pending"})
    /\ UNCHANGED <<server, active, queue, reply, polls>>

\* The button is shown while the queue is not empty.
CancelPending ==
    /\ queue # << >>
    /\ queue' = << >>
    /\ TakeOff({"pending"})
    /\ UNCHANGED <<server, active, reply, polls>>

ClearCompleted ==
    /\ \E f \in Files : item[f] \in Settled
    /\ TakeOff(Settled)
    /\ UNCHANGED <<server, active, queue, reply, polls>>

-----------------------------------------------------------------------------
(* The server, storage and the network. *)

Answer(f, step, with) ==
    /\ item[f] = step
    /\ reply[f] = "sent"
    /\ reply' = [reply EXCEPT ![f] = with]
    /\ UNCHANGED client

ServeInit(f) ==
    /\ Answer(f, "requesting", "ok")
    /\ Documents!Upload(f)
    /\ UNCHANGED <<object, deleting, cutOff>>

\* Storage asks nobody whether the document still exists.
ServePut(f) ==
    /\ Answer(f, "uploading", "ok")
    /\ object' = object \cup {f}
    /\ UNCHANGED <<phase, deleting, cutOff>>

\* confirm answers 404 or 409 unless the document is there and only uploaded;
\* it waits for a deletion that has the row.
ServeConfirm(f) ==
    /\ f \notin deleting
    /\ \/ /\ Answer(f, "confirming", "ok")
          /\ Documents!Confirm(f)
       \/ /\ phase[f] # "uploaded"
          /\ Answer(f, "confirming", "bad")
          /\ UNCHANGED phase
    /\ UNCHANGED <<object, deleting, cutOff>>

\* GET /documents/{id}.
Shown(f) ==
    CASE phase[f] \in {"ready", "indexed"} -> "ready"
      [] phase[f] = "failed"               -> "failed"
      [] phase[f] = "deleted"              -> "bad"
      [] OTHER                             -> "busy"

ServePoll(f) == Answer(f, "processing", Shown(f)) /\ UNCHANGED server

\* A request or its answer is lost, or refused (quota, an expired URL).
Lost(f) ==
    /\ reply[f] \notin {"none", "bad"}
    /\ reply' = [reply EXCEPT ![f] = "bad"]
    /\ UNCHANGED <<client, server>>

\* The pipeline moves a document that no deletion has locked.
Process(f) ==
    /\ f \notin deleting
    /\ Documents!Read(f) \/ Documents!Index(f) \/ Documents!Fail(f)
    /\ UNCHANGED <<client, reply, object, deleting, cutOff>>

\* bulk_delete: the rows are deleted and locked, then storage is asked to drop
\* the objects; if it cannot, that is only logged.
DeleteObjects ==
    /\ deleting = {}
    /\ Cardinality(cutOff \cup {f \in Files : phase[f] = "deleted"}) < MaxDeletes
    /\ \E f \in Files :
          /\ phase[f] \notin {"absent", "deleted"}
          /\ deleting' = {f}
          /\ object' \in {object, object \ {f}}
    /\ UNCHANGED <<client, reply, phase, cutOff>>

DeleteCommits ==
    /\ deleting # {}
    /\ Documents!DeleteSet(deleting)
    /\ deleting' = {}
    /\ UNCHANGED <<client, reply, object, cutOff>>

\* The request dies between the objects and the commit: the rows come back.
DeleteAborts ==
    /\ deleting # {}
    /\ deleting' = {}
    /\ cutOff' = cutOff \cup deleting
    /\ UNCHANGED <<client, reply, phase, object>>

-----------------------------------------------------------------------------
Continue(f) ==
    \/ Requested(f) \/ Stored(f) \/ Confirmed(f) \/ Fails(f)
    \/ Poll(f) \/ Polled(f)

Respond(f) ==
    ServeInit(f) \/ ServePut(f) \/ ServeConfirm(f) \/ ServePoll(f) \/ Lost(f)

Next ==
    \/ Drop \/ CancelPending \/ ClearCompleted
    \/ \E f \in Files : Continue(f) \/ Respond(f) \/ Process(f)
    \/ DeleteObjects \/ DeleteCommits \/ DeleteAborts

\* The browser runs every continuation that is due, and a fetch is answered or
\* given up by the network.  Users, deletions and the pipeline owe nothing.
Spec ==
    /\ Init /\ [][Next]_vars
    /\ \A f \in Files : WF_vars(Continue(f)) /\ WF_vars(Respond(f))

-----------------------------------------------------------------------------
(* Properties. *)

\* activeRef counts the uploads under way exactly, whatever fails, and there
\* are never more than MAX_CONCURRENT of them.
SlotsExact == active = Cardinality(InFlight) /\ active <= MaxConcurrent

\* No slot is idle while a file waits: dropping files, finishing, failing and
\* cancelling keep the zone busy although nothing polls the queue.
NoIdleSlot == queue # << >> => active >= MaxConcurrent

\* The list and the queue agree: the entries shown as pending are those that
\* will be uploaded, once each.  cancelPending changes both at once.
PendingIsQueued ==
    /\ {f \in Files : item[f] = "pending"} = {queue[i] : i \in DOMAIN queue}
    /\ \A i, j \in DOMAIN queue : queue[i] = queue[j] => i = j

\* A document the zone confirmed has its object, so that OCR can read it, until
\* a deletion takes it: confirm itself does not look.
ConfirmedIsStored ==
    \A f \in Files :
        phase[f] \in {"processing", "ready", "indexed", "failed"}
            => f \in object \cup deleting \cup cutOff

\* Every file dropped is uploaded, fails, times out or is cancelled: nothing
\* stays pending, or at an intermediate step, for ever.
EveryUploadSettles ==
    \A f \in Files :
        item[f] \in Running \cup {"pending"} ~> item[f] \in Settled \cup {"gone"}

=============================================================================
