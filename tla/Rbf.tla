-------------------------------- MODULE Rbf --------------------------------
(***************************************************************************)
(* The ring buffer of include/src/ntrack_rbf.h in the memory block that    *)
(* the ntrack kernel module and the ntrackd daemon share.                  *)
(*                                                                         *)
(* The kernel is the only producer: the workqueue function of the ring's   *)
(* CPU calls nmsg_fill_buffer under the queue lock.  ntrackd is the only   *)
(* consumer: nt_message_process polls, runs the callback on the slot in    *)
(* place and then releases it.  There is no lock between the two, only the *)
(* indices r and w, so every access to them and to a slot is a step of its *)
(* own here, and memcpy into a slot is two steps (a slot is Torn in        *)
(* between).  ntrackd may be killed at any step and started again; a new   *)
(* ntrackd runs rbf_init, which by design leaves r and w alone.            *)
(*                                                                         *)
(* The steps of each side run in program order (r and w are volatile and   *)
(* the stores are assumed to reach the other side in order): there are no  *)
(* barriers in the code.                                                   *)
(***************************************************************************)
EXTENDS Integers, Sequences

CONSTANTS Count,     \* hdr.count: the number of slots
          Messages,  \* contents a node may have
          Torn,      \* contents of a slot in the middle of a memcpy
          NULL       \* the null pointer

ASSUME CountAssumption == Count \in Nat \ {0}
ASSUME MarkAssumption == /\ Torn \notin Messages
                         /\ NULL \notin Messages
                         /\ NULL \notin Nat
                         /\ NULL # Torn

VARIABLES r, w,      \* hdr.r, hdr.w: next slot to read, next slot to write
          slot,      \* buffer[]: the contents of each slot
          ppc,       \* where the kernel is in nmsg_fill_buffer
          pbuf,      \* its local p: the slot rbf_get_buff gave it, or NULL
          pmsg,      \* node->buff: the message it publishes
          cpc,       \* where ntrackd is in nt_message_process
          cbuf,      \* its local p: the slot rbf_get_data gave it, or NULL
          got        \* what the callback found there, or NULL

pvars == <<ppc, pbuf, pmsg>>
cvars == <<cpc, cbuf, got>>
vars == <<r, w, slot, ppc, pbuf, pmsg, cpc, cbuf, got>>

Slots == 0 .. Count - 1

(***************************************************************************)
(* The operations of ntrack_rbf.h.  A slot pointer is its index.           *)
(***************************************************************************)

\* Mutant: the successor of w is compared with r without the modulo.
rbf_get_buff_NoWrap == IF w + 1 # r THEN w ELSE NULL

\* One slot always stays free, so that r = w means empty.
rbf_get_buff == IF (w + 1) % Count # r THEN w ELSE NULL

rbf_release_buff == w' = (w + 1) % Count

rbf_get_data == IF r # w THEN r ELSE NULL

\* Mutant: the index is not wrapped at the last slot.
rbf_release_data_NoWrap == r' = r + 1

rbf_release_data == r' = (r + 1) % Count

(***************************************************************************)
(* nmsg_fill_buffer: the kernel publishes one node.                        *)
(***************************************************************************)

FillBegin(m) ==
    /\ ppc = "idle"
    /\ pbuf' = rbf_get_buff
    /\ pmsg' = m
    /\ ppc' = IF rbf_get_buff = NULL THEN "full" ELSE "copy"
    /\ UNCHANGED <<r, w, slot, cvars>>

\* "message ring full...": nothing is written, the caller gets -ENOMEM.
FillFull ==
    /\ ppc = "full"
    /\ ppc' = "idle"
    /\ UNCHANGED <<r, w, slot, pbuf, pmsg, cvars>>

\* Mutant: w is advanced as soon as there is a slot, before the copy.
CopyBegin_Early ==
    /\ ppc = "copy"
    /\ slot' = [slot EXCEPT ![pbuf] = Torn]
    /\ rbf_release_buff
    /\ ppc' = "copying"
    /\ UNCHANGED <<r, pbuf, pmsg, cvars>>

CopyBegin ==
    /\ ppc = "copy"
    /\ slot' = [slot EXCEPT ![pbuf] = Torn]
    /\ ppc' = "copying"
    /\ UNCHANGED <<r, w, pbuf, pmsg, cvars>>

CopyEnd ==
    /\ ppc = "copying"
    /\ slot' = [slot EXCEPT ![pbuf] = pmsg]
    /\ ppc' = "release"
    /\ UNCHANGED <<r, w, pbuf, pmsg, cvars>>

FillEnd ==
    /\ ppc = "release"
    /\ rbf_release_buff
    /\ ppc' = "idle"
    /\ UNCHANGED <<r, slot, pbuf, pmsg, cvars>>

(***************************************************************************)
(* nt_message_process: the loop of ntrackd.                                *)
(***************************************************************************)

\* An empty ring is polled again after the sleep: no step.
GetData ==
    /\ cpc = "poll"
    /\ rbf_get_data # NULL
    /\ cbuf' = rbf_get_data
    /\ cpc' = "callback"
    /\ UNCHANGED <<r, w, slot, got, pvars>>

Callback ==
    /\ cpc = "callback"
    /\ got' = slot[cbuf]
    /\ cpc' = "release"
    /\ UNCHANGED <<r, w, slot, cbuf, pvars>>

\* Mutant: the loop goes round without releasing the slot.
ReleaseData_Forget ==
    /\ cpc = "release"
    /\ cbuf' = NULL
    /\ got' = NULL
    /\ cpc' = "poll"
    /\ UNCHANGED <<r, w, slot, pvars>>

ReleaseData ==
    /\ cpc = "release"
    /\ rbf_release_data
    /\ cbuf' = NULL
    /\ got' = NULL
    /\ cpc' = "poll"
    /\ UNCHANGED <<w, slot, pvars>>

\* ntrackd is killed: its locals are lost, the shared block is not.
Kill ==
    /\ cpc # "down"
    /\ cpc' = "down"
    /\ cbuf' = NULL
    /\ got' = NULL
    /\ UNCHANGED <<r, w, slot, pvars>>

\* Mutant: rbf_init clears the header, as its commented-out memset would.
Start_Reset ==
    /\ cpc = "down"
    /\ cpc' = "poll"
    /\ r' = 0
    /\ w' = 0
    /\ UNCHANGED <<slot, cbuf, got, pvars>>

\* A new ntrackd: rbf_init rewrites size and count with the values they
\* have and keeps r and w.
Start ==
    /\ cpc = "down"
    /\ cpc' = "poll"
    /\ UNCHANGED <<r, w, slot, cbuf, got, pvars>>

(***************************************************************************)
(* nmsg_init zeroes the block before the first ntrackd is started.         *)
(***************************************************************************)
Init ==
    /\ r = 0
    /\ w = 0
    /\ slot = [i \in Slots |-> NULL]
    /\ ppc = "idle"
    /\ pbuf = NULL
    /\ pmsg = NULL
    /\ cpc = "down"
    /\ cbuf = NULL
    /\ got = NULL

Producer == \/ \E m \in Messages : FillBegin(m)
            \/ FillFull
            \/ CopyBegin
            \/ CopyEnd
            \/ FillEnd

Consumer == GetData \/ Callback \/ ReleaseData

Next == Producer \/ Consumer \/ Kill \/ Start

Spec == Init /\ [][Next]_vars

(***************************************************************************)
(* ntrackd is a running process: its loop goes on while it lives.  Nothing *)
(* restarts it, and nothing obliges the kernel to have a message.          *)
(***************************************************************************)
FairSpec == Spec /\ WF_vars(Consumer)

(***************************************************************************)
(* Properties.                                                             *)
(***************************************************************************)

\* The slots from r up to w, going round: published and not yet released.
Published == {i \in Slots : IF r <= w THEN r <= i /\ i < w
                                      ELSE r <= i \/ i < w}

Used == IF r <= w THEN w - r ELSE Count - r + w

\* The slot k places after r, for k < Count.
Ahead(k) == IF r + k < Count THEN r + k ELSE r + k - Count

\* The published messages, oldest first.
Queue == [k \in 1 .. Used |-> slot[Ahead(k - 1)]]

\* Both indices stay inside the block that rbf_init counted, a slot holds
\* whole or half-copied messages, and each side's locals fit its step.
TypeOK ==
    /\ r \in Slots
    /\ w \in Slots
    /\ slot \in [Slots -> Messages \cup {Torn, NULL}]
    /\ ppc \in {"idle", "full", "copy", "copying", "release"}
    /\ pbuf \in Slots \cup {NULL}
    /\ pmsg \in Messages \cup {NULL}
    /\ cpc \in {"down", "poll", "callback", "release"}
    /\ cbuf \in Slots \cup {NULL}
    /\ got \in Messages \cup {Torn, NULL}

\* The kernel never copies into the slot that ntrackd's callback works on,
\* although rbf_get_buff and rbf_get_data take no lock and r and w are read
\* before they are used.
NoOverwrite ==
    ~ /\ ppc \in {"copy", "copying", "release"}
      /\ cpc \in {"callback", "release"}
      /\ pbuf = cbuf

\* The callback is handed whole messages only: never a half-copied slot and
\* never a slot that holds no message, in all interleavings of
\* nmsg_fill_buffer and nt_message_process and across deaths of ntrackd.
WholeMessages == cpc = "release" => got \in Messages

\* The ring implements the abstract queue: bounded by count - 1, in order,
\* a message taken off only after its callback, none lost when ntrackd is
\* killed and started again.
Fifo == INSTANCE MessageFifo
        WITH Capacity <- Count - 1, None <- NULL,
             queue <- Queue, handling <- got

RingIsFifo == Fifo!Spec

\* A published message does not stay in the ring: nt_message_process gets
\* to it and releases its slot, unless ntrackd dies.
EveryMessageConsumed ==
    \A i \in Slots : i \in Published ~> (i \notin Published \/ cpc = "down")

(***************************************************************************)
(* The inductive invariant of the proofs: what each side may rely on while *)
(* the other moves.  The slot being filled is the one at w and is not      *)
(* published; the slot being handled is the one at r and is published; all *)
(* published slots hold whole messages.                                    *)
(***************************************************************************)
ProducerOwnsSlot ==
    /\ ppc \in {"copy", "copying", "release"} =>
          pbuf = w /\ (w + 1) % Count # r /\ pmsg \in Messages
    /\ ppc = "release" => slot[w] = pmsg

ConsumerOwnsSlot ==
    /\ cpc \in {"callback", "release"} => cbuf = r /\ r # w
    /\ cpc = "release" => got = slot[r]
    /\ cpc # "release" => got = NULL

PublishedWhole == \A i \in Published : slot[i] \in Messages

IInv == TypeOK /\ ProducerOwnsSlot /\ ConsumerOwnsSlot /\ PublishedWhole
=============================================================================
