------------------------------- MODULE Attach ------------------------------
(***************************************************************************)
(* How ntrackd finds its ring: nmsg_init (ntrack_msg.c) cuts the reserved  *)
(* memory into one block per CPU and publishes the block size through      *)
(* sysctl; an ntrackd started for a core binds itself to it (main.c) and   *)
(* looks for that core's block (nt_message.c).                             *)
(*                                                                         *)
(* Both sides run rbf_init on a block, which writes the slot count into    *)
(* the shared header.                                                      *)
(***************************************************************************)
EXTENDS Integers

CONSTANTS NrCpus,   \* nr_cpu_ids
          CapSize,  \* nos_track_cap_size, at least 32 slots for every CPU
          NULL

Cpus == 0 .. NrCpus - 1

RBF_NODE_SIZE == 2048
HDR == 12  \* sizeof(rbf_hdr_t)

VARIABLES cap_block_sz,  \* sysctl nt_cap_block_sz
          count,         \* hdr.count of the block at each offset
          kpc,           \* the CPU whose ring nmsg_init prepares; NrCpus when
                         \*   it is done, -1 before it starts
          dpc,           \* where the ntrackd of each core is
          dsz,           \* its nt_cap_block_sz
          di,            \* its i in shm_rbf_init
          rbf            \* its nt_message_rbf, an offset or NULL

kvars == <<cap_block_sz, kpc>>
dvars == <<dpc, dsz, di, rbf>>
vars == <<kvars, count, dvars>>

BlockSize == CapSize \div NrCpus

Offsets == {BlockSize * i : i \in Cpus}

\* rbf_init: size - sizeof(rbf_hdr_t) is an uint32_t, count an uint16_t.  A
\* size below the header's wraps: 2^32 / 2048 = 2^21.
rbf_init(size) ==
    (IF size >= HDR THEN (size - HDR) \div RBF_NODE_SIZE ELSE 2^21 - 1) % 2^16

\* nmsg_init: the memory is cleared ...
Load ==
    /\ kpc = -1
    /\ kpc' = 0
    /\ count' = [o \in Offsets |-> 0]
    /\ UNCHANGED <<cap_block_sz, dvars>>

\* ... a ring is prepared for every CPU, and the size published at the end.
LoadRing ==
    /\ kpc \in Cpus
    /\ count' = [count EXCEPT ![BlockSize * kpc] = rbf_init(BlockSize)]
    /\ kpc' = kpc + 1
    /\ cap_block_sz' = IF kpc' = NrCpus THEN BlockSize ELSE cap_block_sz
    /\ UNCHANGED dvars

\* /etc/init.d/ntrackd loads the module at boot; ntrackd is started on a
\* router that is up.  sched_setaffinity leaves the core in the set.
DaemonStart(c) ==
    /\ kpc = NrCpus
    /\ dpc[c] = "off"
    /\ dpc' = [dpc EXCEPT ![c] = "pars"]
    /\ rbf' = [rbf EXCEPT ![c] = NULL]
    /\ UNCHANGED <<kvars, count, dsz, di>>

\* proc_pars_init and shm_init
DaemonPars(c) ==
    /\ dpc[c] = "pars"
    /\ dsz' = [dsz EXCEPT ![c] = cap_block_sz]
    /\ di' = [di EXCEPT ![c] = 0]
    /\ dpc' = [dpc EXCEPT ![c] = "scan"]
    /\ UNCHANGED <<kvars, count, rbf>>

\* shm_rbf_init, one turn of its loop: CPU_ISSET(i, &set) holds of the one
\* core of the set, and the loop ends after i = CPU_COUNT(&set) = 1.
DaemonSkip(c) ==
    /\ dpc[c] = "scan"
    /\ di[c] <= 1 /\ di[c] # c
    /\ di' = [di EXCEPT ![c] = @ + 1]
    /\ UNCHANGED <<kvars, count, dpc, dsz, rbf>>

DaemonFound(c) ==
    /\ dpc[c] = "scan"
    /\ di[c] <= 1 /\ di[c] = c
    /\ rbf' = [rbf EXCEPT ![c] = dsz[c] * c]
    /\ count' = [count EXCEPT ![dsz[c] * c] = rbf_init(dsz[c])]
    /\ dpc' = [dpc EXCEPT ![c] = "process"]
    /\ UNCHANGED <<kvars, dsz, di>>

\* The loop has ended: shm_rbf_init returns 0 all the same.
DaemonNotFound(c) ==
    /\ dpc[c] = "scan"
    /\ di[c] > 1
    /\ dpc' = [dpc EXCEPT ![c] = "process"]
    /\ UNCHANGED <<kvars, count, dsz, di, rbf>>

\* ntrackd may be stopped anywhere.
Kill(c) ==
    /\ dpc[c] # "off"
    /\ dpc' = [dpc EXCEPT ![c] = "off"]
    /\ UNCHANGED <<kvars, count, dsz, di, rbf>>

Init ==
    /\ cap_block_sz = 0
    /\ kpc = -1
    /\ count = [o \in Offsets |-> 0]
    /\ dpc = [c \in Cpus |-> "off"]
    /\ dsz = [c \in Cpus |-> 0]
    /\ di = [c \in Cpus |-> 0]
    /\ rbf = [c \in Cpus |-> NULL]

Daemon(c) == \/ DaemonStart(c) \/ DaemonPars(c) \/ DaemonSkip(c)
             \/ DaemonFound(c) \/ DaemonNotFound(c) \/ Kill(c)

Next == Load \/ LoadRing \/ \E c \in Cpus : Daemon(c)

Spec == Init /\ [][Next]_vars

(***************************************************************************)
(* Properties.                                                             *)
(***************************************************************************)

\* nt_assert(nt_message_rbf) of nt_message_process: an ntrackd that starts
\* to process messages has found a ring.
RingFound == \A c \in Cpus : dpc[c] = "process" => rbf[c] # NULL
=============================================================================
