------------------------------ MODULE Redirect -----------------------------
(***************************************************************************)
(* The answer that both drivers forge for an unauthenticated user: ntrack  *)
(* (ntrack_hooks.c, ntrack_auth.c, redirect.c) and nos (nos_hooks.c).  A   *)
(* request is answered in the name of the server with a page that sends    *)
(* the browser to the login, with FIN, and the server is reset in the name *)
(* of the client.  ntrack lets the request itself go on to the server, nos *)
(* drops it.                                                               *)
(*                                                                         *)
(* The two ends are TCP as the drivers rely on it: sequence numbers that   *)
(* wrap, data taken in order and trimmed where it overlaps, a reset taken  *)
(* only at the number that is expected next, retries by a timer, a reset   *)
(* in answer to anything that reaches a closed end.  The wires keep the    *)
(* order and may lose what is on them.  The connection is established, the *)
(* last packet of its handshake on its way.                                *)
(***************************************************************************)
EXTENDS Integers, Sequences

CONSTANTS SeqMod,     \* size of the sequence space, 2^32 in TCP
          ReqLen,     \* length of the segment that carries the method and more
          RestLen,    \* length of what follows it
          UrlLen,     \* length of the forged page
          PageLen,    \* length of the server's own answer
          MaxTries,   \* how often the client repeats a request
          MaxFaults   \* how many packets are lost or cannot be allocated

ASSUME LengthAssumption ==
    /\ {SeqMod, ReqLen, RestLen, UrlLen, PageLen} \subseteq Nat \ {0}
    /\ ReqLen > 4
    /\ {MaxTries, MaxFaults} \subseteq Nat
    /\ 2 * (ReqLen + RestLen + UrlLen + PageLen + 1) < SeqMod
    /\ MaxFaults < MaxTries

VARIABLES site,     \* which driver runs, and whether it bridges or routes
          client,   \* state, numbers and retries of the client's end
          server,   \* state and numbers of the server's end
          up,       \* packets from the client on their way to the driver
          wan,      \* from the driver to the server
          down,     \* to the client, from the server or forged
          faults,   \* packets lost and allocations failed so far
          exposed   \* a request went to the server with no reset before it

vars == <<site, client, server, up, wan, down, faults, exposed>>

\* The u32 arithmetic of ack_seq.
Plus(n, len) == (n + len) % SeqMod
Dist(from, to) == (to - from) % SeqMod

Seg(kind, seq, ack, len) == [kind |-> kind, seq |-> seq, ack |-> ack, len |-> len]

\* A segment brings data that the end which expects rcv does not have yet.
Brings(p, rcv) == Dist(p.seq, rcv) < p.len

(***************************************************************************)
(* The drivers                                                             *)
(***************************************************************************)

\* Mutant: the length of the payload is computed as nos_do computes it, and
\* what lies behind an empty segment decides.
auth_check_http_NoLength(p) == p.kind \in {"get", "post"} \/ p.len = 0

\* The kind of a segment is what the comparison with the methods finds.
auth_check_http(p) ==
    \/ p.kind = "get" /\ p.len > 3
    \/ p.kind = "post" /\ p.len > 4

\* nos_do adds the length of the TCP header where it should subtract it: an
\* empty segment counts as payload, and what lies behind it in memory
\* (residue) may begin like a request.
nos_is_get(p, residue) == p.kind = "get" \/ (p.len = 0 /\ residue)

\* Mutant: the acknowledgement covers the whole packet, headers and all.
auth_http_WholePacket(p) == Seg("forged", p.ack, Plus(p.seq, p.len + 1), UrlLen)

\* Mutant: the answer continues the client's numbers instead of the server's.
auth_http_OwnSeq(p) == Seg("forged", p.seq, Plus(p.seq, p.len), UrlLen)

\* ntrack's answer and reset ...
auth_http(p) == Seg("forged", p.ack, Plus(p.seq, p.len), UrlLen)
auth_reset(p) == Seg("rst", p.seq, p.ack, 0)

\* ... and those of nos, which has functions of its own.
auth_URL(p) == Seg("forged", p.ack, Plus(p.seq, p.len), UrlLen)
nos_auth_reset(p) == Seg("rst", p.seq, p.ack, 0)

\* Either reset carries the Ethernet header of the request.  On a bridge that
\* is the server's address; behind a router it is the router's own, and nobody
\* on the link takes the frame.
Resets(reset, fail) == IF fail = "none" /\ site.bridged THEN <<reset>> ELSE <<>>

\* An allocation that fails is a fault.
Allocate(fail) ==
    /\ fail # "none" => faults < MaxFaults
    /\ faults' = IF fail = "none" THEN faults ELSE faults + 1

\* The answer to the client, and when it was sent the reset to the server.
\* The page, the answer and the reset need memory each; without it the
\* function returns early.  The hook then lets the request pass.
ntrack_redirect(p, fail) ==
    /\ Allocate(fail)
    /\ down' = IF fail \in {"none", "reset"} THEN Append(down, auth_http(p)) ELSE down
    /\ wan' = wan \o Append(Resets(auth_reset(p), fail), p)

\* In nos the page is on the stack, and the hook drops the request.
auth_redirect(p, fail) ==
    /\ Allocate(fail)
    /\ down' = IF fail \in {"none", "reset"} THEN Append(down, auth_URL(p)) ELSE down
    /\ wan' = wan \o Resets(nos_auth_reset(p), fail)

\* ntrack_hook_fw for a user that user_need_redirect: every packet is
\* accepted, a request after the answer to it and the reset were sent.
ntrack_hook_fw(p) ==
    /\ site.driver = "ntrack"
    /\ \E fail \in {"none", "url", "answer", "reset"} :
          IF auth_check_http(p)
          THEN /\ ntrack_redirect(p, fail)
               /\ exposed' = (exposed \/ Resets(auth_reset(p), fail) = <<>>)
          ELSE /\ fail = "none"
               /\ wan' = Append(wan, p)
               /\ UNCHANGED <<down, faults, exposed>>

\* Mutant: a user who is not online passes like one who is.
nos_do_Accept(p) ==
    /\ site.driver = "nos"
    /\ wan' = Append(wan, p)
    /\ UNCHANGED <<down, faults, exposed>>

\* nos_do for a user who is not online: FIN passes, what looks like a GET is
\* answered, and it is dropped like everything else.
nos_do(p) ==
    /\ site.driver = "nos"
    /\ IF p.kind = "bye"
       THEN wan' = Append(wan, p) /\ UNCHANGED <<down, faults>>
       ELSE \E residue \in BOOLEAN, fail \in {"none", "answer", "reset"} :
              IF nos_is_get(p, residue)
              THEN auth_redirect(p, fail)
              ELSE fail = "none" /\ UNCHANGED <<wan, down, faults>>
    /\ UNCHANGED exposed

Forward ==
    /\ up # <<>>
    /\ up' = Tail(up)
    /\ ntrack_hook_fw(Head(up)) \/ nos_do(Head(up))
    /\ UNCHANGED <<site, client, server>>

(***************************************************************************)
(* The client's TCP and browser                                            *)
(***************************************************************************)

Request(kind) ==
    /\ client.st = "open" /\ client.kind = "none"
    /\ up' = Append(up, Seg(kind, client.snd, client.rcv, ReqLen))
    /\ client' = [client EXCEPT !.kind = kind, !.snd = Plus(@, ReqLen)]
    /\ UNCHANGED <<site, server, wan, down, faults, exposed>>

\* The body, or the end of a long header.
Continue ==
    /\ client.st = "open" /\ client.kind # "none" /\ ~client.more
    /\ up' = Append(up, Seg("rest", client.snd, client.rcv, RestLen))
    /\ client' = [client EXCEPT !.more = TRUE, !.snd = Plus(@, RestLen)]
    /\ UNCHANGED <<site, server, wan, down, faults, exposed>>

\* The timer repeats the first segment, or all that is not acknowledged, and
\* it may run out while the answer is on its way.
Retry ==
    /\ client.st = "open" /\ client.una # client.snd
    /\ client.tries < MaxTries
    /\ \E len \in {ReqLen, Dist(client.una, client.snd)} :
          up' = Append(up, Seg(client.kind, client.una, client.rcv, len))
    /\ client' = [client EXCEPT !.tries = @ + 1]
    /\ UNCHANGED <<site, server, wan, down, faults, exposed>>

GiveUp ==
    /\ client.st = "open" /\ client.tries = MaxTries
    /\ up = <<>> /\ wan = <<>> /\ down = <<>>
    /\ client' = [client EXCEPT !.st = "gaveup"]
    /\ UNCHANGED <<site, server, up, wan, down, faults, exposed>>

Acceptable(p) == Dist(client.una, p.ack) <= Dist(client.una, client.snd)

\* FIN: the browser has its answer and closes.  A page of the server's that
\* came first covers the beginning of a forged one.
TakeForged(p) ==
    /\ p.kind = "forged"
    /\ IF /\ client.st \in {"open", "served"}
          /\ Acceptable(p)
          /\ Dist(p.seq, client.rcv) <= UrlLen
       THEN LET rcv == Plus(p.seq, UrlLen + 1) IN
            /\ client' = [client EXCEPT !.una = p.ack, !.rcv = rcv,
                  !.st = IF p.seq = client.rcv THEN "done" ELSE "mixed"]
            /\ up' = Append(up, Seg("bye", client.snd, rcv, 0))
       ELSE UNCHANGED <<client, up>>

TakePage(p) ==
    /\ p.kind = "page"
    /\ client' = IF client.st = "open" /\ Acceptable(p) /\ Brings(p, client.rcv)
                 THEN [client EXCEPT !.una = p.ack, !.rcv = Plus(p.seq, p.len),
                                     !.st = "served"]
                 ELSE client
    /\ UNCHANGED up

TakeReset(p) ==
    /\ p.kind = "rst"
    /\ client' = IF client.st = "open" /\ p.seq = client.rcv
                 THEN [client EXCEPT !.st = "reset"] ELSE client
    /\ UNCHANGED up

Receive ==
    /\ down # <<>>
    /\ down' = Tail(down)
    /\ LET p == Head(down) IN TakeForged(p) \/ TakePage(p) \/ TakeReset(p)
    /\ UNCHANGED <<site, server, wan, faults, exposed>>

(***************************************************************************)
(* The server                                                              *)
(***************************************************************************)

Answer(p, rcv) == Seg("page", server.snd, rcv, PageLen)

\* A closed end resets whatever comes; an open one takes a reset at the
\* number it expects and answers a request, also one that is repeated.
Serve ==
    /\ wan # <<>>
    /\ wan' = Tail(wan)
    /\ LET p == Head(wan)
           isReq == p.kind \in {"get", "post"}
           new == Brings(p, server.rcv)
           rcv == IF new THEN Plus(p.seq, p.len) ELSE server.rcv
       IN CASE server.st = "closed" ->
                 /\ down' = IF p.kind = "rst" THEN down
                            ELSE Append(down, Seg("rst", p.ack, 0, 0))
                 /\ UNCHANGED server
            [] server.st # "closed" /\ p.kind = "rst" ->
                 /\ server' = IF p.seq = server.rcv
                              THEN [server EXCEPT !.st = "closed"] ELSE server
                 /\ UNCHANGED down
            [] OTHER ->
                 /\ server' = [server EXCEPT !.rcv = rcv,
                                 !.st = IF isReq /\ new THEN "answered" ELSE @]
                 /\ down' = IF isReq THEN Append(down, Answer(p, rcv)) ELSE down
    /\ UNCHANGED <<site, client, up, faults, exposed>>

(***************************************************************************)
(* Losses                                                                  *)
(***************************************************************************)

Lose ==
    /\ faults < MaxFaults
    /\ faults' = faults + 1
    /\ \/ up # <<>> /\ up' = Tail(up) /\ UNCHANGED <<wan, down, exposed>>
       \/ down # <<>> /\ down' = Tail(down) /\ UNCHANGED <<up, wan, exposed>>
       \/ /\ wan # <<>> /\ wan' = Tail(wan) /\ UNCHANGED <<up, down>>
          /\ exposed' = (exposed \/ Head(wan).kind = "rst")
    /\ UNCHANGED <<site, client, server>>

\* Both counters are about to wrap.
Init ==
    /\ site \in [driver : {"ntrack", "nos"}, bridged : BOOLEAN]
    /\ client = [st |-> "open", kind |-> "none", more |-> FALSE, tries |-> 0,
                 snd |-> SeqMod - 2, una |-> SeqMod - 2, rcv |-> SeqMod - 3]
    /\ server = [st |-> "open", snd |-> SeqMod - 3, rcv |-> SeqMod - 2]
    /\ up = <<Seg("ack", SeqMod - 2, SeqMod - 3, 0)>>
    /\ wan = <<>>
    /\ down = <<>>
    /\ faults = 0
    /\ exposed = FALSE

\* The connection is over for the client and nothing is under way.
Quiet == /\ client.st # "open"
         /\ up = <<>> /\ wan = <<>> /\ down = <<>>
         /\ UNCHANGED vars

Begin == \E kind \in {"get", "post"} : Request(kind)

Next == \/ Begin \/ Continue \/ Retry \/ GiveUp
        \/ Forward \/ Receive \/ Serve \/ Lose \/ Quiet

(***************************************************************************)
(* The drivers handle what they are given, the ends read what reaches them *)
(* and the client's timer runs.  Whether anything is lost, and whether the *)
(* browser asks at all, is open.                                           *)
(***************************************************************************)
Spec == Init /\ [][Next]_vars

FairSpec == /\ Spec
            /\ WF_vars(Forward) /\ WF_vars(Receive) /\ WF_vars(Serve)
            /\ WF_vars(Retry) /\ WF_vars(GiveUp)

(***************************************************************************)
(* Properties.                                                             *)
(***************************************************************************)

\* A forged answer fits the connection: while the client waits for one, it
\* starts at the byte the client expects next and acknowledges only what the
\* client has sent (otherwise the client ignores it), across the wrap of both
\* counters and for requests that were repeated with more data; and ntrack
\* never answers a segment that brought nothing.
ForgedFits ==
    client.st = "open" =>
        \A i \in DOMAIN down : LET p == down[i] IN p.kind = "forged" =>
            /\ p.seq = client.rcv
            /\ Acceptable(p)
            /\ site.driver = "ntrack" => p.ack # client.una

\* The server never answers a request that the driver redirected, unless it
\* went there without a reset before it: behind a router, after a reset that
\* was lost or could not be allocated.  In nos not even then.
ServerSilent ==
    server.st = "answered" => site.driver = "ntrack" /\ exposed

\* The browser sees the answer and not a broken connection: neither driver's
\* reset of the server comes back to a client that still waits, unless ntrack
\* lost the answer itself.
NeverReset == client.st = "reset" => site.driver = "ntrack" /\ faults > 0

\* A GET is redirected.  nos reaches that through any number of losses and
\* failed allocations below the number of tries; with ntrack one of them may
\* end in a reset or in the server's page.
GetRedirected ==
    client.kind = "get" ~>
        \/ client.st = "done"
        \/ site.driver = "ntrack" /\ faults > 0 /\ client.st # "open"
=============================================================================
