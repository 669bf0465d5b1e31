----------------------------- MODULE PriceGate ------------------------------
(***************************************************************************)
(* The price of expensive requests (rpc/pow_governor.rs): proof-of-work    *)
(* with more zeros the more requests an address had served in its window.  *)
(* Several clients may share an address.                                   *)
(***************************************************************************)
EXTENDS Integers, FiniteSets, Functions, TLC

CONSTANTS
    Clients, Addresses, AddressOf,      \* AddressOf: function from clients to addresses
    FreeRequests, Tier2Requests, MinZeros, MaxZeros, WindowSecs, MaxTracked,
    ProofAge,                           \* how old a proof may be
    MaxServed, MaxTime                  \* bounds: requests served, seconds

VARIABLES
    gate,       \* PowGovernor.buckets: address -> [start, count]
    proof,      \* per client: the proof it mines, [zeros, stamp], or NoProof
    served,     \* <<address, time, n>> of requests served
    since,      \* per client: requests served at its address since its quote
    second

vars == <<gate, proof, served, since, second>>

NoProof == [zeros |-> 0 - 1, stamp |-> 0]

-----------------------------------------------------------------------------

Live(b) == second - b.start < WindowSecs
Pruned(g) == Restrict(g, {ip \in DOMAIN g : Live(g[ip])})

zeros_for_count(n) ==
    LET z == IF n < FreeRequests THEN MinZeros ELSE IF n < Tier2Requests THEN MinZeros + 1 ELSE MinZeros + 2
    IN IF z > MaxZeros THEN MaxZeros ELSE z
required_zeros(ip) ==
    zeros_for_count(IF ip \in DOMAIN gate /\ Live(gate[ip]) THEN gate[ip].count ELSE 0)

\* A full map drops what has expired, and everything if that is not enough.
Roomy(g) ==
    IF Cardinality(DOMAIN g) < MaxTracked THEN g
    ELSE IF Cardinality(DOMAIN Pruned(g)) < MaxTracked THEN Pruned(g) ELSE <<>>
Fresh == [start |-> second, count |-> 1]
record(ip) ==
    LET g == Roomy(gate)
    IN (ip :> IF ip \in DOMAIN g /\ Live(g[ip]) THEN [g[ip] EXCEPT !.count = @ + 1] ELSE Fresh) @@ g

-----------------------------------------------------------------------------

Init ==
    /\ gate = <<>> /\ served = {} /\ second = 0
    /\ proof = [c \in Clients |-> NoProof]
    /\ since = [c \in Clients |-> 0]

\* Mutant: the price quoted is always the floor.
Quoted_floor(ip) == MinZeros
Quoted(ip) == required_zeros(ip)
\* A client asks the price and starts to mine.
pow_params(c) ==
    /\ proof[c] = NoProof
    /\ gate' = Pruned(gate)
    /\ proof' = [proof EXCEPT ![c] = [zeros |-> Quoted(AddressOf[c]), stamp |-> second]]
    /\ since' = [since EXCEPT ![c] = 0]
    /\ UNCHANGED <<served, second>>

Refused(ip) == gate
\* It sends the request with its proof.
verify_pow(c) ==
    LET ip == AddressOf[c] IN
    /\ proof[c] # NoProof /\ Cardinality(served) < MaxServed
    /\ IF second - proof[c].stamp <= ProofAge /\ proof[c].zeros >= required_zeros(ip)
       THEN /\ gate' = record(ip)
            /\ served' = served \cup {<<ip, second, Cardinality(served)>>}
            /\ since' = [d \in Clients |-> IF AddressOf[d] = ip THEN since[d] + 1 ELSE since[d]]
       ELSE gate' = Refused(ip) /\ UNCHANGED <<served, since>>
    /\ proof' = [proof EXCEPT ![c] = NoProof]
    /\ UNCHANGED second

Tick == second < MaxTime /\ second' = second + 1 /\ UNCHANGED <<gate, proof, served, since>>

Next == Tick \/ \E c \in Clients : pow_params(c) \/ verify_pow(c)
Spec == Init /\ [][Next]_vars

-----------------------------------------------------------------------------
(* Properties *)

\* The map of addresses never outgrows its cap.
TypeOK ==
    /\ Cardinality(DOMAIN gate) <= MaxTracked /\ second \in 0..MaxTime
    /\ \A ip \in DOMAIN gate : gate[ip].start \in 0..second /\ gate[ip].count > 0

\* A client that pays the price it was quoted is not turned away for it,
\* unless a request from its own address was served in the meantime; windows
\* that end, and a map that is pruned or dropped, only make it cheaper.
QuoteHolds ==
    \A c \in Clients : proof[c] # NoProof /\ since[c] = 0 => proof[c].zeros >= required_zeros(AddressOf[c])

\* An address pays more than the floor only for requests that were served to
\* it within one window: failures and the past cost it nothing.
PriceIsEarned ==
    \A ip \in Addresses : required_zeros(ip) > MinZeros =>
        Cardinality({s \in served : s[1] = ip /\ second - s[2] < WindowSecs}) >= FreeRequests
=============================================================================
