------------------------------- MODULE Scripts -------------------------------
(***************************************************************************)
(* The script machine of core/script.rs, one instruction per step, and the *)
(* scripts the wallets compile for it.                                     *)
(*                                                                         *)
(* A stack item is raw bytes, or a 32-byte value or signature named by     *)
(* what it is: <<"raw", bytes>>, <<"key", k>>, <<"sig", k>> ...  Numbers   *)
(* are little-endian with Base values per byte and IntBytes bytes (256 and *)
(* 8 in the code).  A program is the sequence of its instructions; "BAD"   *)
(* is a byte that is no opcode, "CUT" a push that runs past the end.       *)
(***************************************************************************)
EXTENDS Integers, Sequences, SequencesExt, FiniteSets, Functions

CONSTANTS
    Base, IntBytes,
    MaxScript, MaxDepth, MaxItem, MaxSigops    \* MAX_SCRIPT_SIZE (instructions), ...

VARIABLES
    case,              \* what is being run
    pc, stack, exec,   \* exec_stack: one flag per open conditional
    sigops,
    verdict            \* "run", "ok", or the error that ended it

vars == <<case, pc, stack, exec, sigops, verdict>>

-----------------------------------------------------------------------------
(* Items *)

Raw(bytes) == <<"raw", bytes>>
Key(k) == <<"key", k>>
Sig(k) == <<"sig", k>>          \* over the commitment of this transaction
Secret(s) == <<"secret", s>>
Hash(x) == <<"hash", x>>
Addr(a) == <<"addr", a>>
True == Raw(<<1>>)
False == Raw(<<0>>)
Flag(b) == IF b THEN True ELSE False

Is32(x) == x[1] \in {"key", "secret", "hash", "addr", "state"}
ItemSize(x) == IF x[1] = "raw" THEN Len(x[2]) ELSE IF Is32(x) THEN IntBytes + 1 ELSE MaxItem

is_true(x) == x[1] = "raw" => \E i \in DOMAIN x[2] : x[2][i] # 0

IntMax == Base^IntBytes - 1
IsInt(x) == x[1] = "raw" /\ Len(x[2]) <= IntBytes
to_u64(x) == FoldRight(LAMBDA b, n : b + Base * n, x[2], 0)
\* The fewest bytes, but one for zero.
Width(n) == CHOOSE w \in 1..IntBytes : n < Base^w /\ (w = 1 \/ n >= Base^(w - 1))
from_u64(n) == Raw([i \in 1..Width(n) |-> (n \div Base^(i - 1)) % Base])

verify_signature(sig, pk) == pk[1] = "key" /\ sig = Sig(pk[2])

-----------------------------------------------------------------------------
(* What an instruction does *)

Op(name) == [op |-> name]
push(item) == [op |-> "PUSH", item |-> item]
push_int(n) == push(from_u64(n))

Pops == <<{"PUSH", "READ_INPUT_STATE", "INPUT_VALUE", "THIS_ADDRESS"},
          {"DROP", "DUP", "VERIFY", "HASH", "CHECKTIMEVERIFY", "SUM_TO_ADDR", "READ_OUTPUT_STATE", "PICK", "SIZE",
           "OUTPUT_ADDRESS"},
          {"SWAP", "OVER", "CONCAT", "EQUAL", "EQUALVERIFY", "ADD", "SUB", "MUL", "DIV", "MOD",
           "GREATER_OR_EQUAL", "CHECKSIG", "CHECKSIGVERIFY"},
          {"ROT", "SLICE"}>>
\* How many items an instruction needs on the stack.
Arity(op) == (CHOOSE n \in DOMAIN Pops : op \in Pops[n]) - 1
Opcodes == UNION Range(Pops) \cup {"IF", "ELSE", "ENDIF"}

Fail == <<"fail">>
Only(cond, items) == IF cond THEN items ELSE Fail

Checked(n) == Only(n >= 0 /\ n <= IntMax, <<from_u64(n)>>)

Arithmetic(op, a, b) ==
    IF ~IsInt(a) \/ ~IsInt(b) THEN Fail
    ELSE LET x == to_u64(a)
             y == to_u64(b) IN
         CASE op = "ADD" -> Checked(x + y)
           [] op = "SUB" -> Checked(x - y)
           [] op = "MUL" -> Checked(x * y)
           [] op = "DIV" -> IF y = 0 THEN Fail ELSE <<from_u64(x \div y)>>
           [] op = "MOD" -> IF y = 0 THEN Fail ELSE <<from_u64(x % y)>>
           [] op = "GREATER_OR_EQUAL" -> <<Flag(x >= y)>>

\* Bytes of an item that is not raw are not followed: taken whole or opaque.
slice(x, from, n) ==
    IF ~IsInt(from) \/ ~IsInt(n) \/ to_u64(from) + to_u64(n) > IntMax THEN Fail
    ELSE LET o == to_u64(from)
             e == o + to_u64(n) IN
         Only(e <= ItemSize(x), <<IF x[1] = "raw" THEN Raw(SubSeq(x[2], o + 1, e))
                                  ELSE IF o = 0 /\ e = ItemSize(x) THEN x ELSE <<"part", <<x, o, e>>>> >>)
concat(a, b) ==
    Only(ItemSize(a) + ItemSize(b) <= MaxItem,
         <<IF a[1] = "raw" /\ b[1] = "raw" THEN Raw(a[2] \o b[2]) ELSE <<"joined", <<a, b>>>> >>)

SumTo(addr, outs) == FoldSeq(LAMBDA o, n : IF o.addr = addr THEN n + o.value ELSE n, 0, outs)
Output(ctx, i) == ctx.outputs[to_u64(i) + 1]
HasOutput(ctx, i) == IsInt(i) /\ to_u64(i) < Len(ctx.outputs)

\* What replaces the items an instruction pops (the deepest first), or Fail.
Pushed(ins, a, ctx) ==
    LET op == ins.op IN
    CASE op = "PUSH" -> <<ins.item>>
      [] op = "DROP" -> <<>>
      [] op = "DUP" -> <<a[1], a[1]>>
      [] op = "SWAP" -> <<a[2], a[1]>>
      [] op = "OVER" -> <<a[1], a[2], a[1]>>
      [] op = "ROT" -> <<a[2], a[3], a[1]>>
      [] op = "SLICE" -> slice(a[1], a[2], a[3])
      [] op = "CONCAT" -> concat(a[1], a[2])
      [] op = "EQUAL" -> <<Flag(a[1] = a[2])>>
      [] op = "VERIFY" -> Only(is_true(a[1]), <<>>)
      [] op = "EQUALVERIFY" -> Only(a[1] = a[2], <<>>)
      [] op \in {"ADD", "SUB", "MUL", "DIV", "MOD", "GREATER_OR_EQUAL"} -> Arithmetic(op, a[1], a[2])
      [] op = "HASH" -> <<Hash(a[1])>>
      [] op = "CHECKSIG" -> <<Flag(verify_signature(a[1], a[2]))>>
      [] op = "CHECKSIGVERIFY" -> Only(verify_signature(a[1], a[2]), <<>>)
      [] op = "CHECKTIMEVERIFY" -> Only(IsInt(a[1]) /\ ctx.height >= to_u64(a[1]), <<>>)
      [] op = "SUM_TO_ADDR" -> IF Is32(a[1]) THEN Checked(SumTo(a[1], ctx.outputs)) ELSE Fail
      [] op = "READ_INPUT_STATE" -> Only(ctx.state # Raw(<<>>), <<ctx.state>>)
      [] op = "READ_OUTPUT_STATE" ->
            IF HasOutput(ctx, a[1]) THEN Only(Output(ctx, a[1]).state # Raw(<<>>), <<Output(ctx, a[1]).state>>)
            ELSE Fail
      [] op = "SIZE" -> <<a[1], from_u64(ItemSize(a[1]))>>
      [] op = "INPUT_VALUE" -> <<from_u64(ctx.value)>>
      [] op = "OUTPUT_ADDRESS" -> IF HasOutput(ctx, a[1]) THEN <<Output(ctx, a[1]).addr>> ELSE Fail
      [] op = "THIS_ADDRESS" -> <<Addr("self")>>

Below(s, n) == SubSeq(s, 1, Len(s) - n)
TopN(s, n) == SubSeq(s, Len(s) - n + 1, Len(s))

\* The stack after an instruction, or Fail.  PICK reads below what it pops.
After(ins, s, ctx) ==
    IF ins.op = "PICK"
    THEN IF s = <<>> \/ ~IsInt(Last(s)) \/ to_u64(Last(s)) >= Len(s) - 1 THEN Fail
         ELSE Append(Front(s), s[Len(s) - 1 - to_u64(Last(s))])
    ELSE IF Len(s) < Arity(ins.op) THEN Fail
    ELSE LET items == Pushed(ins, TopN(s, Arity(ins.op)), ctx)
         IN IF items = Fail THEN Fail ELSE Below(s, Arity(ins.op)) \o items

-----------------------------------------------------------------------------
(* validate_structure *)

\* How many conditionals are open after the first n instructions.
Depth(prog, n) == Cardinality({i \in 1..n : prog[i].op = "IF"}) - Cardinality({i \in 1..n : prog[i].op = "ENDIF"})
Nests(prog) ==
    /\ \A n \in DOMAIN prog : Depth(prog, n) >= 0
    /\ \A n \in DOMAIN prog : prog[n].op = "ELSE" => Depth(prog, n) > 0
    /\ Depth(prog, Len(prog)) = 0

validate_structure(prog) ==
    /\ Len(prog) <= MaxScript
    /\ \A i \in DOMAIN prog : prog[i].op \in Opcodes /\ (prog[i].op = "PUSH" => ItemSize(prog[i].item) <= MaxItem)
    /\ Nests(prog)

-----------------------------------------------------------------------------
(* execute_script *)

Admitted(c) ==
    /\ validate_structure(c.prog)
    /\ Len(c.wit) <= MaxDepth /\ \A i \in DOMAIN c.wit : ItemSize(c.wit[i]) <= MaxItem

\* cases: [name, prog, wits, ctxs], a script, the witnesses and contexts to
\* run it with.
Init(cases) ==
    /\ \E c \in cases : \E w \in c.wits, x \in c.ctxs :
          case = [name |-> c.name, prog |-> c.prog, wit |-> w, ctx |-> x]
    /\ pc = 1 /\ exec = <<>> /\ sigops = 0
    /\ stack = IF Admitted(case) THEN case.wit ELSE <<>>
    /\ verdict = IF Admitted(case) THEN "run" ELSE "rejected"

AllTrue(flags) == \A i \in DOMAIN flags : flags[i]
Executing == AllTrue(exec)
Ins == case.prog[pc]
Running == verdict = "run" /\ pc <= Len(case.prog)

\* Mutant: a conditional inside a skipped branch is not opened.
Entered_flat == exec
\* A conditional inside a skipped branch is opened, its condition unread.
Entered == Append(exec, FALSE)
If ==
    /\ Running /\ Ins.op = "IF"
    /\ IF ~Executing THEN exec' = Entered /\ UNCHANGED <<stack, verdict>>
       ELSE IF stack = <<>> \/ Len(exec) >= MaxDepth
       THEN verdict' = "error" /\ UNCHANGED <<stack, exec>>
       ELSE /\ exec' = Append(exec, is_true(Last(stack)))
            /\ stack' = Front(stack)
            /\ UNCHANGED verdict
    /\ pc' = pc + 1
    /\ UNCHANGED <<case, sigops>>

\* Only in a branch that runs does ELSE switch sides.
Flipped == IF AllTrue(Front(exec)) THEN [exec EXCEPT ![Len(exec)] = ~@] ELSE exec
ElseEndif ==
    /\ Running /\ Ins.op \in {"ELSE", "ENDIF"}
    /\ IF exec = <<>> THEN verdict' = "unbalanced" /\ UNCHANGED exec
       ELSE exec' = (IF Ins.op = "ELSE" THEN Flipped ELSE Front(exec)) /\ UNCHANGED verdict
    /\ pc' = pc + 1
    /\ UNCHANGED <<case, stack, sigops>>

IsSigop == Ins.op \in {"CHECKSIG", "CHECKSIGVERIFY"}
TooDeep(s) == Len(s) > MaxDepth
Execute ==
    /\ Running /\ Ins.op \notin {"IF", "ELSE", "ENDIF"} /\ Executing
    /\ sigops' = IF IsSigop THEN sigops + 1 ELSE sigops
    /\ LET s == After(Ins, stack, case.ctx) IN
       IF (IsSigop /\ sigops >= MaxSigops) \/ s = Fail \/ TooDeep(s)
       THEN verdict' = "error" /\ UNCHANGED stack
       ELSE stack' = s /\ UNCHANGED verdict
    /\ pc' = pc + 1
    /\ UNCHANGED <<case, exec>>

Skip ==
    /\ Running /\ Ins.op \notin {"IF", "ELSE", "ENDIF"} /\ ~Executing
    /\ pc' = pc + 1
    /\ UNCHANGED <<case, stack, exec, sigops, verdict>>

\* Exactly one item must be left, the number one.
Finish ==
    /\ verdict = "run" /\ pc > Len(case.prog)
    /\ verdict' = IF stack = <<True>> THEN "ok" ELSE "error"
    /\ UNCHANGED <<case, pc, stack, exec, sigops>>

Next == If \/ ElseEndif \/ Execute \/ Skip \/ Finish
Spec(cases) == Init(cases) /\ [][Next]_vars

-----------------------------------------------------------------------------
(* Script builders *)

compile_p2pk(pk) == <<push(Key(pk)), Op("CHECKSIGVERIFY"), push_int(1)>>

\* The refund branch the hash-locked scripts share.
Refund(timeout, pk) ==
    <<Op("DROP"), push_int(timeout), Op("CHECKTIMEVERIFY"), push(Key(pk)), Op("CHECKSIGVERIFY")>>
HashLock(h) == <<Op("HASH"), push(h), Op("EQUALVERIFY")>>
Branches(claim, refund) == <<Op("IF")>> \o claim \o <<Op("ELSE")>> \o refund \o <<Op("ENDIF"), push_int(1)>>

compile_htlc(h, receiver, timeout, refund) ==
    Branches(HashLock(h) \o <<push(Key(receiver)), Op("CHECKSIGVERIFY")>>, Refund(timeout, refund))

compile_covenant_htlc(h, receiver, payout, timeout, refund) ==
    Branches(HashLock(h) \o <<push(receiver), Op("SUM_TO_ADDR"), push_int(payout),
                              Op("GREATER_OR_EQUAL"), Op("VERIFY")>>,
             Refund(timeout, refund))

compile_limit_order_covenant(h, claim, timeout, refund) ==
    Branches(HashLock(h) \o <<Op("THIS_ADDRESS"), Op("SUM_TO_ADDR"), push_int(claim), Op("ADD"),
                              Op("INPUT_VALUE"), Op("GREATER_OR_EQUAL"), Op("VERIFY")>>,
             Refund(timeout, refund))

compile_multisig_2of2(pk1, pk2) ==
    <<push(Key(pk2)), Op("CHECKSIG"), Op("SWAP"), push(Key(pk1)), Op("CHECKSIG"), Op("ADD"),
      push_int(2), Op("GREATER_OR_EQUAL")>>

compile_multisig_2of3(pk1, pk2, pk3) ==
    <<push(Key(pk3)), Op("CHECKSIG"), Op("SWAP"), push(Key(pk2)), Op("CHECKSIG"), Op("ADD"),
      Op("SWAP"), push(Key(pk1)), Op("CHECKSIG"), Op("ADD"), push_int(2), Op("GREATER_OR_EQUAL")>>

\* The funding covenant of a payment channel (core/channel.rs).
covenant_bytes(sender, receiver, expiry) ==
    <<Op("IF"), push(Key(receiver)), Op("CHECKSIG"), Op("SWAP"), push(Key(sender)), Op("CHECKSIG"),
      Op("ADD"), push_int(2), Op("GREATER_OR_EQUAL"), Op("VERIFY"),
      Op("ELSE"), push_int(expiry), Op("CHECKTIMEVERIFY"), push(Key(sender)), Op("CHECKSIGVERIFY"),
      Op("ENDIF"), push_int(1)>>

-----------------------------------------------------------------------------
(* Who may spend, told without the machine *)

Timeout == 2
Payout == 4
Claimed(w, n) == Len(w) = n /\ is_true(w[n]) /\ w[n - 1] = Secret("s")
Refunded(w, ctx) == Len(w) = 3 /\ ~is_true(w[3]) /\ w[1] = Sig("b") /\ ctx.height >= Timeout
PaidTo(addr, ctx) == SumTo(addr, ctx.outputs)
Signers(w, keys) == Cardinality({i \in DOMAIN keys : w[i] = Sig(keys[i])})

MaySpend(c) ==
    LET w == c.wit
        ctx == c.ctx IN
    CASE c.name = "p2pk" -> w = <<Sig("a")>>
      [] c.name = "htlc" -> (Claimed(w, 3) /\ w[1] = Sig("a")) \/ Refunded(w, ctx)
      [] c.name = "covenant" ->
            (Claimed(w, 2) /\ PaidTo(Addr("buyer"), ctx) \in Payout..IntMax) \/ Refunded(w, ctx)
      [] c.name = "order" ->
            \/ Claimed(w, 2) /\ PaidTo(Addr("self"), ctx) + Payout \in ctx.value..IntMax
            \/ Refunded(w, ctx)
      [] c.name = "2of2" -> Len(w) = 2 /\ Signers(w, <<"a", "b">>) = 2
      [] c.name = "2of3" -> Len(w) = 3 /\ Signers(w, <<"a", "b", "c">>) >= 2
      [] c.name = "channel" ->
            \/ Len(w) = 3 /\ is_true(w[3]) /\ Signers(w, <<"a", "b">>) = 2
            \/ Len(w) = 2 /\ ~is_true(w[2]) /\ w[1] = Sig("a") /\ ctx.height >= Timeout
      [] OTHER -> TRUE

-----------------------------------------------------------------------------
(* Properties *)

\* The machine stays within its limits.
TypeOK ==
    /\ pc \in 1..(Len(case.prog) + 1)
    /\ Len(stack) <= MaxDepth /\ exec \in Seq(BOOLEAN) /\ sigops <= MaxSigops + 1
    /\ \A i \in DOMAIN stack : ItemSize(stack[i]) <= MaxItem
    /\ verdict \in {"run", "ok", "error", "rejected", "unbalanced"}

\* A wallet's script is satisfied by exactly the spends it was written for,
\* whatever items the witness holds: the holder of the secret with the right
\* key or payout, the refund key from the timeout on, two of the signers.
SpentAsMeant ==
    verdict \in {"ok", "error"} /\ case.name # "any" => (verdict = "ok") = MaySpend(case)

\* A program that passed validation never meets an unmatched ELSE or ENDIF
\* when it runs, and ends with every conditional closed.
ConditionalsClosed ==
    /\ verdict # "unbalanced"
    /\ verdict = "ok" => exec = <<>>

\* An instruction runs exactly when every conditional around it took the
\* branch the instruction is in: the value tested, switched by each ELSE
\* since, counts once per conditional, however they nest.
BranchOf(i) ==
    \* the ELSEs between a conditional and pc that belong to it
    Cardinality({j \in (i + 1)..(pc - 1) :
        case.prog[j].op = "ELSE" /\ Depth(case.prog, j) = Depth(case.prog, i)
        /\ \A k \in i..j : Depth(case.prog, k) >= Depth(case.prog, i)})
OpenIfs ==
    {i \in 1..(pc - 1) : case.prog[i].op = "IF"
        /\ \A k \in i..(pc - 1) : Depth(case.prog, k) >= Depth(case.prog, i)}
\* In the generated programs every IF follows the push of its condition.
Condition(i) == i > 1 /\ case.prog[i - 1].op = "PUSH" /\ is_true(case.prog[i - 1].item)
RunsItsBranch ==
    case.name = "any" /\ verdict = "run" /\ (\A i \in OpenIfs : i > 1 /\ case.prog[i - 1].op = "PUSH") =>
        (Executing <=> \A i \in OpenIfs : Condition(i) = (BranchOf(i) % 2 = 0))
=============================================================================
