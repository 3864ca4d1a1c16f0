------------------------------ MODULE ExprRun ------------------------------
(***************************************************************************)
(* The code of a statement (ExprGen) is executed, for every value of the   *)
(* variables of type bool, and must do what ExprSem says.                  *)
(*                                                                         *)
(* Memory holds the objects that are constructed and not yet destroyed.    *)
(* An address is a sequence: an alloca, a variable, a cell of the heap, or *)
(* one of these with the index of a field.  A structure is its fields; a   *)
(* class with functions has a mark of its own.  Arrays and captures are    *)
(* blocks of the heap; what the reference counts of RefPtr and             *)
(* ClosureRuntime do is said here with their outcome: a block goes away    *)
(* with the last array or closure that holds it.                           *)
(***************************************************************************)
EXTENDS ExprGen, FiniteSets

LOCAL INSTANCE Bitwise

CONSTANT Programs   \* statements

VARIABLES
  prog,   \* the statement, with the values that the variables have before
  code,   \* the blocks
  at,     \* <<block, position>> of the next instruction
  came,   \* the block before the current one
  regs,   \* registers
  mem,    \* the objects by their addresses
  log     \* the calls that were made
vars == <<prog, code, at, came, regs, mem, log>>

Sem == INSTANCE ExprSem
-----------------------------------------------------------------------------
(* Objects *)
Null == <<"null">>
Within(t) == CASE t = "pair" -> {<<1>>, <<2>>}
                 [] t = "nat" -> {<<>>, <<1>>}
                 [] t = "pod" -> {<<1>>}
                 [] OTHER -> {<<>>}
Parts(t, a) == {a \o x : x \in Within(t)}
Holds(v, id) == v[1] \in {"arr", "clo", "caps"} /\ v[Len(v)] = id
Held(m, id) == \E a \in DOMAIN m : Holds(m[a], id)
Without(m, as) == [a \in DOMAIN m \ as |-> m[a]]

(* Blocks that nothing holds any more go away, and what they hold. *)
RECURSIVE Collect(_)
Collect(m) ==
  LET dead == {a \in DOMAIN m : a[1] = "heap" /\ ~ Held(m, a[2])}
  IN IF dead = {} THEN m ELSE Collect(Without(m, dead))

Num(t, v) == <<"n", Encode(t, v)>>
Numbers(v, id) == [c \in {<<"heap", id, i>> : i \in DOMAIN v} |-> Num("sint", v[c[3]])]
BuildArr(a, v, id) == (a :> <<"arr", IF v = <<>> THEN Null ELSE id>>) @@ Numbers(v, id)
(* An object with a value, and a block for its elements or captures, which *)
(* are numbers.                                                            *)
Build(t, a, v, id) ==
  CASE t = "void" -> <<>>
    [] t \in Btn \ {"void"} -> a :> Num(t, v)
    [] t = "arr" -> BuildArr(a, v, id)
    [] t = "clo" -> (a :> <<"clo", v[1], IF v[2] = <<>> THEN Null ELSE id>>) @@ Numbers(v[2], id)
    [] t = "pair" -> (Append(a, 2) :> Num("sint", v[2])) @@ BuildArr(Append(a, 1), v[1], id)
    [] t = "nat" -> (a :> <<"usr">>) @@ (Append(a, 1) :> Num("sint", v[1]))
    [] t = "pod" -> Append(a, 1) :> Num("sint", v[1])

(* The value of an object. *)
RECURSIVE Deep(_, _, _)
Cells(m, id) == {a \in DOMAIN m : a[1] = "heap" /\ a[2] = id}
CapturesOf(f, id, m) ==
  IF f \notin DOMAIN Lambdas THEN <<>>
  ELSE [i \in DOMAIN Lambdas[f] |-> Deep(Vars[Lambdas[f][i]].t, <<"heap", id, i>>, m)]
Deep(t, a, m) ==
  CASE t \in Btn -> Decode(t, m[a][2])
    [] t = "arr" ->
         [i \in 1..Cardinality(Cells(m, m[a][2])) |-> Decode("sint", m[<<"heap", m[a][2], i>>][2])]
    [] t = "clo" -> <<m[a][2], CapturesOf(m[a][2], m[a][3], m)>>
    [] t = "pair" -> <<Deep("arr", Append(a, 1), m), Deep("sint", Append(a, 2), m)>>
    [] t \in User -> <<Deep("sint", Append(a, 1), m)>>

Copied(t, dst, src, m) ==
  [a \in Parts(t, dst) |-> m[src \o SubSeq(a, Len(dst) + 1, Len(a))]] @@ m
Emptied(v) == CASE v[1] = "arr" -> <<"arr", Null>>
                [] v[1] = "clo" -> <<"clo", "stub", Null>>
                [] OTHER -> v
Moved(t, dst, src, m) ==
  [a \in Parts(t, src) |-> Emptied(m[a])] @@ Copied(t, dst, src, m)
-----------------------------------------------------------------------------
Here == code[at[1]][at[2]]
Operand(o) == CASE o[1] = "const" -> o[2]
                [] o[1] = "reg" -> regs[o[2]]
                [] OTHER -> o
A(i) == Operand(Here.args[i])
N(i) == A(i)[2]
Block(k, x) == <<k, at, x>>

Alive(t, a) == Parts(t, a) \subseteq DOMAIN mem
InBlock(a) == a[1] = "heap" => Held(mem, a[2])
Vacant(t, a) == InBlock(a) /\ (Trivial(t) \/ Parts(t, a) \intersect DOMAIN mem = {})

(* The arguments of a call. *)
Callee == N(1)
Params == Funcs[Callee].params
ByAddress(p) == p.ref \/ ~ Copyable(p.t)
Caller == IF A(2) = Nil THEN <<>> ELSE CapturesOf(Callee, N(2), mem)
ArgValue(i) ==
  IF ByAddress(Params[i]) THEN Deep(Params[i].t, A(i + 2), mem) ELSE Decode(Params[i].t, N(i + 2))
CallReady ==
  /\ A(2) # Nil => N(2) = Null \/ Held(mem, N(2))
  /\ \A i \in DOMAIN Params : ByAddress(Params[i]) => Alive(Params[i].t, A(i + 2))
  /\ ~ Copyable(Here.t) => Vacant(Here.t, A(Len(Here.args)))

(* What the instruction reads is there, and where it constructs an object  *)
(* there is none.                                                          *)
Ready ==
  CASE Here.op = "load" -> A(1) \in DOMAIN mem
    [] Here.op = "store" -> InBlock(A(2))
    [] Here.op \in {"def", "arr_of", "arr_len_ctor", "clo_fun_ctor", "clo_lam_ctor"} -> Vacant(Here.t, A(1))
    [] Here.op \in {"copy", "move"} -> Vacant(Here.t, A(1)) /\ Alive(Here.t, A(2))
    [] Here.op \in {"copy_asgn", "move_asgn", "obj_eq", "obj_lt"} -> Alive(Here.t, A(1)) /\ Alive(Here.t, A(2))
    [] Here.op \in {"drop", "conv", "clo_fun", "clo_dat"} -> Alive(Here.t, A(1))
    [] Here.op \in {"idx_s", "idx_u"} ->
         A(1) \in DOMAIN mem /\ <<"heap", mem[A(1)][2], N(2) + 1>> \in DOMAIN mem
    [] Here.op = "call" -> CallReady
    [] Here.op = "phi" -> came \in {Here.args[2], Here.args[4]}
    [] OTHER -> TRUE

(* The operators on the bits of numbers. *)
SignedQuot(a, b) == IF a < 0 THEN (IF b < 0 THEN (-a) \div (-b) ELSE -((-a) \div b))
                    ELSE (IF b < 0 THEN -(a \div (-b)) ELSE a \div b)
Arithmetic(op, t, x, y) ==
  CASE op = "add" -> Encode(t, x + y)
    [] op = "sub" -> Encode(t, x - y)
    [] op = "mul" -> Encode(t, x * y)
    [] op = "sdiv" -> Encode(t, SignedQuot(Decode(t, x), Decode(t, y)))
    [] op \in {"udiv", "fdiv"} -> SignedQuot(x, y)
    [] op = "srem" -> Encode(t, Decode(t, x) - Decode(t, y) * SignedQuot(Decode(t, x), Decode(t, y)))
    [] op \in {"urem", "frem"} -> x - y * SignedQuot(x, y)
    [] op = "bit_or" -> x | y
    [] op = "bit_and" -> x & y
    [] op = "bit_xor" -> x ^^ y
    [] op = "bit_shl" -> Encode(t, x * 2^y)
    [] op = "bit_shr" -> x \div 2^y
    [] op \in {"icmp_eq", "fcmp_eq"} -> BoolInt(x = y)
    [] op = "icmp_slt" -> BoolInt(Decode(t, x) < Decode(t, y))
    [] op \in {"icmp_ult", "fcmp_lt"} -> BoolInt(x < y)
BinaryOps == {"add", "sub", "mul", "sdiv", "udiv", "fdiv", "srem", "urem", "frem", "bit_or", "bit_and",
              "bit_xor", "bit_shl", "bit_shr", "icmp_eq", "fcmp_eq", "icmp_slt", "icmp_ult", "fcmp_lt"}
CastOps == {"int_cast_s", "int_cast_u", "si_to_fp", "ui_to_fp", "fp_to_si", "fp_to_ui", "fp_cast"}
Casted(op, t, of, x) ==
  CASE op = "int_cast_s" -> Encode(t, Decode(of, x))
    [] op = "int_cast_u" -> Encode(t, x)
    [] op = "si_to_fp" -> Decode(of, x)
    [] op \in {"ui_to_fp", "fp_cast"} -> x
    [] op \in {"fp_to_si", "fp_to_ui"} -> Encode(t, x)

(* The value that the instruction computes. *)
Computed ==
  CASE Here.op = "load" -> mem[A(1)]
    [] Here.op = "field" -> Append(A(1), Here.args[2])
    [] Here.op \in {"idx_s", "idx_u"} -> <<"heap", mem[A(1)][2], N(2) + 1>>
    [] Here.op \in {"arr_len_ctor", "alloc"} -> <<"heap", Block("new", "new")>>
    [] Here.op = "clo_fun" -> <<"fun", mem[A(1)][2]>>
    [] Here.op = "clo_dat" -> <<"dat", mem[A(1)][3]>>
    [] Here.op = "conv" -> <<"n", BoolInt(Sem!Truth(Here.t, Deep(Here.t, A(1), mem)))>>
    [] Here.op = "obj_eq" -> <<"n", BoolInt(Deep(Here.t, A(1), mem) = Deep(Here.t, A(2), mem))>>
    [] Here.op = "obj_lt" -> <<"n", BoolInt(Less(Here.t, Deep(Here.t, A(1), mem), Deep(Here.t, A(2), mem)))>>
    [] Here.op = "not" -> <<"n", 1 - N(1)>>
    [] Here.op = "neg" -> Num(Here.t, -N(1))
    [] Here.op = "bit_not" -> Num(Here.t, -1 - N(1))
    [] Here.op = "phi" -> IF came = Here.args[2] THEN A(1) ELSE A(3)
    [] Here.op = "call" -> IF Here.t = "void" THEN Nil ELSE Num(Here.t, Funcs[Callee].result)
    [] Here.op \in BinaryOps -> <<"n", Arithmetic(Here.op, Here.t, N(1), N(2))>>
    [] Here.op \in CastOps -> <<"n", Casted(Here.op, Here.t, Here.of, N(1))>>

(* A call changes what it has references to, sets the variables that the   *)
(* function assigns and constructs the object that it returns.             *)
WithRefs(m) ==
  FoldLeftDomain(LAMBDA n, i : IF ~ Params[i].ref THEN n
                               ELSE Build(Params[i].t, A(i + 2), Changed(Params[i].t, ArgValue(i)), Block("ref", i)) @@ n,
                 m, Params)
WithSets(sets, m) ==
  FoldSet(LAMBDA x, n : Build(Vars[x].t, <<"var", x>>, sets[x], Block("set", x)) @@ n, m, DOMAIN sets)
WithResult(m) ==
  IF Copyable(Here.t) THEN m
  ELSE Build(Here.t, A(Len(Here.args)), Funcs[Callee].result, Block("new", "new")) @@ m

After ==
  CASE Here.op = "store" -> (A(2) :> A(1)) @@ mem
    [] Here.op = "def" -> Build(Here.t, A(1), Default(Here.t), Null) @@ mem
    [] Here.op = "arr_of" -> BuildArr(A(1), Here.args[2], Block("new", "new")) @@ mem
    [] Here.op = "arr_len_ctor" -> (A(1) :> <<"arr", Block("new", "new")>>) @@ mem
    [] Here.op = "alloc" -> (<<"caps", Block("new", "new")>> :> <<"caps", Block("new", "new")>>) @@ mem
    [] Here.op = "clo_fun_ctor" -> (A(1) :> <<"clo", N(2), Null>>) @@ mem
    [] Here.op = "clo_lam_ctor" -> (A(1) :> <<"clo", N(2), N(3)>>) @@ Without(mem, {<<"caps", N(3)>>})
    [] Here.op = "copy" -> Copied(Here.t, A(1), A(2), mem)
    [] Here.op = "move" -> Moved(Here.t, A(1), A(2), mem)
    [] Here.op = "copy_asgn" -> Collect(Copied(Here.t, A(1), A(2), mem))
    [] Here.op = "move_asgn" -> Collect(Moved(Here.t, A(1), A(2), mem))
    [] Here.op = "drop" -> Collect(Without(mem, Parts(Here.t, A(1))))
    [] Here.op = "call" -> Collect(WithResult(WithSets(Funcs[Callee].sets, WithRefs(mem))))
    [] OTHER -> mem
-----------------------------------------------------------------------------
BoolVars == {x \in DOMAIN Vars : Vars[x].t = "bool"}
Store0(bools) == [x \in DOMAIN Vars |-> IF x \in BoolVars THEN bools[x] ELSE Vars[x].v]
Mem0(store) ==
  FoldSet(LAMBDA x, m : Build(Vars[x].t, <<"var", x>>, store[x], <<"initial", x>>) @@ m,
          <<>>, DOMAIN Vars)

Init == \E s \in Programs, bools \in [BoolVars -> {0, 1}] :
  /\ prog = [stat |-> s, store |-> Store0(bools)]
  /\ code = Generate(s)
  /\ at = <<1, 1>>
  /\ came = 0
  /\ regs = <<>>
  /\ mem = Mem0(Store0(bools))
  /\ log = <<>>

Jumps == {"br", "condbr", "end"}
Goto(block) == at' = <<block, 1>> /\ came' = at[1]

(* Any instruction that is not a jump. *)
Execute ==
  /\ Here.op \notin Jumps /\ Ready
  /\ at' = <<at[1], at[2] + 1>>
  /\ regs' = IF Here.reg = 0 THEN regs ELSE (Here.reg :> Computed) @@ regs
  /\ mem' = After
  /\ log' = IF Here.op = "call" THEN Append(log, <<Callee, Caller, [i \in DOMAIN Params |-> ArgValue(i)]>>) ELSE log
  /\ UNCHANGED <<prog, code, came>>

Jump ==
  /\ Here.op = "br"
  /\ Goto(Here.args[1])
  /\ UNCHANGED <<prog, code, regs, mem, log>>

Branch ==
  /\ Here.op = "condbr"
  /\ Goto(IF N(1) = 1 THEN Here.args[2] ELSE Here.args[3])
  /\ UNCHANGED <<prog, code, regs, mem, log>>

Next == Execute \/ Jump \/ Branch

Spec == Init /\ [][Next]_vars
-----------------------------------------------------------------------------
(* Every instruction finds the objects that it reads, assigns or destroys, *)
(* and none where it constructs one: no object is used before it is made   *)
(* or after it is destroyed, destroyed twice or made twice.                *)
ObjectsReady == Here.op \notin Jumps => Ready

Done == Here.op = "end"
Meaning == Sem!Run(prog.stat, [store |-> prog.store, log |-> <<>>])
MadeHere ==
  CASE prog.stat.k \in {"var", "global"} -> Deep(prog.stat.t, <<"var", "new">>, mem)
    [] prog.stat.k = "cond" -> N(1)
    [] prog.stat.k = "return" ->
         IF Copyable(prog.stat.t) THEN Decode(prog.stat.t, N(1)) ELSE Deep(prog.stat.t, <<"var", "new">>, mem)
    [] OTHER -> Sem!NoValue
Remaining == {x \in DOMAIN Vars : prog.stat.k = "return" => Vars[x].at = "outer"}

(* When the code of a statement ends it has made the value and the calls   *)
(* that the statement means, in this order and with these arguments, and   *)
(* left the variables with the values that they should have: an operand is *)
(* evaluated once if it is and not at all if another decides, moves take   *)
(* nothing from what lives on.                                             *)
Evaluates ==
  Done => LET m == Meaning IN
    /\ MadeHere = m.made
    /\ log = m.s.log
    /\ \A x \in Remaining : Deep(Vars[x].t, <<"var", x>>, mem) = m.s.store[x]

(* And the objects that are left are the variables and the object that was *)
(* made: every temporary, argument and operand has been destroyed.         *)
Roots == {a \in DOMAIN mem : mem[a][1] \in {"arr", "clo", "usr", "caps"} /\ a[1] # "heap"}
Owned(x, t) == Parts(t, <<"var", x>>)
AllDestroyed ==
  Done => Roots \subseteq
            UNION {Owned(x, Vars[x].t) : x \in {y \in DOMAIN Vars : prog.stat.k = "return" => Vars[y].at # "local"}}
              \union Owned("new", prog.stat.t)

(* What llvm::verifyModule asks of the blocks: they end in their only      *)
(* terminator, and a phi has a value for each block that leads to it.      *)
Targets(i) == CASE i.op = "br" -> {i.args[1]}
                [] i.op = "condbr" -> {i.args[2], i.args[3]}
                [] OTHER -> {}
Verified ==
  \A b \in DOMAIN code :
    /\ code[b] # <<>>
    /\ \A i \in DOMAIN code[b] : code[b][i].op \in Jumps <=> i = Len(code[b])
    /\ \A i \in DOMAIN code[b] : code[b][i].op = "phi" =>
         {code[b][i].args[2], code[b][i].args[4]} =
           {c \in DOMAIN code : \E j \in DOMAIN code[c] : b \in Targets(code[c][j])}
=============================================================================
