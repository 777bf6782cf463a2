------------------------- MODULE ProtoManagerProofs -------------------------
(***************************************************************************)
(* Proofs about remote calls between two proto_managers.                   *)
(*                                                                         *)
(* Whatever is added, updated and called on either side, failed loads      *)
(* included, the tables of protocols stay sound and calls arrive.          *)
(***************************************************************************)
EXTENDS ProtoManager, ArgFormatsProofs

\* Leaves are for Zenon; the ones with arithmetic or functions cite SMT.
USE WordAssumption, ZenonT(30)

-----------------------------------------------------------------------------
(* The tables of protocols.                                                *)

\* load() gets through the file, on the side of a caller at least.
Complete(file) ==
    file.path # "bad" /\ file.loads /\ file.listed /\ GoodArgs(file.args) = file.args

\* An object that load() has filled: a caller's has all arguments of a complete file.
ObjSound(s, o) ==
    o.file # NoFile =>
        /\ o.id < MaxProtos
        /\ o.maker = (o.file.path # "bad" /\ IsMaker(s, o.file))
        /\ ~o.maker /\ Complete(o.file) => o.args = o.file.args

\* What load() of a file leaves: an object of the right shape, complete if it succeeded.
Loaded(s, id, file, l) ==
    /\ l.obj \in Objects /\ l.obj.live /\ l.obj.id = id /\ l.obj.file = file
    /\ ObjSound(s, l.obj)
    /\ l.ok => /\ file # NoFile /\ Complete(file)
               /\ l.obj.args = file.args /\ (l.obj.maker => l.obj.ref)

(* net_protocol::load, on either side and for any file.                    *)
LEMMA LoadResult ==
    ASSUME NEW s \in Side, NEW id \in 0..(MaxProtos - 1), NEW file \in Files
    PROVE  Loaded(s, id, file, Load(s, id, file))
<1> DEFINE l == Load(s, id, file)
           begun == file.path # "bad" /\ file.loads
           bound == begun /\ FuncProc(s, file)
           maker == file.path # "bad" /\ IsMaker(s, file)
           listed == bound /\ file.listed
           args == IF listed THEN GoodArgs(file.args) ELSE <<>>
           o == [live |-> TRUE, id |-> id, file |-> file, maker |-> maker,
                 ref |-> bound /\ maker, args |-> args]
<1>1. l.obj = o /\ l.ok = (listed /\ GoodArgs(file.args) = file.args)
  BY DEF Load
<1>2. begun \in BOOLEAN /\ maker \in BOOLEAN /\ bound \in BOOLEAN /\ listed \in BOOLEAN
  BY ManagerAssumption DEF FuncProc, IsMaker
<1>3. args \in {NoFile.args} \cup {GoodArgs(f.args) : f \in Files}
  <2> HIDE DEF listed
  <2>1. CASE listed
    BY <2>1
  <2>2. CASE ~listed
    BY <2>2 DEF NoFile
  <2>3. QED
    BY <2>1, <2>2
<1>4. listed => file # NoFile
  <2>1. NoFile.path = "bad"
    BY DEF NoFile
  <2>2. listed => file.path # "bad"
    OBVIOUS
  <2>3. QED
    BY <2>1, <2>2
<1>5. listed => bound
  OBVIOUS
<1> HIDE DEF begun, bound, maker, listed, l
<1>6. o \in Objects
  <2> HIDE DEF args
  <2>1. (bound /\ maker) \in BOOLEAN
    BY <1>2
  <2>2. id \in 0..MaxProtos
    BY ManagerAssumption, SMTT(30)
  <2>3. QED
    BY <1>2, <1>3, <2>1, <2>2 DEF Objects
<1>7. l.ok => /\ file # NoFile /\ Complete(file) /\ o.args = file.args
              /\ (o.maker => o.ref)
  <2>1. SUFFICES ASSUME l.ok
                 PROVE  file # NoFile /\ Complete(file) /\ o.args = file.args /\ (o.maker => o.ref)
    OBVIOUS
  <2>2. listed /\ GoodArgs(file.args) = file.args
    BY <1>1, <2>1
  <2>3. Complete(file)
    BY <2>2 DEF Complete, listed, bound, begun
  <2>4. QED
    BY <1>4, <1>5, <2>2, <2>3
<1>8. ObjSound(s, o)
  <2>1. id < MaxProtos
    BY ManagerAssumption, SMTT(30)
  <2>2. ~maker /\ Complete(file) => listed /\ GoodArgs(file.args) = file.args
    BY DEF Complete, FuncProc, maker, listed, bound, begun
  <2>3. ~maker /\ Complete(file) => o.args = file.args
    BY <2>2
  <2>4. QED
    BY <2>1, <2>3 DEF ObjSound, maker
<1>9. QED
  BY <1>1, <1>6, <1>7, <1>8, SMTT(30) DEF Loaded, l

\* The table of one side is sound: RegistrySound, for a table t of objects o.
SoundTable(t, o) ==
    \A i \in 1..Len(t) :
        /\ o[t[i]].live /\ o[t[i]].id = i - 1
        /\ o[t[i]].file # NoFile => /\ o[t[i]].args = o[t[i]].file.args
                                    /\ Complete(o[t[i]].file)
                                    /\ o[t[i]].maker => o[t[i]].ref
        /\ i > 1 => o[t[i]].file # NoFile
        /\ \A j \in 1..Len(t) : t[i] = t[j] => i = j

(* A new object and what is left of a deleted one.                         *)
LEMMA EmptyObjects ==
    /\ Fresh(0) \in Objects /\ Deleted \in Objects
    /\ Fresh(0).file = NoFile /\ Deleted.file = NoFile
<1>1. NoFile.args = <<>>
  BY DEF NoFile
<1>2. Fresh(0) \in Objects
  BY <1>1, ManagerAssumption, SMTT(30) DEF Fresh, Objects
<1>3. Deleted \in Objects
  BY <1>2 DEF Deleted, Objects
<1>4. Fresh(0).file = NoFile /\ Deleted.file = NoFile
  BY DEF Fresh, Deleted
<1>5. QED
  BY <1>2, <1>3, <1>4

(* Objects that are not in a table may change under it.                    *)
LEMMA TableKept ==
    ASSUME NEW t \in Seq(Addr), NEW o, NEW r, SoundTable(t, o),
           \A i \in 1..Len(t) : r[t[i]] = o[t[i]]
    PROVE  SoundTable(t, r)
  BY DEF SoundTable

\* An object that may stand for the protocol of an id.
FitFor(x, id) ==
    /\ x.live /\ x.id = id /\ x.file # NoFile /\ Complete(x.file)
    /\ x.args = x.file.args /\ (x.maker => x.ref)

(* add_protocol: a new object, from memory that was free, is the last one. *)
LEMMA TableExtended ==
    ASSUME NEW t \in Seq(Addr), NEW o \in [Addr -> Objects], SoundTable(t, o),
           NEW a \in Addr, ~o[a].live, NEW x, FitFor(x, Len(t))
    PROVE  SoundTable(Append(t, a), [o EXCEPT ![a] = x])
<1> DEFINE u == Append(t, a)
           r == [o EXCEPT ![a] = x]
<1>1. /\ Len(t) \in Nat /\ Len(u) = Len(t) + 1 /\ u[Len(t) + 1] = a
      /\ \A i \in 1..Len(t) : u[i] = t[i] /\ t[i] \in Addr
  BY SMTT(30)
<1>2. \A i \in 1..Len(t) : t[i] # a /\ r[t[i]] = o[t[i]]
  BY <1>1 DEF SoundTable
<1>3. r[a] = x
  OBVIOUS
<1> HIDE DEF u, r
<1>4. SUFFICES ASSUME NEW i \in 1..Len(u)
               PROVE  /\ r[u[i]].live /\ r[u[i]].id = i - 1
                      /\ r[u[i]].file # NoFile => /\ r[u[i]].args = r[u[i]].file.args
                                                  /\ Complete(r[u[i]].file)
                                                  /\ r[u[i]].maker => r[u[i]].ref
                      /\ i > 1 => r[u[i]].file # NoFile
                      /\ \A j \in 1..Len(u) : u[i] = u[j] => i = j
  BY DEF SoundTable, u, r
<1>5. CASE i = Len(t) + 1
  <2>1. r[u[i]] = x /\ u[i] = a
    BY <1>1, <1>3, <1>5
  <2>2. \A j \in 1..Len(u) : u[i] = u[j] => i = j
    BY <1>1, <1>2, <1>5, <2>1, SMTT(30)
  <2>3. i - 1 = Len(t)
    BY <1>1, <1>5, SMTT(30)
  <2>4. QED
    BY <2>1, <2>2, <2>3 DEF FitFor
<1>6. CASE i # Len(t) + 1
  <2>1. i \in 1..Len(t)
    BY <1>1, <1>6, SMTT(30)
  <2>2. r[u[i]] = o[t[i]] /\ u[i] = t[i] /\ t[i] # a
    BY <1>1, <1>2, <2>1
  <2>3. \A j \in 1..Len(u) : u[i] = u[j] => i = j
    <3>1. SUFFICES ASSUME NEW j \in 1..Len(u), u[i] = u[j] PROVE i = j
      OBVIOUS
    <3>2. j \in 1..Len(t)
      BY <1>1, <2>2, <3>1, SMTT(30)
    <3>3. t[i] = t[j]
      BY <1>1, <2>2, <3>1, <3>2
    <3>4. QED
      BY <2>1, <3>2, <3>3 DEF SoundTable
  <2>4. QED
    BY <2>1, <2>2, <2>3 DEF SoundTable
<1>7. QED
  BY <1>5, <1>6

(* update_protocol: a new object takes the place of the one that is        *)
(* deleted.                                                                *)
LEMMA TableReplaced ==
    ASSUME NEW t \in Seq(Addr), NEW o \in [Addr -> Objects], SoundTable(t, o),
           NEW a \in Addr, ~o[a].live, NEW n \in 1..Len(t), NEW x, FitFor(x, n - 1)
    PROVE  SoundTable([t EXCEPT ![n] = a], [o EXCEPT ![a] = x, ![t[n]] = Deleted])
<1> DEFINE u == [t EXCEPT ![n] = a]
           old == t[n]
           r == [o EXCEPT ![a] = x, ![old] = Deleted]
<1>1. /\ Len(t) \in Nat /\ Len(u) = Len(t) /\ u[n] = a
      /\ \A i \in 1..Len(t) : t[i] \in Addr /\ (i # n => u[i] = t[i])
  BY SMTT(30)
<1>2. \A i \in 1..Len(t) : t[i] # a /\ (i # n => t[i] # old)
  <2>1. \A i \in 1..Len(t) : o[t[i]].live /\ \A j \in 1..Len(t) : t[i] = t[j] => i = j
    BY DEF SoundTable
  <2>2. QED
    BY <2>1
<1>3. r[a] = x
  BY <1>2
<1>4. \A i \in 1..Len(t) : i # n => r[t[i]] = o[t[i]]
  BY <1>1, <1>2
<1> HIDE DEF u, r, old
<1>5. SUFFICES ASSUME NEW i \in 1..Len(u)
               PROVE  /\ r[u[i]].live /\ r[u[i]].id = i - 1
                      /\ r[u[i]].file # NoFile => /\ r[u[i]].args = r[u[i]].file.args
                                                  /\ Complete(r[u[i]].file)
                                                  /\ r[u[i]].maker => r[u[i]].ref
                      /\ i > 1 => r[u[i]].file # NoFile
                      /\ \A j \in 1..Len(u) : u[i] = u[j] => i = j
  BY DEF SoundTable, u, r, old
<1>6. i \in 1..Len(t)
  BY <1>1
<1>7. CASE i = n
  <2>1. r[u[i]] = x /\ u[i] = a
    BY <1>1, <1>3, <1>7
  <2>2. \A j \in 1..Len(u) : u[i] = u[j] => i = j
    BY <1>1, <1>2, <1>7, <2>1
  <2>3. QED
    BY <1>7, <2>1, <2>2 DEF FitFor
<1>8. CASE i # n
  <2>1. r[u[i]] = o[t[i]] /\ u[i] = t[i]
    BY <1>1, <1>4, <1>6, <1>8
  <2>2. \A j \in 1..Len(u) : u[i] = u[j] => i = j
    <3>1. SUFFICES ASSUME NEW j \in 1..Len(u), u[i] = u[j] PROVE i = j
      OBVIOUS
    <3>2. j \in 1..Len(t) /\ j # n
      BY <1>1, <1>2, <1>6, <2>1, <3>1
    <3>3. t[i] = t[j]
      BY <1>1, <2>1, <3>1, <3>2
    <3>4. QED
      BY <1>6, <3>2, <3>3 DEF SoundTable
  <2>3. QED
    BY <1>6, <2>1, <2>2 DEF SoundTable
<1>9. QED
  BY <1>7, <1>8

\* All objects of a side are sound.
AllSound(s, o) == \A a \in Addr : ObjSound(s, o[a])

\* The inductive invariant: the tables and the objects of both sides.
ManagerInv ==
    TypeOK /\ \A s \in Side : SoundTable(protos[s], obj[s]) /\ AllSound(s, obj[s])

(* add_protocol, whether the file loads or not.                            *)
LEMMA AddProtocolInv ==
    ASSUME ManagerInv, NEW s \in Side, NEW file \in Files, AddProtocol(s, file)
    PROVE  ManagerInv'
<1> DEFINE l == Load(s, Len(protos[s]), file)
           t == protos[s]
<1>1. PICK a \in {x \in Addr : ~obj[s][x].live} :
        /\ obj' = [obj EXCEPT ![s][a] = l.obj]
        /\ Bind(s, l, file, a)
        /\ protos' = IF l.ok THEN [protos EXCEPT ![s] = Append(t, a)] ELSE protos
        /\ IF l.died THEN Ended(s, "null_arg") ELSE UNCHANGED status
  BY DEF AddProtocol
<1>2. Len(t) < MaxProtos /\ UNCHANGED <<forMaker, chan>>
  BY DEF AddProtocol
<1>3. TypeOK /\ \A v \in Side : SoundTable(protos[v], obj[v]) /\ AllSound(v, obj[v])
  BY DEF ManagerInv
<1>4. t \in Seq(Addr) /\ Len(t) \in 0..(MaxProtos - 1) /\ obj[s] \in [Addr -> Objects]
  BY <1>2, <1>3, ManagerAssumption, SMTT(30) DEF TypeOK
<1>5. Loaded(s, Len(t), file, l)
  BY <1>4, LoadResult
<1> HIDE DEF l
<1>6. TypeOK'
  <2>1. obj' \in [Side -> [Addr -> Objects]]
    BY <1>1, <1>3, <1>5 DEF TypeOK, Loaded
  <2>2. protos' \in [Side -> Seq(Addr)]
    BY <1>1, <1>3, <1>4, SMTT(30) DEF TypeOK
  <2>3. forCaller' \in [Side -> [Func -> Addr \cup {None}]]
    BY <1>1, <1>3 DEF TypeOK, Bind, Func
  <2>4. status' \in [Side -> {"up", "down", "null_arg", "used_freed", "assert_id"}]
    BY <1>1, <1>3 DEF TypeOK, Ended
  <2>5. QED
    BY <1>2, <1>3, <2>1, <2>2, <2>3, <2>4 DEF TypeOK
<1>7. ASSUME NEW v \in Side PROVE SoundTable(protos'[v], obj'[v])
  <2>1. CASE v # s
    <3>1. protos'[v] = protos[v] /\ obj'[v] = obj[v]
      BY <1>1, <1>3, <2>1 DEF TypeOK
    <3>2. QED
      BY <1>3, <3>1
  <2>2. CASE v = s /\ l.ok
    <3>1. protos'[v] = Append(t, a) /\ obj'[v] = [obj[s] EXCEPT ![a] = l.obj]
      BY <1>1, <1>3, <2>2 DEF TypeOK
    <3>2. FitFor(l.obj, Len(t))
      BY <1>5, <2>2 DEF Loaded, FitFor
    <3>3. QED
      BY <1>1, <1>3, <1>4, <3>1, <3>2, TableExtended, SMTT(30)
  <2>3. CASE v = s /\ ~l.ok
    <3>1. protos'[v] = t /\ obj'[v] = [obj[s] EXCEPT ![a] = l.obj]
      BY <1>1, <1>3, <2>3 DEF TypeOK
    <3>2. \A i \in 1..Len(t) : t[i] \in Addr /\ t[i] # a
      BY <1>1, <1>3, <1>4, SMTT(30) DEF SoundTable
    <3>3. \A i \in 1..Len(t) : obj'[v][t[i]] = obj[s][t[i]]
      BY <1>4, <3>1, <3>2
    <3>4. QED
      BY <1>3, <1>4, <3>1, <3>3, TableKept
  <2>4. QED
    BY <2>1, <2>2, <2>3
<1>8. ASSUME NEW v \in Side PROVE AllSound(v, obj'[v])
  <2>1. obj'[v] = IF v = s THEN [obj[s] EXCEPT ![a] = l.obj] ELSE obj[v]
    BY <1>1, <1>3 DEF TypeOK
  <2>2. ObjSound(s, l.obj)
    BY <1>5 DEF Loaded
  <2>3. QED
    BY <1>3, <1>4, <2>1, <2>2 DEF AllSound
<1>9. QED
  BY <1>6, <1>7, <1>8 DEF ManagerInv

(* update_protocol, whether the new file loads, is refused or raises.      *)
LEMMA UpdateProtocolInv ==
    ASSUME ManagerInv, NEW s \in Side, NEW file \in Files, NEW id \in 0..(MaxProtos - 1),
           UpdateProtocol(s, id, file)
    PROVE  ManagerInv'
<1> DEFINE l == Load(s, id, file)
           t == protos[s]
           old == t[id + 1]
<1>1. PICK a \in {x \in Addr : ~obj[s][x].live} :
        /\ obj' = IF l.ok THEN [obj EXCEPT ![s][a] = l.obj, ![s][old] = Deleted]
                  ELSE IF l.raised THEN [obj EXCEPT ![s][a] = l.obj] ELSE obj
        /\ Bind(s, l, file, a)
        /\ protos' = IF l.ok THEN [protos EXCEPT ![s][id + 1] = a] ELSE protos
        /\ IF l.died THEN Ended(s, "null_arg") ELSE UNCHANGED status
  BY DEF UpdateProtocol
<1>2. id < Len(t) /\ UNCHANGED <<forMaker, chan>>
  BY DEF UpdateProtocol
<1>3. TypeOK /\ \A v \in Side : SoundTable(protos[v], obj[v]) /\ AllSound(v, obj[v])
  BY DEF ManagerInv
<1>4. /\ t \in Seq(Addr) /\ obj[s] \in [Addr -> Objects]
      /\ id + 1 \in 1..Len(t) /\ old \in Addr
  BY <1>2, <1>3, ManagerAssumption, SMTT(30) DEF TypeOK
<1>5. Loaded(s, id, file, l)
  BY <1>4, LoadResult
<1> HIDE DEF l
<1>6. Deleted \in Objects
  BY EmptyObjects
<1> DEFINE r == [obj[s] EXCEPT ![a] = l.obj, ![old] = Deleted]
           k == [obj[s] EXCEPT ![a] = l.obj]
<1>7. l.ok => /\ obj' = [obj EXCEPT ![s] = r]
              /\ protos' = [protos EXCEPT ![s] = [t EXCEPT ![id + 1] = a]]
  BY <1>1, <1>3, <1>4 DEF TypeOK
<1>8. r \in [Addr -> Objects] /\ k \in [Addr -> Objects]
  BY <1>1, <1>4, <1>5, <1>6 DEF Loaded
<1>9. [t EXCEPT ![id + 1] = a] \in Seq(Addr)
  BY <1>1, <1>4, SMTT(30)
<1>10. ~l.ok => protos' = protos /\ (obj' = obj \/ obj' = [obj EXCEPT ![s] = k])
  BY <1>1, <1>3, <1>4 DEF TypeOK
<1> HIDE DEF r, k
<1>11. TypeOK'
  <2>1. obj' \in [Side -> [Addr -> Objects]]
    BY <1>3, <1>7, <1>8, <1>10 DEF TypeOK
  <2>2. protos' \in [Side -> Seq(Addr)]
    BY <1>1, <1>3, <1>7, <1>9 DEF TypeOK
  <2>3. forCaller' \in [Side -> [Func -> Addr \cup {None}]]
    BY <1>1, <1>3 DEF TypeOK, Bind, Func
  <2>4. status' \in [Side -> {"up", "down", "null_arg", "used_freed", "assert_id"}]
    BY <1>1, <1>3 DEF TypeOK, Ended
  <2>5. QED
    BY <1>2, <1>3, <2>1, <2>2, <2>3, <2>4 DEF TypeOK
<1>12. ASSUME NEW v \in Side PROVE SoundTable(protos'[v], obj'[v])
  <2>1. CASE ~l.ok
    <3>1. CASE obj'[v] = obj[v]
      BY <1>3, <1>10, <2>1, <3>1
    <3>2. CASE v = s /\ obj'[v] = k
      <4>1. \A i \in 1..Len(t) : t[i] \in Addr /\ t[i] # a
        BY <1>1, <1>3, <1>4, SMTT(30) DEF SoundTable
      <4>2. \A i \in 1..Len(t) : k[t[i]] = obj[s][t[i]]
        BY <1>4, <4>1 DEF k
      <4>3. SoundTable(t, k)
        BY <1>3, <1>4, <4>2, TableKept
      <4>4. QED
        BY <1>10, <2>1, <3>2, <4>3
    <3>3. obj'[v] = obj[v] \/ (v = s /\ obj'[v] = k)
      BY <1>3, <1>10, <2>1 DEF TypeOK
    <3>4. QED
      BY <3>1, <3>2, <3>3
  <2>2. CASE v # s /\ l.ok
    <3>1. protos'[v] = protos[v] /\ obj'[v] = obj[v]
      BY <1>3, <1>7, <2>2 DEF TypeOK
    <3>2. QED
      BY <1>3, <3>1
  <2>3. CASE v = s /\ l.ok
    <3>1. protos'[v] = [t EXCEPT ![id + 1] = a] /\ obj'[v] = r
      BY <1>3, <1>7, <2>3 DEF TypeOK
    <3>2. FitFor(l.obj, id)
      BY <1>5, <2>3 DEF Loaded, FitFor
    <3>3. FitFor(l.obj, (id + 1) - 1)
      <4>1. (id + 1) - 1 = id
        BY SMTT(30)
      <4>2. QED
        BY <3>2, <4>1
    <3>4. SoundTable([t EXCEPT ![id + 1] = a], [obj[s] EXCEPT ![a] = l.obj, ![t[id + 1]] = Deleted])
      BY <1>1, <1>3, <1>4, <3>3, TableReplaced
    <3>5. QED
      BY <3>1, <3>4 DEF r
  <2>4. QED
    BY <2>1, <2>2, <2>3
<1>13. ASSUME NEW v \in Side PROVE AllSound(v, obj'[v])
  <2>1. obj'[v] = obj[v] \/ (v = s /\ obj'[v] \in {r, k})
    BY <1>3, <1>7, <1>10 DEF TypeOK
  <2>2. ObjSound(s, l.obj) /\ ObjSound(s, Deleted)
    BY <1>5, EmptyObjects DEF Loaded, ObjSound
  <2>3. \A x \in Addr : /\ r[x] \in {l.obj, Deleted, obj[s][x]}
                         /\ k[x] \in {l.obj, obj[s][x]}
    BY <1>4 DEF r, k
  <2>4. QED
    BY <1>3, <2>1, <2>2, <2>3 DEF AllSound
<1>14. QED
  BY <1>11, <1>12, <1>13 DEF ManagerInv

(* Calls and the definitions of scripts leave the tables alone.            *)
LEMMA OthersInv ==
    ASSUME ManagerInv, NEW s \in Side,
           \/ DefineFuncs(s) \/ UnpackData(s)
           \/ \E func \in Func, vals \in Calls, n \in {0, 1} : PackCall(s, func, vals, n)
    PROVE  ManagerInv'
<1>1. TypeOK /\ \A v \in Side : SoundTable(protos[v], obj[v]) /\ AllSound(v, obj[v])
  BY DEF ManagerInv
<1> DEFINE Statuses == {"up", "down", "null_arg", "used_freed", "assert_id"}
<1>2. /\ forMaker \in [Side -> SUBSET Func] /\ status \in [Side -> Statuses]
      /\ DOMAIN chan = Side
  BY <1>1 DEF TypeOK
<1> DEFINE Kept == /\ UNCHANGED <<obj, protos, forCaller>>
                   /\ forMaker' \in [Side -> SUBSET Func] /\ status' \in [Side -> Statuses]
                   /\ DOMAIN chan' = Side
<1>3. ASSUME DefineFuncs(s) PROVE Kept
  BY <1>2, <1>3 DEF DefineFuncs
<1>4. ASSUME UnpackData(s) PROVE Kept
  <2>1. UNCHANGED <<status, obj, protos, forCaller, forMaker>>
    BY <1>4 DEF UnpackData
  <2>2. chan' = [chan EXCEPT ![s] = Tail(@)]
    BY <1>4 DEF UnpackData
  <2>3. QED
    BY <1>2, <2>1, <2>2
<1>5. ASSUME NEW func \in Func, NEW vals \in Calls, NEW n \in {0, 1}, PackCall(s, func, vals, n)
      PROVE  Kept
  <2>1. UNCHANGED <<obj, protos, forCaller, forMaker>>
    BY <1>5 DEF PackCall
  <2>2. status' = status \/ \E how \in Statuses : status' = [status EXCEPT ![s] = how]
    BY <1>5 DEF PackCall, Ended
  <2>3. chan' = chan \/ \E seq : chan' = [chan EXCEPT ![Other(s)] = seq]
    BY <1>5 DEF PackCall
  <2>4. status' \in [Side -> Statuses]
    BY <1>2, <2>2
  <2>5. DOMAIN chan' = Side
    BY <1>2, <2>3
  <2>6. QED
    BY <1>2, <2>1, <2>4, <2>5
<1>6. Kept
  BY <1>3, <1>4, <1>5
<1>7. TypeOK'
  BY <1>1, <1>6 DEF TypeOK
<1>8. QED
  BY <1>1, <1>6, <1>7 DEF ManagerInv

(* A new manager has the default protocol only.                            *)
LEMMA InitInv == Init => ManagerInv
<1>1. SUFFICES ASSUME Init PROVE ManagerInv
  OBVIOUS
<1>2. PICK a \in Addr :
        /\ obj = [s \in Side |-> [x \in Addr |-> IF x = a THEN Fresh(0) ELSE Deleted]]
        /\ protos = [s \in Side |-> <<a>>]
  BY <1>1 DEF Init
<1>3. /\ Fresh(0) \in Objects /\ Deleted \in Objects
      /\ Fresh(0).file = NoFile /\ Deleted.file = NoFile
  BY EmptyObjects
<1>4. TypeOK
  <2>1. obj \in [Side -> [Addr -> Objects]] /\ protos \in [Side -> Seq(Addr)]
    BY <1>2, <1>3, SMTT(30)
  <2>2. QED
    BY <1>1, <2>1 DEF Init, TypeOK
<1>5. ASSUME NEW s \in Side PROVE SoundTable(protos[s], obj[s])
  <2>1. protos[s] = <<a>> /\ obj[s][a] = Fresh(0)
    BY <1>2
  <2>2. Fresh(0).live /\ Fresh(0).id = 0 /\ Fresh(0).file = NoFile
    BY DEF Fresh
  <2>3. QED
    BY <2>1, <2>2, SMTT(30) DEF SoundTable
<1>6. ASSUME NEW s \in Side PROVE AllSound(s, obj[s])
  <2>1. \A x \in Addr : obj[s][x].file = NoFile
    BY <1>2, <1>3
  <2>2. QED
    BY <2>1 DEF AllSound, ObjSound
<1>7. QED
  BY <1>4, <1>5, <1>6 DEF ManagerInv

(* Every step of either side keeps both tables sound.                      *)
LEMMA StepInv == ManagerInv /\ [Next]_vars => ManagerInv'
<1>1. SUFFICES ASSUME ManagerInv, [Next]_vars PROVE ManagerInv'
  OBVIOUS
<1>2. CASE UNCHANGED vars
  BY <1>1, <1>2 DEF vars, ManagerInv, TypeOK
<1>3. CASE Next
  <2>1. PICK s \in Side :
          \/ DefineFuncs(s) \/ UnpackData(s)
          \/ \E file \in Files : \/ AddProtocol(s, file)
                                 \/ \E id \in 0..(MaxProtos - 1) : UpdateProtocol(s, id, file)
          \/ \E func \in Func, vals \in Calls, n \in {0, 1} : PackCall(s, func, vals, n)
    BY <1>3 DEF Next
  <2>2. QED
    BY <1>1, <2>1, AddProtocolInv, UpdateProtocolInv, OthersInv
<1>4. QED
  BY <1>1, <1>2, <1>3

(* The inductive invariant of two managers.                                *)
LEMMA ManagerInvariant == Spec => []ManagerInv
  BY InitInv, StepInv, PTL DEF Spec

(* The variables keep their types: in particular what is bound into        *)
(* for_caller is always the address of an object.                          *)
THEOREM ProtoTypeOK == Spec => []TypeOK
<1>1. ManagerInv => TypeOK
  BY DEF ManagerInv
<1>2. QED
  BY <1>1, ManagerInvariant, PTL

(* Whatever files are added and updated, in whatever order on the two      *)
(* sides, and however many of them fail to load, every entry of _s_protos  *)
(* is an object that was not deleted, in the place of its id, alone there, *)
(* and complete.                                                           *)
THEOREM ProtoRegistry == Spec => []RegistrySound
<1>1. ManagerInv => RegistrySound
  BY DEF ManagerInv, RegistrySound, SoundTable
<1>2. QED
  BY <1>1, ManagerInvariant, PTL

-----------------------------------------------------------------------------
(* Calls under way.                                                        *)

\* What pack() makes of a call with the data of object o.
CallOf(o, func, vals) ==
    [bytes |-> Marshal(o.id, o.args, vals, MaxToNetd).bytes, id |-> o.id, file |-> o.file,
     vals |-> vals, stale |-> o.maker \/ o.file.func # func]

\* The objects a closure of the other side may be bound to when it is called.
Senders(s) == {o \in Objects : ObjSound(Other(s), o) /\ o.id # 0}

\* The calls that may be under way to a side.
Msgs(s) == {m \in {CallOf(o, func, vals) : o \in Senders(s), func \in Func, vals \in Calls} :
              m.bytes # <<>>}

\* The inductive invariant: every call under way is one that pack() made.
CallsInv == ManagerInv /\ CallsArrive /\ \A s \in Side : chan[s] \in Seq(Msgs(s))

\* Its id stands for its file at the end it arrives at, and its closure was not bound
\* to an object that is gone.
Matched(m, s) ==
    /\ ~m.stale /\ m.id < Len(protos[s]) /\ obj[s][protos[s][m.id + 1]].file = m.file

\* The object for the id of a call is the one that has to run it, and the call was made
\* with the same arguments.
Expected(m, s) ==
    LET o == obj[s][protos[s][m.id + 1]] IN
    /\ o.ref /\ o.file = m.file /\ o.args = m.file.args /\ m.file \in Files
    /\ m.id \in Nat /\ m.id >= 1 /\ m.id < MaxProtos /\ m.vals \in Calls
    /\ m.bytes = Marshal(m.id, m.file.args, m.vals, MaxToNetd).bytes /\ m.bytes # <<>>

(* The two ends of a call agree on who runs it and on its arguments, from  *)
(* what load() did at either end.                                          *)
LEMMA CallExpected ==
    ASSUME ManagerInv, NEW s \in Side, NEW m \in Msgs(s), Matched(m, s)
    PROVE  Expected(m, s)
<1> DEFINE t == protos[s]
           a == t[m.id + 1]
           o == obj[s][a]
<1>1. PICK x \in Senders(s), func \in Func, vals \in Calls : m = CallOf(x, func, vals)
  BY SMTT(30) DEF Msgs
<1>2. m.bytes # <<>>
  BY SMTT(30) DEF Msgs
<1>3. x \in Objects /\ ObjSound(Other(s), x) /\ x.id # 0
  BY DEF Senders
<1>4. /\ m.bytes = Marshal(x.id, x.args, vals, MaxToNetd).bytes /\ m.id = x.id
      /\ m.file = x.file /\ m.vals = vals /\ m.stale = (x.maker \/ x.file.func # func)
  BY <1>1 DEF CallOf
<1>5. ~x.maker
  BY <1>4 DEF Matched
<1>6. x.id \in Nat /\ x.id >= 1
  BY <1>3, SMTT(30) DEF Objects
<1>7. TypeOK /\ SoundTable(t, obj[s]) /\ AllSound(s, obj[s])
  BY DEF ManagerInv
<1>8. t \in Seq(Addr) /\ Len(t) \in Nat /\ m.id + 1 \in 1..Len(t) /\ m.id + 1 > 1
  BY <1>4, <1>6, <1>7, SMTT(30) DEF TypeOK, Matched
<1>9. a \in Addr
  BY <1>8, ElementOfSeq
<1>10. /\ o.file # NoFile /\ o.args = o.file.args /\ Complete(o.file) /\ (o.maker => o.ref)
  BY <1>7, <1>8 DEF SoundTable
<1>11. o.file = x.file
  BY <1>4 DEF Matched
<1> HIDE DEF o
<1>12. /\ x.id < MaxProtos /\ x.maker = (x.file.path # "bad" /\ IsMaker(Other(s), x.file))
       /\ x.args = x.file.args
  BY <1>3, <1>5, <1>10, <1>11 DEF ObjSound
<1>13. x.file.path # "bad" /\ ~IsMaker(Other(s), x.file)
  BY <1>5, <1>10, <1>11, <1>12 DEF Complete
<1>14. IsMaker(s, x.file)
  BY <1>13 DEF IsMaker, Other, Side
<1>15. o.maker
  <2>1. ObjSound(s, o)
    BY <1>7, <1>9 DEF AllSound, o
  <2>2. QED
    BY <1>10, <1>11, <1>13, <1>14, <2>1 DEF ObjSound
<1>16. x.file \in Files
  BY <1>3, <1>10, <1>11 DEF Objects
<1>17. QED
  BY <1>2, <1>4, <1>6, <1>10, <1>11, <1>12, <1>15, <1>16 DEF Expected, o

\* A call finds the function of its file and its values.
Delivered(m, s) ==
    LET head == ReadId(m.bytes)
        o == obj[s][protos[s][head.id + 1]]
        u == UnpackArgs(o.args, SubSeq(m.bytes, head.len + 1, Len(m.bytes)))
    IN  /\ head.len > 0 /\ head.id < Len(protos[s]) /\ o.ref /\ ~u.failed
        /\ o.file.func = m.file.func
        /\ SameValues(u.vals, m.file.args, m.vals)

(* unpack_data() and unpack(), if the message is read as it was written.   *)
LEMMA UnpackDataCalls ==
    ASSUME CallsInv, NEW s \in Side, UnpackData(s),
           \A m \in Msgs(s) : Matched(m, s) => Delivered(m, s)
    PROVE  CallsArrive' /\ \A v \in Side : chan'[v] \in Seq(Msgs(v))
<1> DEFINE m == Head(chan[s])
           head == ReadId(m.bytes)
           known == head.len > 0 /\ head.id < Len(protos[s])
           o == obj[s][protos[s][head.id + 1]]
           u == UnpackArgs(o.args, SubSeq(m.bytes, head.len + 1, Len(m.bytes)))
           ran == known /\ o.ref /\ ~u.failed
           same == m.id < Len(protos[s]) /\ obj[s][protos[s][m.id + 1]].file = m.file
           d == [result |-> IF ran THEN "ran" ELSE "format_error", call |-> m, same |-> same,
                 func |-> IF ran THEN o.file.func ELSE "", vals |-> IF ran THEN u.vals ELSE <<>>]
<1>1. done' = d /\ chan' = [chan EXCEPT ![s] = Tail(@)] /\ chan[s] # <<>>
  BY DEF UnpackData
<1>2. ManagerInv /\ DOMAIN chan = Side /\ \A v \in Side : chan[v] \in Seq(Msgs(v))
  BY DEF CallsInv, ManagerInv, TypeOK
<1>3. m \in Msgs(s)
  <2>1. chan[s] \in Seq(Msgs(s))
    BY <1>2
  <2>2. QED
    BY <1>1, <2>1, HeadTailProperties
<1>4. \A v \in Side : chan'[v] \in Seq(Msgs(v))
  <2>1. SUFFICES ASSUME NEW v \in Side PROVE chan'[v] \in Seq(Msgs(v))
    OBVIOUS
  <2>2. chan[v] \in Seq(Msgs(v)) /\ chan[s] \in Seq(Msgs(s))
    BY <1>2
  <2>3. chan'[v] = IF v = s THEN Tail(chan[s]) ELSE chan[v]
    BY <1>1, <1>2
  <2>4. Tail(chan[s]) \in Seq(Msgs(s))
    BY <1>1, <2>2, HeadTailProperties
  <2>5. QED
    BY <2>2, <2>3, <2>4
<1> DEFINE res == IF ran THEN "ran" ELSE "format_error"
           fn == IF ran THEN o.file.func ELSE ""
           vs == IF ran THEN u.vals ELSE <<>>
<1>5. /\ d.result = res /\ d.call = m /\ d.same = same /\ d.func = fn /\ d.vals = vs
  OBVIOUS
<1>6. same /\ ~m.stale => /\ ran /\ o.file.func = m.file.func
                          /\ SameValues(u.vals, m.file.args, m.vals)
  <2> HIDE DEF m
  <2>1. same /\ ~m.stale => Delivered(m, s)
    BY <1>3 DEF Matched
  <2>2. Delivered(m, s) => /\ ran /\ o.file.func = m.file.func
                           /\ SameValues(u.vals, m.file.args, m.vals)
    BY DEF Delivered
  <2>3. QED
    BY <2>1, <2>2
<1> HIDE DEF m, head, known, o, u, ran, same, d
<1>7. CallsArrive'
  <2> DEFINE args == m.file.args
             passed == SubSeq(m.vals, 1, Len(args))
  <2>1. SUFFICES ASSUME done'.same, ~done'.call.stale
                 PROVE  /\ done'.result = "ran" /\ done'.func = done'.call.file.func
                        /\ LET as == done'.call.file.args
                               vls == SubSeq(done'.call.vals, 1, Len(as))
                           IN  CarriesAll(as, vls) => done'.vals = vls
    BY DEF CallsArrive
  <2>2. ran /\ o.file.func = m.file.func /\ SameValues(u.vals, m.file.args, m.vals)
    BY <1>1, <1>5, <1>6, <2>1
  <2>3. done'.result = "ran" /\ done'.func = o.file.func /\ done'.vals = u.vals /\ done'.call = m
    BY <1>1, <1>5, <2>2
  <2>4. QED
    BY <2>2, <2>3 DEF SameValues
<1>8. QED
  BY <1>4, <1>7

(* pack() sends what marshal() made of the closure's object.               *)
LEMMA PackCallCalls ==
    ASSUME CallsInv, NEW s \in Side, NEW func \in Func, NEW vals \in Calls, NEW n \in {0, 1},
           PackCall(s, func, vals, n)
    PROVE  CallsArrive' /\ \A v \in Side : chan'[v] \in Seq(Msgs(v))
<1> DEFINE a == forCaller[s][func]
           o == obj[s][a]
           call == CallOf(o, func, vals)
<1>1. done' = Nothing /\ a # None
  BY DEF PackCall
<1>2. \/ chan' = chan
      \/ /\ o.id # 0 /\ call.bytes # <<>>
         /\ chan' = [chan EXCEPT ![Other(s)] = Append(@, call)]
  BY DEF PackCall, CallOf
<1>3. ManagerInv /\ TypeOK /\ DOMAIN chan = Side /\ \A v \in Side : chan[v] \in Seq(Msgs(v))
  BY DEF CallsInv, ManagerInv, TypeOK
<1>4. a \in Addr /\ o \in Objects
  BY <1>1, <1>3, SMTT(30) DEF TypeOK
<1>5. ObjSound(s, o)
  BY <1>3, <1>4 DEF ManagerInv, AllSound
<1>6. Other(s) \in Side /\ Other(Other(s)) = s
  BY DEF Other, Side
<1> HIDE DEF o, call
<1>7. o.id # 0 /\ call.bytes # <<>> => call \in Msgs(Other(s))
  <2>1. o.id # 0 => o \in Senders(Other(s))
    BY <1>4, <1>5, <1>6 DEF Senders
  <2>2. QED
    BY <2>1, SMTT(30) DEF Msgs, call
<1>8. \A v \in Side : chan'[v] \in Seq(Msgs(v))
  <2>1. CASE chan' = chan
    BY <1>3, <2>1
  <2>2. CASE /\ o.id # 0 /\ call.bytes # <<>>
             /\ chan' = [chan EXCEPT ![Other(s)] = Append(@, call)]
    <3>1. SUFFICES ASSUME NEW v \in Side PROVE chan'[v] \in Seq(Msgs(v))
      OBVIOUS
    <3>2. chan[v] \in Seq(Msgs(v)) /\ chan[Other(s)] \in Seq(Msgs(Other(s)))
      BY <1>3, <1>6
    <3>3. chan'[v] = IF v = Other(s) THEN Append(chan[v], call) ELSE chan[v]
      BY <1>3, <1>6, <2>2
    <3>4. call \in Msgs(Other(s))
      BY <1>7, <2>2
    <3>5. Append(chan[Other(s)], call) \in Seq(Msgs(Other(s)))
      BY <3>2, <3>4, AppendProperties
    <3>6. QED
      BY <3>2, <3>3, <3>5
  <2>3. QED
    BY <1>2, <2>1, <2>2
<1>9. CallsArrive'
  BY <1>1 DEF CallsArrive
<1>10. QED
  BY <1>8, <1>9

(* Every step of either side.                                              *)
LEMMA CallsStep ==
    ASSUME CallsInv, [Next]_vars,
           \A s \in Side : \A m \in Msgs(s) : Matched(m, s) => Delivered(m, s)
    PROVE  CallsInv'
<1>1. CallsInv /\ [Next]_vars
  OBVIOUS
<1>2. ManagerInv'
  BY <1>1, StepInv DEF CallsInv
<1>3. CallsArrive /\ \A s \in Side : chan[s] \in Seq(Msgs(s))
  BY <1>1 DEF CallsInv
<1>4. CASE UNCHANGED vars
  <2>1. CallsArrive' /\ chan' = chan
    BY <1>3, <1>4 DEF CallsArrive, vars
  <2>2. QED
    BY <1>2, <1>3, <2>1 DEF CallsInv
<1>5. CASE Next
  <2>1. PICK s \in Side :
          \/ DefineFuncs(s) \/ UnpackData(s)
          \/ \E file \in Files : \/ AddProtocol(s, file)
                                 \/ \E id \in 0..(MaxProtos - 1) : UpdateProtocol(s, id, file)
          \/ \E func \in Func, vals \in Calls, n \in {0, 1} : PackCall(s, func, vals, n)
    BY <1>5 DEF Next
  <2>2. CASE \/ DefineFuncs(s)
             \/ \E file \in Files : \/ AddProtocol(s, file)
                                    \/ \E id \in 0..(MaxProtos - 1) : UpdateProtocol(s, id, file)
    <3>1. done' = Nothing /\ chan' = chan
      BY <2>2 DEF DefineFuncs, AddProtocol, UpdateProtocol
    <3>2. CallsArrive'
      BY <3>1 DEF CallsArrive
    <3>3. QED
      BY <1>2, <1>3, <3>1, <3>2 DEF CallsInv
  <2>3. CASE UnpackData(s)
    BY <1>1, <1>2, <2>3, UnpackDataCalls DEF CallsInv
  <2>4. CASE \E func \in Func, vals \in Calls, n \in {0, 1} : PackCall(s, func, vals, n)
    BY <1>1, <1>2, <2>4, PackCallCalls DEF CallsInv
  <2>5. QED
    BY <2>1, <2>2, <2>3, <2>4
<1>6. QED
  BY <1>1, <1>4, <1>5

(* Nothing is under way at first.                                          *)
LEMMA CallsInit == Init => CallsInv
<1>1. SUFFICES ASSUME Init PROVE CallsInv
  OBVIOUS
<1>2. ManagerInv
  BY <1>1, InitInv
<1>3. done = Nothing /\ \A s \in Side : chan[s] = <<>>
  BY <1>1 DEF Init
<1>4. \A s \in Side : chan[s] \in Seq(Msgs(s))
  <2>1. \A S : <<>> \in Seq(S)
    BY SMTT(30)
  <2>2. QED
    BY <1>3, <2>1
<1>5. CallsArrive
  BY <1>3 DEF CallsArrive
<1>6. QED
  BY <1>2, <1>4, <1>5 DEF CallsInv

-----------------------------------------------------------------------------
(* Calls arrive.                                                           *)

\* The protocols have neither arrays nor tables among their arguments.
ScalarFiles == \A f \in Files : ScalarList(f.args)

(* A call whose id stands for its file at both ends is read as it was      *)
(* written.                                                                *)
LEMMA CallDelivered ==
    ASSUME ScalarFiles, MaxProtos <= Base * Base, NEW s \in Side, NEW m,
           Matched(m, s), Expected(m, s)
    PROVE  Delivered(m, s)
<1> DEFINE args == m.file.args
           vals == m.vals
           msg == m.bytes
           id == m.id
           h == Len(IdBytes(id))
           o == obj[s][protos[s][id + 1]]
           u == UnpackArgs(args, From(msg, h))
<1>1. /\ o.ref /\ o.file = m.file /\ o.args = args /\ m.file \in Files
      /\ id \in Nat /\ id >= 1 /\ id < MaxProtos /\ vals \in Calls
      /\ msg = Marshal(id, args, vals, MaxToNetd).bytes /\ msg # <<>>
  BY DEF Expected
<1>2. id < Len(protos[s])
  BY DEF Matched
<1>3. ScalarList(args)
  BY <1>1 DEF ScalarFiles
<1> HIDE DEF args, vals, msg, id, o
<1>4. id < Base * Base
  BY <1>1, ManagerAssumption, SMTT(30)
<1>5. vals \in Seq(Value) /\ (\A v \in Value : IsValue(v)) /\ MaxToNetd \in Int
  BY <1>1, ManagerAssumption, SMTT(30)
<1>6. /\ h > 0 /\ ReadId(msg).len = h /\ ReadId(msg).id = id
      /\ ~u.failed /\ SameValues(u.vals, args, vals)
  <2>1. ReadBack(msg, id, args, vals)
    BY <1>1, <1>3, <1>4, <1>5, MessageFound
  <2>2. QED
    BY <2>1 DEF ReadBack
<1>7. u = UnpackArgs(o.args, SubSeq(msg, h + 1, Len(msg)))
  BY <1>1 DEF From
<1> HIDE DEF u, h
<1>8. QED
  BY <1>1, <1>2, <1>6, <1>7 DEF Delivered, args, vals, msg, id, o

(* However protocols were added and updated on the two sides before, and   *)
(* however many loads failed, a call through pack(), marshal(),            *)
(* unpack_data() and unpack() whose id stands for the same file at both    *)
(* ends runs that file's function, with the values that were passed if     *)
(* their formats can carry them: for every number of values of a byte,     *)
(* every file without arrays and tables, every buffer size and any values. *)
(* Ids have two bytes, and the code does not check that there are no more  *)
(* protocols than that.                                                    *)
THEOREM ProtoCallsArrive ==
    ASSUME ScalarFiles, MaxProtos <= Base * Base
    PROVE  Spec => []CallsArrive
<1>1. CallsInv /\ [Next]_vars => CallsInv'
  <2>1. SUFFICES ASSUME CallsInv, [Next]_vars PROVE CallsInv'
    OBVIOUS
  <2>2. ManagerInv
    BY <2>1 DEF CallsInv
  <2>3. \A s \in Side : \A m \in Msgs(s) : Matched(m, s) => Delivered(m, s)
    BY <2>2, CallExpected, CallDelivered
  <2>4. QED
    BY <2>1, <2>3, CallsStep
<1>2. CallsInv => CallsArrive
  BY DEF CallsInv
<1>3. QED
  BY <1>1, <1>2, CallsInit, PTL DEF Spec
=============================================================================
