----------------------------- MODULE PlanProofs -----------------------------
(***************************************************************************)
(* What holds of placement-plan_apply and placement-plan_commit for every  *)
(* cluster, every plan and every regime: the types of the state, that the  *)
(* two job lists stay disjoint and a node has at most one instance of a    *)
(* partition, and, under the write lock, that only condemned instances are *)
(* deleted, that a kill or a failing call forgets one of them at most, and *)
(* that only one that a kill made forgotten is started again; and that all *)
(* this is the life that Instances describes.                              *)
(***************************************************************************)
EXTENDS PlanSystem, FiniteSetTheorems, TLAPS

\* The calls that apply makes.
Calls == {"exit_if_exist", "exit_if_not_exist", "sub", "find_src", "set_to_be_deleted",
          "create", "rm_src_add", "rm_src_del", "put_src_del",
          "rm_dst_add", "rm_dst_del", "put_dst_add"}

Holds(s, name, i) == \E j \in 1..i : s[j] = name

\* How the calls of a line, or what is left of them, follow each other.
Shape(s) ==
  /\ s \in Seq(Calls)
  /\ \A i \in 2..Len(s) :
       /\ s[i] = "create" => s[i-1] = "exit_if_exist"
       /\ s[i] = "put_dst_add" => s[i-1] = "rm_dst_del"
       /\ s[i] = "rm_src_del" => s[i-1] = "rm_src_add"
       /\ s[i] = "put_src_del" => s[i-1] = "rm_src_del"
  /\ \A i \in 1..Len(s) :
       /\ s[i] = "set_to_be_deleted" => i < Len(s) /\ s[i+1] = "rm_src_add"
       /\ s[i] = "rm_src_add" => i < Len(s) /\ s[i+1] = "rm_src_del"
       /\ s[i] = "rm_src_del" => i < Len(s) /\ s[i+1] = "put_src_del"
       /\ s[i] = "rm_dst_del" => i < Len(s) /\ s[i+1] = "put_dst_add"
  /\ \A i, k \in 1..Len(s) : i < k =>
       /\ s[i] = "find_src" /\ s[k] \in {"rm_src_add", "put_src_del"} =>
            \E j \in i..k : s[j] = "set_to_be_deleted"
       /\ s[i] = "create" => s[k] # "set_to_be_deleted"

\* The calls of a whole line find the instances before they use them.
Whole(s) ==
  /\ s # <<>>
  /\ s[1] \in {"exit_if_exist", "exit_if_not_exist"}
  /\ \A i \in 1..Len(s) :
       /\ s[i] = "put_dst_add" => Holds(s, "create", i)
       /\ s[i] = "set_to_be_deleted" => Holds(s, "find_src", i)
       /\ s[i] \in {"rm_src_add", "put_src_del"} =>
            Holds(s, "find_src", i) /\ Holds(s, "set_to_be_deleted", i)
-----------------------------------------------------------------------------
\* Ids that ZooKeeper's counter has given out.
Known == {id \in Ids : id[2] <= created[PartOf(id)]}
Gone(id) == state[id] \in {"TO_BE_DELETED", "absent"}

\* What is left of a line: the instances it is about to use are known, src is
\* condemned and dst is not.
LineInv ==
  /\ lines \in Seq(PlanLines)
  /\ calls # <<>> => line \in PlanLines
  /\ Shape(calls)
  /\ \A i \in 1..Len(calls) :
       /\ calls[i] = "put_dst_add" /\ ~Holds(calls, "create", i) =>
            /\ dst \in Known
            /\ regime.locked => state[dst] # "TO_BE_DELETED"
            /\ \A j \in 1..Len(calls) : calls[j] # "set_to_be_deleted"
       /\ calls[i] = "set_to_be_deleted" /\ ~Holds(calls, "find_src", i) => src \in Known
       /\ calls[i] \in {"rm_src_add", "put_src_del"} =>
            /\ ~Holds(calls, "find_src", i) => src \in Known
            /\ regime.locked /\ ~Holds(calls, "set_to_be_deleted", i) => Gone(src)

\* The two job lists, and what apply has taken off them already.
ListInv ==
  /\ plan_add \cap plan_del = {}
  /\ calls # <<>> /\ Head(calls) = "put_dst_add" => dst \notin plan_del
  /\ calls # <<>> /\ Head(calls) \in {"rm_src_del", "put_src_del"} => src \notin plan_add

\* Where the instances are.
PlaceInv ==
  /\ \A id \in Ids : Exists(id) => id \in Known
  /\ plan_del \subseteq Known
  /\ \A a, b \in Ids :
       PartOf(a) = PartOf(b) /\ Exists(a) /\ Exists(b) /\ node[a] = node[b] => a = b
  /\ calls # <<>> /\ Head(calls) = "create" => InstancesAt(line.part, line.to) = {}

\* The commit has an instance wherever its loops make a call for one.
Turn == {"del_get", "del_rm", "del_inst", "start_get", "start_up", "start_set", "start_rm",
         "layer_get", "layer_set", "layer_rm"}
InstInv == sh.pc \in Turn => sh.inst \in Ids

\* Under the lock.
LockInv ==
  regime.locked =>
    /\ CommitRunning => ApplyIdle
    /\ \A id \in plan_del : Gone(id)
    /\ sh.pc = "del_inst" => Gone(sh.inst)
    /\ sh.pc \in {"start_up", "start_set", "layer_set"} => sh.inst \in plan_add

\* ... and without kills, what is condemned is taken off plan_add.
CondemnInv ==
  regime.locked /\ ~MayBeKilled => \A id \in Ids :
    state[id] = "TO_BE_DELETED" /\ id \in plan_add =>
      calls # <<>> /\ Head(calls) = "rm_src_add" /\ id = src

IInv == TypeOK /\ LineInv /\ ListInv /\ PlaceInv /\ InstInv /\ LockInv /\ CondemnInv
-----------------------------------------------------------------------------
\* What is at each place of a concatenation.
LEMMA Joined ==
  ASSUME NEW s \in Seq(Calls), NEW t \in Seq(Calls)
  PROVE  /\ s \o t \in Seq(Calls) /\ Len(s \o t) = Len(s) + Len(t)
         /\ \A i \in 1..Len(s) : (s \o t)[i] = s[i]
         /\ \A i \in 1..Len(t) : (s \o t)[Len(s) + i] = t[i]
OBVIOUS

\* The calls of rm_from_job_list with add-meta-attr.
LEMMA PutCalls ==
  /\ PutAdd \in Seq(Calls) /\ Len(PutAdd) = 3
  /\ PutAdd[1] = "rm_dst_add" /\ PutAdd[2] = "rm_dst_del" /\ PutAdd[3] = "put_dst_add"
  /\ PutDel \in Seq(Calls) /\ Len(PutDel) = 3
  /\ PutDel[1] = "rm_src_add" /\ PutDel[2] = "rm_src_del" /\ PutDel[3] = "put_src_del"
BY DEF PutAdd, PutDel, Calls

\* The calls of add_index_to_slavenode and delete_index_from_slavenode.
LEMMA IndexCalls ==
  /\ AddIndex \in Seq(Calls) /\ Len(AddIndex) = 4
  /\ AddIndex[1] = "create" /\ AddIndex[2] = "rm_dst_add"
  /\ AddIndex[3] = "rm_dst_del" /\ AddIndex[4] = "put_dst_add"
  /\ DeleteIndex \in Seq(Calls) /\ Len(DeleteIndex) = 5
  /\ DeleteIndex[1] = "find_src" /\ DeleteIndex[2] = "set_to_be_deleted"
  /\ DeleteIndex[3] = "rm_src_add" /\ DeleteIndex[4] = "rm_src_del"
  /\ DeleteIndex[5] = "put_src_del"
BY PutCalls DEF AddIndex, DeleteIndex, PutAdd, PutDel, Calls

\* The 21 calls of a MOVE.
LEMMA MoveCalls ==
  ASSUME NEW s, s = CallsOf("MOVE")
  PROVE  /\ s \in Seq(Calls) /\ Len(s) = 21
         /\ s[1] = "exit_if_not_exist" /\ s[2] = "exit_if_exist" /\ s[3] = "find_src"
         /\ s[4] = "sub" /\ s[5] = "exit_if_not_exist" /\ s[6] = "find_src"
         /\ s[7] = "set_to_be_deleted" /\ s[8] = "rm_src_add" /\ s[9] = "rm_src_del"
         /\ s[10] = "put_src_del" /\ s[11] = "exit_if_exist" /\ s[12] = "create"
         /\ s[13] = "rm_dst_add" /\ s[14] = "rm_dst_del" /\ s[15] = "put_dst_add"
         /\ s[16] = "rm_src_add" /\ s[17] = "rm_src_del" /\ s[18] = "put_src_del"
         /\ s[19] = "rm_dst_add" /\ s[20] = "rm_dst_del" /\ s[21] = "put_dst_add"
<1> DEFINE a == <<"exit_if_not_exist", "exit_if_exist", "find_src">>
           b == <<"sub", "exit_if_not_exist">>
           c == <<"exit_if_exist">>
           m1 == a \o b
           m2 == m1 \o DeleteIndex
           m3 == m2 \o c
           m4 == m3 \o AddIndex
           m5 == m4 \o PutDel
           m6 == m5 \o PutAdd
<1>1. s = m6
  BY DEF CallsOf
<1>2. /\ a \in Seq(Calls) /\ Len(a) = 3
      /\ a[1] = "exit_if_not_exist" /\ a[2] = "exit_if_exist" /\ a[3] = "find_src"
      /\ b \in Seq(Calls) /\ Len(b) = 2 /\ b[1] = "sub" /\ b[2] = "exit_if_not_exist"
      /\ c \in Seq(Calls) /\ Len(c) = 1 /\ c[1] = "exit_if_exist"
  BY DEF Calls
<1> HIDE DEF a, b, c
<1>3. /\ m1 \in Seq(Calls) /\ Len(m1) = 5 /\ \A i \in 1..3 : m1[i] = a[i]
      /\ \A i \in 1..2 : m1[3 + i] = b[i]
  <2>1. /\ m1 \in Seq(Calls) /\ Len(m1) = Len(a) + Len(b)
        /\ \A i \in 1..Len(a) : m1[i] = a[i]
        /\ \A i \in 1..Len(b) : m1[Len(a) + i] = b[i]
    BY <1>2, Joined, Zenon
  <2> HIDE DEF m1
  <2> QED BY <2>1, <1>2
<1> HIDE DEF m1
<1>4. /\ m2 \in Seq(Calls) /\ Len(m2) = 10 /\ \A i \in 1..5 : m2[i] = m1[i]
      /\ \A i \in 1..5 : m2[5 + i] = DeleteIndex[i]
  <2>1. /\ m2 \in Seq(Calls) /\ Len(m2) = Len(m1) + Len(DeleteIndex)
        /\ \A i \in 1..Len(m1) : m2[i] = m1[i]
        /\ \A i \in 1..Len(DeleteIndex) : m2[Len(m1) + i] = DeleteIndex[i]
    BY <1>3, IndexCalls, Joined, Zenon
  <2> HIDE DEF m2
  <2> QED BY <2>1, <1>3, IndexCalls
<1> HIDE DEF m2
<1>5. /\ m3 \in Seq(Calls) /\ Len(m3) = 11 /\ \A i \in 1..10 : m3[i] = m2[i]
      /\ \A i \in 1..1 : m3[10 + i] = c[i]
  <2>1. /\ m3 \in Seq(Calls) /\ Len(m3) = Len(m2) + Len(c)
        /\ \A i \in 1..Len(m2) : m3[i] = m2[i]
        /\ \A i \in 1..Len(c) : m3[Len(m2) + i] = c[i]
    BY <1>2, <1>4, Joined, Zenon
  <2> HIDE DEF m3
  <2> QED BY <2>1, <1>2, <1>4
<1> HIDE DEF m3
<1>6. /\ m4 \in Seq(Calls) /\ Len(m4) = 15 /\ \A i \in 1..11 : m4[i] = m3[i]
      /\ \A i \in 1..4 : m4[11 + i] = AddIndex[i]
  <2>1. /\ m4 \in Seq(Calls) /\ Len(m4) = Len(m3) + Len(AddIndex)
        /\ \A i \in 1..Len(m3) : m4[i] = m3[i]
        /\ \A i \in 1..Len(AddIndex) : m4[Len(m3) + i] = AddIndex[i]
    BY <1>5, IndexCalls, Joined, Zenon
  <2> HIDE DEF m4
  <2> QED BY <2>1, <1>5, IndexCalls
<1> HIDE DEF m4
<1>7. /\ m5 \in Seq(Calls) /\ Len(m5) = 18 /\ \A i \in 1..15 : m5[i] = m4[i]
      /\ \A i \in 1..3 : m5[15 + i] = PutDel[i]
  <2>1. /\ m5 \in Seq(Calls) /\ Len(m5) = Len(m4) + Len(PutDel)
        /\ \A i \in 1..Len(m4) : m5[i] = m4[i]
        /\ \A i \in 1..Len(PutDel) : m5[Len(m4) + i] = PutDel[i]
    BY <1>6, PutCalls, Joined, Zenon
  <2> HIDE DEF m5
  <2> QED BY <2>1, <1>6, PutCalls
<1> HIDE DEF m5
<1>8. /\ m6 \in Seq(Calls) /\ Len(m6) = 21 /\ \A i \in 1..18 : m6[i] = m5[i]
      /\ \A i \in 1..3 : m6[18 + i] = PutAdd[i]
  <2>1. /\ m6 \in Seq(Calls) /\ Len(m6) = Len(m5) + Len(PutAdd)
        /\ \A i \in 1..Len(m5) : m6[i] = m5[i]
        /\ \A i \in 1..Len(PutAdd) : m6[Len(m5) + i] = PutAdd[i]
    BY <1>7, PutCalls, Joined, Zenon
  <2> HIDE DEF m6
  <2> QED BY <2>1, <1>7, PutCalls
<1> HIDE DEF m6
<1>9. /\ s[16] = "rm_src_add" /\ s[17] = "rm_src_del" /\ s[18] = "put_src_del"
      /\ s[19] = "rm_dst_add" /\ s[20] = "rm_dst_del" /\ s[21] = "put_dst_add"
  <2>1. s[19] = PutAdd[1] /\ s[20] = PutAdd[2] /\ s[21] = PutAdd[3]
    BY <1>1, <1>8, SMTT(40)
  <2>2. s[16] = PutDel[1] /\ s[17] = PutDel[2] /\ s[18] = PutDel[3]
    <3>1. s[16] = m5[15 + 1] /\ s[17] = m5[15 + 2] /\ s[18] = m5[15 + 3]
      BY <1>1, <1>8, SMTT(40)
    <3> QED BY <3>1, <1>7
  <2> QED BY <2>1, <2>2, PutCalls
<1>10. \A i \in 1..15 : s[i] = m4[i]
  <2>1. \A i \in 1..15 : m5[i] = m4[i] /\ i \in 1..18
    BY <1>7, SMTT(40)
  <2>2. \A i \in 1..18 : s[i] = m5[i]
    BY <1>1, <1>8
  <2> QED BY <2>1, <2>2
<1>11. /\ s[11] = "exit_if_exist" /\ s[12] = "create"
       /\ s[13] = "rm_dst_add" /\ s[14] = "rm_dst_del" /\ s[15] = "put_dst_add"
  <2>1. /\ s[12] = AddIndex[1] /\ s[13] = AddIndex[2]
        /\ s[14] = AddIndex[3] /\ s[15] = AddIndex[4]
    BY <1>6, <1>10
  <2>2. s[11] = c[1]
    BY <1>5, <1>6, <1>10
  <2> QED BY <2>1, <2>2, <1>2, IndexCalls
<1>12. \A i \in 1..10 : s[i] = m2[i]
  BY <1>5, <1>6, <1>10
<1>13. /\ s[6] = "find_src" /\ s[7] = "set_to_be_deleted" /\ s[8] = "rm_src_add"
       /\ s[9] = "rm_src_del" /\ s[10] = "put_src_del"
  <2>1. /\ s[6] = DeleteIndex[1] /\ s[7] = DeleteIndex[2] /\ s[8] = DeleteIndex[3]
        /\ s[9] = DeleteIndex[4] /\ s[10] = DeleteIndex[5]
    BY <1>4, <1>12
  <2> QED BY <2>1, IndexCalls
<1>14. /\ s[1] = "exit_if_not_exist" /\ s[2] = "exit_if_exist" /\ s[3] = "find_src"
       /\ s[4] = "sub" /\ s[5] = "exit_if_not_exist"
  <2>1. s[1] = a[1] /\ s[2] = a[2] /\ s[3] = a[3] /\ s[4] = b[1] /\ s[5] = b[2]
    BY <1>3, <1>4, <1>12
  <2> QED BY <2>1, <1>2
<1> QED BY <1>1, <1>8, <1>9, <1>11, <1>13, <1>14

\* The calls of an ADD and of a DEL.
LEMMA AddDelCalls ==
  ASSUME NEW s, NEW t, s = CallsOf("ADD"), t = CallsOf("DEL")
  PROVE  /\ s \in Seq(Calls) /\ Len(s) = 5
         /\ s[1] = "exit_if_exist" /\ s[2] = "create" /\ s[3] = "rm_dst_add"
         /\ s[4] = "rm_dst_del" /\ s[5] = "put_dst_add"
         /\ t \in Seq(Calls) /\ Len(t) = 6
         /\ t[1] = "exit_if_not_exist" /\ t[2] = "find_src" /\ t[3] = "set_to_be_deleted"
         /\ t[4] = "rm_src_add" /\ t[5] = "rm_src_del" /\ t[6] = "put_src_del"
<1> DEFINE a == <<"exit_if_exist">>
           d == <<"exit_if_not_exist">>
           u == a \o AddIndex
           v == d \o DeleteIndex
<1>1. s = u /\ t = v
  BY DEF CallsOf
<1>2. /\ a \in Seq(Calls) /\ a[1] = "exit_if_exist" /\ Len(a) = 1
      /\ d \in Seq(Calls) /\ d[1] = "exit_if_not_exist" /\ Len(d) = 1
  BY DEF Calls
<1> HIDE DEF a, d
<1>3. /\ u \in Seq(Calls) /\ Len(u) = 5 /\ \A i \in 1..1 : u[i] = a[i]
      /\ \A i \in 1..4 : u[1 + i] = AddIndex[i]
  <2>1. /\ u \in Seq(Calls) /\ Len(u) = Len(a) + Len(AddIndex)
        /\ \A i \in 1..Len(a) : u[i] = a[i]
        /\ \A i \in 1..Len(AddIndex) : u[Len(a) + i] = AddIndex[i]
    BY <1>2, IndexCalls, Joined, Zenon
  <2> HIDE DEF u
  <2> QED BY <2>1, <1>2, IndexCalls
<1> HIDE DEF u
<1>4. /\ v \in Seq(Calls) /\ Len(v) = 6 /\ \A i \in 1..1 : v[i] = d[i]
      /\ \A i \in 1..5 : v[1 + i] = DeleteIndex[i]
  <2>1. /\ v \in Seq(Calls) /\ Len(v) = Len(d) + Len(DeleteIndex)
        /\ \A i \in 1..Len(d) : v[i] = d[i]
        /\ \A i \in 1..Len(DeleteIndex) : v[Len(d) + i] = DeleteIndex[i]
    BY <1>2, IndexCalls, Joined, Zenon
  <2> HIDE DEF v
  <2> QED BY <2>1, <1>2, IndexCalls
<1> HIDE DEF v
<1>5. u[2] = "create" /\ u[3] = "rm_dst_add" /\ u[4] = "rm_dst_del" /\ u[5] = "put_dst_add"
  BY <1>3, IndexCalls
<1>6. /\ v[2] = "find_src" /\ v[3] = "set_to_be_deleted"
      /\ v[4] = "rm_src_add" /\ v[5] = "rm_src_del" /\ v[6] = "put_src_del"
  BY <1>4, IndexCalls
<1> QED BY <1>1, <1>2, <1>3, <1>4, <1>5, <1>6

\* Every line's calls have the shape.
LEMMA CallsShape ==
  ASSUME NEW op \in {"ADD", "DEL", "MOVE"}
  PROVE  Shape(CallsOf(op)) /\ Whole(CallsOf(op))
<1> DEFINE s == CallsOf(op)
<1> HIDE DEF s
<1>1. CASE op = "ADD"
  BY <1>1, AddDelCalls, SMTT(120) DEF Shape, Whole, Holds, s
<1>2. CASE op = "DEL"
  BY <1>2, AddDelCalls, SMTT(120) DEF Shape, Whole, Holds, s
<1>3. CASE op = "MOVE"
  <2>1. /\ s \in Seq(Calls) /\ Len(s) = 21
        /\ s[1] = "exit_if_not_exist" /\ s[2] = "exit_if_exist" /\ s[3] = "find_src"
        /\ s[4] = "sub" /\ s[5] = "exit_if_not_exist" /\ s[6] = "find_src"
        /\ s[7] = "set_to_be_deleted" /\ s[8] = "rm_src_add" /\ s[9] = "rm_src_del"
        /\ s[10] = "put_src_del" /\ s[11] = "exit_if_exist" /\ s[12] = "create"
        /\ s[13] = "rm_dst_add" /\ s[14] = "rm_dst_del" /\ s[15] = "put_dst_add"
        /\ s[16] = "rm_src_add" /\ s[17] = "rm_src_del" /\ s[18] = "put_src_del"
        /\ s[19] = "rm_dst_add" /\ s[20] = "rm_dst_del" /\ s[21] = "put_dst_add"
    BY <1>3, MoveCalls DEF s
  <2>2. Shape(s)
    BY <2>1, SMTT(60) DEF Shape
  <2>3. /\ \A i \in 12..21 : Holds(s, "create", i)
        /\ \A i \in 3..21 : Holds(s, "find_src", i)
        /\ \A i \in 7..21 : Holds(s, "set_to_be_deleted", i)
    <3>1. \A i \in 12..21 : 12 \in 1..i /\ s[12] = "create"
      BY <2>1
    <3>2. \A i \in 3..21 : 3 \in 1..i /\ s[3] = "find_src"
      BY <2>1
    <3>3. \A i \in 7..21 : 7 \in 1..i /\ s[7] = "set_to_be_deleted"
      BY <2>1
    <3> QED BY <3>1, <3>2, <3>3 DEF Holds
  <2>4. \A i \in 1..21 :
          /\ s[i] = "put_dst_add" => i \in 12..21
          /\ s[i] \in {"set_to_be_deleted", "rm_src_add", "put_src_del"} => i \in 7..21
    BY <2>1, SMTT(60)
  <2>5. Whole(s)
    <3>1. \A i \in 1..21 : i \in 7..21 => i \in 3..21
      OBVIOUS
    <3>2. s # <<>>
      <4>1. Len(s) = 21 /\ Len(<<>>) = 0
        BY <2>1
      <4> QED BY <4>1
    <3>3. s[1] = "exit_if_not_exist"
      BY <2>1
    <3>4. ASSUME NEW i \in 1..21
          PROVE  /\ s[i] = "put_dst_add" => Holds(s, "create", i)
                 /\ s[i] = "set_to_be_deleted" => Holds(s, "find_src", i)
                 /\ s[i] \in {"rm_src_add", "put_src_del"} =>
                      Holds(s, "find_src", i) /\ Holds(s, "set_to_be_deleted", i)
      BY <2>3, <2>4, <3>1, <3>4
    <3>5. Len(s) = 21
      BY <2>1
    <3> QED BY <3>2, <3>3, <3>4, <3>5 DEF Whole
  <2> QED BY <2>2, <2>5 DEF s
<1> QED BY <1>1, <1>2, <1>3

\* What is left of a sequence of that shape has it, too.
LEMMA TailShape ==
  ASSUME NEW s, Shape(s), s # <<>>
  PROVE  /\ Shape(Tail(s)) /\ Len(Tail(s)) = Len(s) - 1 /\ Head(s) = s[1]
         /\ \A i \in 1..Len(Tail(s)) : Tail(s)[i] = s[i + 1]
<1>1. /\ Tail(s) \in Seq(Calls) /\ Len(Tail(s)) = Len(s) - 1 /\ Head(s) = s[1]
      /\ \A i \in 1..Len(Tail(s)) : Tail(s)[i] = s[i + 1]
  BY DEF Shape
<1>2. ASSUME NEW i \in 1..Len(Tail(s)), NEW k \in 1..Len(Tail(s)), i < k,
             Tail(s)[i] = "find_src", Tail(s)[k] \in {"rm_src_add", "put_src_del"}
      PROVE  \E j \in i..k : Tail(s)[j] = "set_to_be_deleted"
  <2>1. PICK j \in (i + 1)..(k + 1) : s[j] = "set_to_be_deleted"
    BY <1>1, <1>2 DEF Shape
  <2> QED BY <1>1, <1>2, <2>1
<1>3. \A i \in 2..Len(Tail(s)) :
        /\ Tail(s)[i] = s[i + 1] /\ Tail(s)[i-1] = s[i] /\ s[i] = s[(i + 1) - 1]
        /\ i + 1 \in 2..Len(s)
  BY <1>1 DEF Shape
<1>4. ASSUME NEW i \in 1..Len(Tail(s))
      PROVE  /\ Tail(s)[i] = "set_to_be_deleted" => i < Len(Tail(s)) /\ Tail(s)[i + 1] = "rm_src_add"
             /\ Tail(s)[i] = "rm_src_add" => i < Len(Tail(s)) /\ Tail(s)[i + 1] = "rm_src_del"
             /\ Tail(s)[i] = "rm_src_del" => i < Len(Tail(s)) /\ Tail(s)[i + 1] = "put_src_del"
             /\ Tail(s)[i] = "rm_dst_del" => i < Len(Tail(s)) /\ Tail(s)[i + 1] = "put_dst_add"
  <2>1. /\ s[i + 1] = "set_to_be_deleted" => i + 1 < Len(s) /\ s[(i + 1) + 1] = "rm_src_add"
        /\ s[i + 1] = "rm_src_add" => i + 1 < Len(s) /\ s[(i + 1) + 1] = "rm_src_del"
        /\ s[i + 1] = "rm_src_del" => i + 1 < Len(s) /\ s[(i + 1) + 1] = "put_src_del"
        /\ s[i + 1] = "rm_dst_del" => i + 1 < Len(s) /\ s[(i + 1) + 1] = "put_dst_add"
    BY <1>1 DEF Shape
  <2>2. i + 1 < Len(s) => i < Len(Tail(s)) /\ Tail(s)[i + 1] = s[(i + 1) + 1]
    BY <1>1 DEF Shape
  <2> QED BY <1>1, <2>1, <2>2
<1>5. \A i, k \in 1..Len(Tail(s)) :
        i < k /\ Tail(s)[i] = "create" => Tail(s)[k] # "set_to_be_deleted"
  BY <1>1 DEF Shape
<1>6. \A i \in 2..Len(Tail(s)) :
        /\ Tail(s)[i] = "create" => Tail(s)[i-1] = "exit_if_exist"
        /\ Tail(s)[i] = "put_dst_add" => Tail(s)[i-1] = "rm_dst_del"
        /\ Tail(s)[i] = "rm_src_del" => Tail(s)[i-1] = "rm_src_add"
        /\ Tail(s)[i] = "put_src_del" => Tail(s)[i-1] = "rm_src_del"
  BY <1>3 DEF Shape
<1> HIDE DEF Shape
<1>7. Shape(Tail(s))
  BY <1>1, <1>2, <1>4, <1>5, <1>6 DEF Shape
<1> QED BY <1>1, <1>7
-----------------------------------------------------------------------------
\* The store starts well typed, with every instance under a number given out.
LEMMA StoreStarts == StoreInit => StoreTypeOK /\ \A id \in Ids : Exists(id) => id \in Known
<1> SUFFICES ASSUME StoreInit PROVE StoreTypeOK /\ \A id \in Ids : Exists(id) => id \in Known
  OBVIOUS
<1>1. (CHOOSE n \in Nodes : TRUE) \in Nodes
  BY StoreAssumption
<1>2. state \in [Ids -> States] /\ node \in [Ids -> Nodes]
  BY <1>1, StoreAssumption DEF StoreInit, States
<1>3. created \in [Partitions -> 0..MaxInstances]
  BY PlacedAssumption DEF StoreInit
<1>4. ASSUME NEW id \in Ids, Exists(id) PROVE id \in Known
  <2>1. id \in DOMAIN Placed
    BY <1>4 DEF StoreInit, Exists
  <2>2. PartOf(id) \in Partitions
    BY DEF Ids, PartOf
  <2> QED BY <2>1, <2>2, PlacedAssumption DEF StoreInit, Known
<1> QED BY <1>2, <1>3, <1>4, StoreAssumption DEF StoreInit, StoreTypeOK

\* What sh may be.
ShType ==
  [pc : Scripted \cup {"idle", "dump", "connect"},
   list : SUBSET Ids, inst : Ids \cup {NoInst}, none : BOOLEAN,
   PARTITION_ID : Partitions \cup {"del", Unset},
   marks : SUBSET Ids, marked : Ids \cup {NoInst},
   groups : BOOLEAN, dump : SUBSET Ids]

\* The commit keeps the types.
LEMMA CommitTypes ==
  ASSUME StoreTypeOK, CommitTypeOK, InstInv, CommitStep \/ StartCommit \/ KillCommit \/ CommitFails
  PROVE  StoreTypeOK' /\ CommitTypeOK'
<1>1. Idle \in ShType
  BY DEF Idle, ShType
<1>2. sh \in ShType
  BY DEF CommitTypeOK, ShType
<1>3. Stopped \in ShType
  BY <1>1, <1>2 DEF Stopped, To, ShType
<1>4. \A label \in Scripted : To(label) \in ShType
  BY <1>2 DEF To, ShType
<1> SUFFICES StoreTypeOK' /\ sh' \in ShType
  BY DEF CommitTypeOK, ShType
<1>5. CASE reset_new_layer
  BY <1>1, <1>2, <1>3, <1>5 DEF reset_new_layer, StoreTypeOK, ShType, Scripted, At, To,
       storeVars, instanceVars, planVars
<1>6. CASE list_plan
  BY <1>1, <1>2, <1>3, <1>6, ZenonT(60) DEF list_plan, StoreTypeOK, ShType, Scripted, At, To, storeVars
<1>7. CASE look_at_plan_add
  <2>1. sh' = [To("del_loop") EXCEPT !.none = TRUE] \/ sh' = [To("del_loop") EXCEPT !.none = FALSE]
    BY <1>7, Zenon DEF look_at_plan_add
  <2>2. To("del_loop") \in ShType
    BY <1>4 DEF Scripted
  <2>3. \A r \in ShType, x \in BOOLEAN : [r EXCEPT !.none = x] \in ShType
    BY DEF ShType
  <2>4. sh' \in ShType
    BY <2>1, <2>2, <2>3
  <2> QED BY <2>4, <1>7 DEF look_at_plan_add, StoreTypeOK, storeVars
<1>8. CASE loop_ends
  BY <1>1, <1>2, <1>3, <1>8 DEF loop_ends, StoreTypeOK, ShType, Scripted, At, To, storeVars,
       Loops
<1>9. CASE next_instance
  <2>1. PICK id \in sh.list :
          \/ /\ sh' = [sh EXCEPT !.list = @ \ {id}, !.inst = id, !.pc = Body[@]]
             /\ UNCHANGED planVars
          \/ /\ sh' = [sh EXCEPT !.list = @ \ {id}] /\ RemoveAdd(id) /\ RemoveDel(id)
    BY <1>9 DEF next_instance
  <2>2. sh.list \subseteq Ids /\ id \in Ids
    BY <1>2 DEF ShType
  <2>3. sh.pc \in Loops => Body[sh.pc] \in Scripted
    BY DEF Loops, Body, Scripted
  <2>4. sh' \in ShType
    BY <1>9, <1>2, <2>1, <2>2, <2>3, ZenonT(60) DEF ShType, next_instance
  <2>5. StoreTypeOK'
    BY <1>9, <2>1 DEF next_instance, StoreTypeOK, RemoveAdd, RemoveDel, instanceVars, planVars
  <2> QED BY <2>4, <2>5
<1>10. CASE del_get
  <2>1. ASSUME sh.inst \in plan_del PROVE Value(sh.inst) \in Partitions \cup {"del"}
    BY <2>1 DEF Value, StoreTypeOK, Ids, PartOf
  <2>2. \A label \in {"del_rm", "del_loop"}, v \in Partitions \cup {"del"} :
          [To(label) EXCEPT !.PARTITION_ID = v] \in ShType
    BY <1>2 DEF ShType, To, Scripted
  <2>3. sh' \in ShType
    BY <1>10, <1>3, <2>1, <2>2 DEF del_get
  <2> QED BY <2>3, <1>10 DEF del_get, StoreTypeOK, storeVars
<1>11. CASE rm_job_list_del
  <2>1. [To("del_inst") EXCEPT !.groups = TRUE] \in ShType
    BY <1>2 DEF ShType, To, Scripted
  <2>2. sh' \in ShType
    BY <1>11, <1>3, <2>1 DEF rm_job_list_del
  <2>3. StoreTypeOK'
    BY <1>11 DEF rm_job_list_del, StoreTypeOK, RemoveDel, instanceVars
  <2> QED BY <2>2, <2>3
<1>12. CASE delete_service_instance
  <2>1. sh' \in ShType
    BY <1>12, <1>4 DEF delete_service_instance, Scripted
  <2>2. state' \in [Ids -> States] /\ up' \subseteq Ids
    BY <1>12 DEF delete_service_instance, StoreTypeOK, SetState, States
  <2> QED BY <1>12, <2>1, <2>2 DEF delete_service_instance, StoreTypeOK, planVars
<1>13. CASE get_partition
  BY <1>1, <1>2, <1>3, <1>13 DEF get_partition, StoreTypeOK, ShType, Scripted, At, To,
       storeVars, PartOf, NewLayer
<1>14. ASSUME NEW isUp, NEW isNew, CheckUp(isUp, isNew) PROVE StoreTypeOK' /\ sh' \in ShType
  <2>1. sh' \in ShType
    BY <1>14, <1>4 DEF CheckUp, Scripted
  <2>2. plan_newlayer' \subseteq Partitions
    <3>1. PartOf(sh.inst) \in Partitions
      BY <1>14 DEF CheckUp, At, InstInv, Turn, Ids, PartOf
    <3> QED BY <1>14, <3>1 DEF CheckUp, StoreTypeOK
  <2> QED BY <1>14, <2>1, <2>2 DEF CheckUp, StoreTypeOK, instanceVars, planVars
<1>15. CASE start_service_instance
  <2>1. sh' \in ShType
    BY <1>15, <1>3, <1>4 DEF start_service_instance, Scripted
  <2>2. state' \in [Ids -> States]
    BY <1>15 DEF start_service_instance, StoreTypeOK, SetState, States
  <2> QED BY <1>15, <2>1, <2>2 DEF start_service_instance, StoreTypeOK, planVars
<1>16. CASE rm_job_list_add
  <2>1. \A label \in {"mark_list", "layer_loop"} : [To(label) EXCEPT !.groups = TRUE] \in ShType
    BY <1>2 DEF ShType, To, Scripted
  <2>2. sh' \in ShType
    BY <1>16, <1>3, <2>1 DEF rm_job_list_add
  <2>3. StoreTypeOK'
    BY <1>16 DEF rm_job_list_add, StoreTypeOK, RemoveAdd, instanceVars
  <2> QED BY <2>2, <2>3
<1>17. CASE list_marks
  BY <1>1, <1>2, <1>3, <1>17 DEF list_marks, StoreTypeOK, ShType, Scripted, At, To, storeVars
<1>18. CASE mark_one
  <2>1. PICK id \in sh.marks :
          LET marks == id \in plan_del /\ sh.PARTITION_ID = PartOf(sh.inst) IN
          /\ sh' = IF id \in plan_del
                   THEN [sh EXCEPT !.marks = @ \ {id}, !.marked = IF marks THEN id ELSE NoInst]
                   ELSE Stopped
          /\ deletable' = IF marks THEN deletable \cup {id} ELSE deletable
    BY <1>18 DEF mark_one
  <2>2. sh.marks \subseteq Ids /\ id \in Ids
    BY <1>2 DEF ShType
  <2>3. \A m \in Ids \cup {NoInst} : [sh EXCEPT !.marks = @ \ {id}, !.marked = m] \in ShType
    BY <1>2, <2>2 DEF ShType
  <2>4. sh' \in ShType
    BY <1>3, <2>1, <2>2, <2>3
  <2>5. deletable' \subseteq plan_del
    BY <2>1 DEF StoreTypeOK
  <2> QED BY <1>18, <2>4, <2>5 DEF mark_one, StoreTypeOK, instanceVars
<1>19. CASE marks_end
  BY <1>1, <1>2, <1>3, <1>19 DEF marks_end, StoreTypeOK, ShType, Scripted, At, To, storeVars
<1>20. CASE is_all_new_layer_ok
  BY <1>1, <1>2, <1>3, <1>20 DEF is_all_new_layer_ok, StoreTypeOK, ShType, Scripted, At, To,
       storeVars
<1>21. CASE dump
  BY <1>1, <1>2, <1>3, <1>21 DEF dump, StoreTypeOK, ShType, Scripted, At, To, storeVars, Serving
<1>22. CASE connection_commit
  BY <1>1, <1>2, <1>3, <1>22 DEF connection_commit, StoreTypeOK, ShType, Scripted, At, To,
       storeVars, instanceVars, planVars
<1>23. CASE StartCommit
  BY <1>2, <1>23 DEF StartCommit, StoreTypeOK, ShType, Scripted, At, To, storeVars
<1>24. CASE KillCommit
  BY <1>1, <1>3, <1>24 DEF KillCommit, StoreTypeOK, storeVars
<1>25. CASE list_fails
  <2>1. \A r \in ShType : /\ [r EXCEPT !.list = {}] \in ShType /\ [r EXCEPT !.none = TRUE] \in ShType
                          /\ [r EXCEPT !.marks = {}] \in ShType
    BY DEF ShType
  <2>2. \A label \in {"list_add", "del_loop", "start_loop", "layer_loop", "mark"} :
          To(label) \in ShType
    BY <1>4 DEF Scripted
  <2>3. sh' \in ShType
    BY <1>25, <2>1, <2>2 DEF list_fails
  <2> QED BY <1>25, <2>3 DEF list_fails, StoreTypeOK, storeVars
<1>26. CASE isvalid_fails
  <2>1. PICK id \in sh.list :
          sh' = [sh EXCEPT !.list = @ \ {id}] /\ RemoveAdd(id) /\ RemoveDel(id)
    BY <1>26 DEF isvalid_fails
  <2>2. sh' \in ShType
    BY <1>2, <2>1 DEF ShType
  <2>3. StoreTypeOK'
    BY <1>26, <2>1 DEF isvalid_fails, StoreTypeOK, RemoveAdd, RemoveDel, instanceVars
  <2> QED BY <2>2, <2>3
<1>27. CASE group_fails
  <2>1. StoreTypeOK'
    BY <1>27 DEF group_fails, StoreTypeOK, RemoveAdd, RemoveDel, instanceVars
  <2> QED BY <1>3, <1>27, <2>1 DEF group_fails
<1>28. CASE reset_fails \/ check_layer_fails \/ delete_fails \/ is_all_new_layer_ok_fails
            \/ checked_call_fails \/ connection_fails
  <2>1. \A label \in {"list_del", "layer_set", "layer_loop", "del_loop", "list_again"} :
          To(label) \in ShType
    BY <1>4 DEF Scripted
  <2>2. sh' \in ShType /\ UNCHANGED storeVars
    BY <1>1, <1>3, <1>28, <2>1 DEF reset_fails, check_layer_fails, delete_fails,
         is_all_new_layer_ok_fails, checked_call_fails, connection_fails
  <2> QED BY <2>2 DEF StoreTypeOK, storeVars
<1>29. check_up \/ check_up_fails => StoreTypeOK' /\ sh' \in ShType
  BY <1>14 DEF check_up, check_up_fails
<1> QED
  BY <1>5, <1>6, <1>7, <1>8, <1>9, <1>10, <1>11, <1>12, <1>13, <1>15, <1>16, <1>17, <1>18, <1>19,
       <1>20, <1>21, <1>22, <1>23, <1>24, <1>25, <1>26, <1>27, <1>28, <1>29
       DEF CommitStep, CommitFails

\* ... and has an instance when it needs one.
LEMMA InstKept ==
  ASSUME CommitTypeOK, InstInv, CommitStep \/ StartCommit \/ KillCommit \/ CommitFails
  PROVE  InstInv'
<1>1. /\ DOMAIN sh = {"pc", "list", "inst", "none", "PARTITION_ID", "marks", "marked",
                      "groups", "dump"}
      /\ Stopped.pc \in {"idle", "dump"} /\ Idle.pc = "idle"
      /\ \A label : To(label).pc = label /\ To(label).inst = sh.inst
  BY DEF CommitTypeOK, Stopped, Idle, To
<1>2. CASE reset_new_layer
  BY <1>1, <1>2 DEF reset_new_layer, InstInv, Turn, At, To
<1>3. CASE list_plan
  BY <1>1, <1>3 DEF list_plan, InstInv, Turn, At, To
<1>4. CASE look_at_plan_add
  BY <1>1, <1>4 DEF look_at_plan_add, InstInv, Turn, At, To
<1>5. CASE loop_ends
  BY <1>1, <1>5 DEF loop_ends, Loops, InstInv, Turn, At, To
<1>6. CASE next_instance
  BY <1>1, <1>6, ZenonT(60) DEF next_instance, CommitTypeOK, Loops, Body, InstInv, Turn, At, To
<1>7. CASE del_get
  BY <1>1, <1>7 DEF del_get, InstInv, Turn, At, To
<1>8. CASE rm_job_list_del
  BY <1>1, <1>8 DEF rm_job_list_del, InstInv, Turn, At, To
<1>9. CASE delete_service_instance
  BY <1>1, <1>9 DEF delete_service_instance, InstInv, Turn, At, To
<1>10. CASE get_partition
  BY <1>1, <1>10 DEF get_partition, InstInv, Turn, At, To
<1>11. CASE check_up \/ check_up_fails
  BY <1>1, <1>11 DEF check_up, check_up_fails, CheckUp, InstInv, Turn, At
<1>12. CASE start_service_instance
  BY <1>1, <1>12 DEF start_service_instance, InstInv, Turn, At, To
<1>13. CASE rm_job_list_add
  BY <1>1, <1>13 DEF rm_job_list_add, InstInv, Turn, At, To
<1>14. CASE list_marks
  BY <1>1, <1>14 DEF list_marks, InstInv, Turn, At, To
<1>15. CASE mark_one
  BY <1>1, <1>15 DEF mark_one, InstInv, Turn, At, To
<1>16. CASE marks_end
  BY <1>1, <1>16 DEF marks_end, InstInv, Turn, At, To
<1>17. CASE is_all_new_layer_ok
  BY <1>1, <1>17 DEF is_all_new_layer_ok, InstInv, Turn, At, To
<1>18. CASE dump
  BY <1>1, <1>18 DEF dump, InstInv, Turn, At, To
<1>19. CASE connection_commit
  BY <1>1, <1>19 DEF connection_commit, InstInv, Turn, At, To
<1>20. CASE StartCommit
  BY <1>1, <1>20 DEF StartCommit, InstInv, Turn
<1>21. CASE KillCommit
  BY <1>1, <1>21 DEF KillCommit, InstInv, Turn
<1>22. CASE list_fails
  BY <1>1, <1>22, ZenonT(60) DEF list_fails, InstInv, Turn, At, To
<1>23. CASE isvalid_fails
  <2>1. sh'.pc = sh.pc /\ sh'.pc \notin Turn
    BY <1>1, <1>23 DEF isvalid_fails, Loops, Turn, CommitTypeOK
  <2> QED BY <2>1 DEF InstInv
<1>24. CASE reset_fails \/ check_layer_fails \/ delete_fails \/ is_all_new_layer_ok_fails
            \/ checked_call_fails \/ group_fails \/ connection_fails
  BY <1>1, <1>24 DEF reset_fails, check_layer_fails, delete_fails, is_all_new_layer_ok_fails,
       checked_call_fails, group_fails, connection_fails, InstInv, Turn, At
<1> QED
  BY <1>2, <1>3, <1>4, <1>5, <1>6, <1>7, <1>8, <1>9, <1>10, <1>11, <1>12, <1>13, <1>14, <1>15,
       <1>16, <1>17, <1>18, <1>19, <1>20, <1>21, <1>22, <1>23, <1>24 DEF CommitStep, CommitFails
-----------------------------------------------------------------------------
\* What a step of the commit may change of the instances and the job lists.
LEMMA CommitEffect ==
  ASSUME StoreTypeOK, CommitStep \/ StartCommit \/ KillCommit \/ CommitFails
  PROVE  /\ plan_add' \subseteq plan_add /\ plan_del' \subseteq plan_del
         /\ UNCHANGED <<node, created>>
         /\ sh.pc \notin {"del_inst", "start_set", "layer_set"} => state' = state
         /\ \A id \in Ids : state'[id] # state[id] =>
              /\ id = sh.inst /\ Exists(id)
              /\ \/ sh.pc = "del_inst" /\ state'[id] = "absent"
                 \/ sh.pc \in {"start_set", "layer_set"} /\ state'[id] = "RUNNING"
<1>1. CASE next_instance \/ isvalid_fails
  BY <1>1 DEF next_instance, isvalid_fails, RemoveAdd, RemoveDel, planVars, instanceVars
<1>2. CASE rm_job_list_del \/ group_fails
  BY <1>2 DEF rm_job_list_del, group_fails, RemoveDel, RemoveAdd, instanceVars
<1>3. CASE rm_job_list_add
  BY <1>3 DEF rm_job_list_add, RemoveAdd, instanceVars
<1>4. CASE delete_service_instance
  BY <1>4 DEF delete_service_instance, SetState, StoreTypeOK, planVars, At, Exists
<1>5. CASE start_service_instance
  BY <1>5 DEF start_service_instance, SetState, StoreTypeOK, planVars, Exists
<1>6. CASE UNCHANGED <<state, node, created, plan_add, plan_del>>
  BY <1>6
<1>7. reset_new_layer \/ list_plan \/ look_at_plan_add \/ loop_ends \/ del_get \/ get_partition
      \/ check_up \/ list_marks \/ mark_one \/ marks_end \/ is_all_new_layer_ok \/ dump
      \/ connection_commit \/ StartCommit \/ KillCommit
      \/ reset_fails \/ list_fails \/ check_up_fails \/ check_layer_fails \/ delete_fails
      \/ is_all_new_layer_ok_fails \/ checked_call_fails \/ connection_fails
      => UNCHANGED <<state, node, created, plan_add, plan_del>>
  BY DEF reset_new_layer, list_plan, look_at_plan_add, loop_ends, del_get, get_partition,
         check_up, list_marks, mark_one, marks_end, is_all_new_layer_ok, dump,
         connection_commit, StartCommit, KillCommit, storeVars, planVars, instanceVars,
         CheckUp, reset_fails, list_fails, check_up_fails, check_layer_fails, delete_fails,
         is_all_new_layer_ok_fails, checked_call_fails, connection_fails
<1> QED
  BY <1>1, <1>2, <1>3, <1>4, <1>5, <1>6, <1>7 DEF CommitStep, CommitFails

\* What a call of apply does if it does not give up the line, and which
\* may give it up, leaving everything else alone.
Effect(h) ==
  /\ calls' = Tail(calls) /\ UNCHANGED <<lines, line>>
  /\ IF h = "find_src" THEN src' \in Known ELSE src' = src
  /\ IF h = "create"
     THEN Create(line.part, line.to) /\ dst' = <<line.part, created[line.part] + 1>>
     ELSE /\ dst' = dst /\ UNCHANGED <<node, created>>
          /\ state' = IF h = "set_to_be_deleted"
                      THEN [state EXCEPT ![src] = "TO_BE_DELETED"] ELSE state
  /\ h = "exit_if_exist" => InstancesAt(line.part, line.to) = {}
  /\ h = "set_to_be_deleted" => Exists(src)
  /\ h = "put_dst_add" => plan_add' = plan_add \cup {dst}
  /\ h = "rm_src_add" => plan_add' = plan_add \ {src}
  /\ h # "put_dst_add" => plan_add' \subseteq plan_add
  /\ h = "put_src_del" => plan_del' = plan_del \cup {src}
  /\ h = "rm_dst_del" => plan_del' = plan_del \ {dst}
  /\ h # "put_src_del" => plan_del' \subseteq plan_del
  /\ h = "rm_src_del" => plan_del' = plan_del \ {src}
  /\ h \notin {"rm_dst_del", "rm_src_del", "put_src_del"} => plan_del' = plan_del
  /\ deletable \subseteq plan_del => deletable' \subseteq plan_del'
  /\ UNCHANGED <<up, plan_newlayer, connection>>

Stops == /\ calls' = <<>> /\ lines' \in {lines, <<>>} /\ UNCHANGED <<line, src, dst, storeVars>>
         /\ Head(calls) \in {"exit_if_not_exist", "exit_if_exist", "find_src",
                            "set_to_be_deleted"}
         /\ Head(calls) = "exit_if_exist" => InstancesAt(line.part, line.to) # {}

\* A call of apply gives up its line or has its effect.
LEMMA CallEffect ==
  ASSUME PlaceInv, ApplyStep, calls # <<>>
  PROVE  Stops \/ Effect(Head(calls))
<1> USE DEF Stops, Effect, Continue, Call, storeVars
<1>1. CASE exit_if_not_exist
  BY <1>1 DEF exit_if_not_exist, Exit
<1>2. CASE exit_if_exist
  BY <1>2 DEF exit_if_exist, Exit
<1>3. CASE subshell
  BY <1>3 DEF subshell
<1>4. CASE find_src
  BY <1>4 DEF find_src, Return, InstancesAt, PlaceInv
<1>5. CASE set_to_be_deleted
  BY <1>5 DEF set_to_be_deleted, Return, SetState, jobVars, planVars
<1>6. CASE create
  BY <1>6 DEF create, jobVars, planVars
<1>7. CASE rm_from_job_list
  BY <1>7 DEF rm_from_job_list, RemoveAdd, RemoveDel, instanceVars
<1>8. CASE put_to_job_list_add
  BY <1>8 DEF put_to_job_list_add, instanceVars
<1>9. CASE put_to_job_list_del
  BY <1>9 DEF put_to_job_list_del, instanceVars
<1> QED
  BY <1>1, <1>2, <1>3, <1>4, <1>5, <1>6, <1>7, <1>8, <1>9 DEF ApplyStep, read_line
-----------------------------------------------------------------------------
\* What create gives: an instance that was not there, on the line's node.
LEMMA CreateEffect ==
  ASSUME StoreTypeOK, LineInv, calls # <<>>, Effect("create")
  PROVE  /\ dst' \in Known' /\ dst' \notin Known /\ dst' \in Ids
         /\ PartOf(dst') = line.part /\ line.part \in Partitions /\ line.to \in Nodes
         /\ state' = [state EXCEPT ![dst'] = "NEW"] /\ node' = [node EXCEPT ![dst'] = line.to]
         /\ created' \in [Partitions -> 0..MaxInstances]
         /\ Known \subseteq Known'
<1>1. line.part \in Partitions /\ line.to \in Nodes
  BY DEF LineInv, PlanLines
<1>2. /\ dst' = <<line.part, created[line.part] + 1>>
      /\ created[line.part] + 1 \in 1..MaxInstances
      /\ created' = [created EXCEPT ![line.part] = @ + 1]
      /\ state' = [state EXCEPT ![dst'] = "NEW"] /\ node' = [node EXCEPT ![dst'] = line.to]
  <2>1. Create(line.part, line.to) /\ dst' = <<line.part, created[line.part] + 1>>
    BY DEF Effect
  <2>2. created[line.part] \in 0..MaxInstances /\ created[line.part] < MaxInstances
    BY <1>1, <2>1 DEF Create, StoreTypeOK
  <2> QED BY <2>1, <2>2, StoreAssumption DEF Create
<1>3. dst' \in Ids /\ dst'[1] = line.part /\ dst'[2] = created[line.part] + 1
  BY <1>1, <1>2 DEF Ids
<1>4. \A p \in Partitions : /\ created[p] \in Nat /\ created'[p] \in Nat
                            /\ created[p] <= created'[p] /\ created'[p] \in 0..MaxInstances
  BY <1>1, <1>2, StoreAssumption DEF StoreTypeOK
<1>5. \A id \in Ids : id[1] \in Partitions /\ id[2] \in Nat
  BY DEF Ids
<1>6. created' \in [Partitions -> 0..MaxInstances]
  BY <1>1, <1>2, <1>4 DEF StoreTypeOK
<1>7. Known \subseteq Known'
  BY <1>4, <1>5 DEF Known, PartOf
<1>8. dst' \in Known' /\ dst' \notin Known
  BY <1>1, <1>2, <1>3 DEF Known, PartOf, StoreTypeOK
<1> QED BY <1>1, <1>2, <1>3, <1>6, <1>7, <1>8 DEF PartOf

\* A call in the middle of a line keeps what is known of its instances.
LEMMA LineGoesOn ==
  ASSUME StoreTypeOK, LineInv, calls # <<>>, Effect(Head(calls)), UNCHANGED regime
  PROVE  LineInv'
<1> DEFINE h == Head(calls)
           n == Len(calls')
<1>1. /\ Shape(calls') /\ n = Len(calls) - 1 /\ h = calls[1] /\ calls' = Tail(calls)
      /\ \A i \in 1..n : calls'[i] = calls[i + 1] /\ i + 1 \in 1..Len(calls) /\ 1 \in 1..Len(calls)
      /\ n \in Nat
  <2>1. Shape(calls) /\ calls' = Tail(calls)
    BY DEF LineInv, Effect
  <2>2. /\ Shape(Tail(calls)) /\ Len(Tail(calls)) = Len(calls) - 1 /\ Head(calls) = calls[1]
        /\ \A i \in 1..Len(Tail(calls)) : Tail(calls)[i] = calls[i + 1]
    BY <2>1, TailShape, Zenon
  <2>3. Len(calls) \in Nat /\ Len(Tail(calls)) \in Nat
    BY <2>1, <2>2 DEF Shape
  <2> QED BY <2>1, <2>2, <2>3
<1>2. /\ h = "find_src" => src' \in Known
      /\ h # "find_src" => src' = src
      /\ h # "create" => dst' = dst
      /\ h \notin {"create", "set_to_be_deleted"} => state' = state
      /\ h = "set_to_be_deleted" => state' = [state EXCEPT ![src] = "TO_BE_DELETED"]
  BY DEF Effect
<1>3. ASSUME h = "create"
      PROVE  /\ dst' \in Known' /\ dst' \notin Known /\ state'[dst'] = "NEW"
             /\ \A id \in Ids : id # dst' => state'[id] = state[id]
  BY <1>3, CreateEffect DEF StoreTypeOK
<1>4. Known \subseteq Known' /\ Known \subseteq Ids
  <2>1. CASE h = "create"
    BY <2>1, CreateEffect DEF Known
  <2>2. CASE h # "create"
    BY <2>2 DEF Effect, Known
  <2> QED BY <2>1, <2>2
<1>5. \A i \in 1..n, name \in Calls :
        h # name /\ ~Holds(calls', name, i) => ~Holds(calls, name, i + 1)
  <2> SUFFICES ASSUME NEW i \in 1..n, NEW name \in Calls, h # name,
                      NEW j \in 1..(i + 1), calls[j] = name
               PROVE  Holds(calls', name, i)
    BY DEF Holds
  <2>1. j - 1 \in 1..i /\ j - 1 \in 1..n /\ (j - 1) + 1 = j
    BY <1>1
  <2> QED BY <1>1, <2>1 DEF Holds
<1> HIDE DEF h, n
<1>6. ASSUME NEW i \in 1..n, calls'[i] = "put_dst_add", ~Holds(calls', "create", i)
      PROVE  /\ dst' \in Known'
             /\ regime.locked => state'[dst'] # "TO_BE_DELETED"
             /\ \A j \in 1..n : calls'[j] # "set_to_be_deleted"
  <2>1. CASE h = "create"
    <3>1. \A k \in 1..Len(calls) : 1 < k => calls[k] # "set_to_be_deleted"
      <4>1. Shape(calls) /\ 1 \in 1..Len(calls) /\ calls[1] = "create"
        BY <1>1, <1>6, <2>1 DEF LineInv
      <4> QED BY <4>1 DEF Shape
    <3>2. \A j \in 1..n : calls'[j] # "set_to_be_deleted"
      BY <1>1, <3>1
    <3> QED BY <1>3, <2>1, <3>2
  <2>2. CASE h # "create"
    <3>1. /\ calls[i + 1] = "put_dst_add" /\ ~Holds(calls, "create", i + 1)
          /\ i + 1 \in 1..Len(calls)
      BY <1>1, <1>5, <1>6, <2>2 DEF Calls
    <3>2. /\ dst \in Known
          /\ regime.locked => state[dst] # "TO_BE_DELETED"
          /\ \A j \in 1..Len(calls) : calls[j] # "set_to_be_deleted"
      BY <3>1 DEF LineInv
    <3>3. h # "set_to_be_deleted" /\ \A j \in 1..n : calls'[j] # "set_to_be_deleted"
      BY <1>1, <3>1, <3>2
    <3>4. dst' = dst /\ state' = state
      BY <1>2, <2>2, <3>3
    <3> QED BY <1>4, <3>2, <3>3, <3>4
  <2> QED BY <2>1, <2>2
<1>7. ASSUME NEW i \in 1..n, ~Holds(calls', "find_src", i),
             calls'[i] \in {"set_to_be_deleted", "rm_src_add", "put_src_del"}
      PROVE  src' \in Known'
  <2>1. CASE h = "find_src"
    BY <1>2, <1>4, <2>1
  <2>2. CASE h # "find_src"
    <3>1. /\ calls[i + 1] = calls'[i] /\ ~Holds(calls, "find_src", i + 1)
          /\ i + 1 \in 1..Len(calls)
      BY <1>1, <1>5, <1>7, <2>2 DEF Calls
    <3> QED BY <1>2, <1>4, <1>7, <2>2, <3>1 DEF LineInv
  <2> QED BY <2>1, <2>2
<1>8. ASSUME NEW i \in 1..n, ~Holds(calls', "set_to_be_deleted", i), regime.locked,
             calls'[i] \in {"rm_src_add", "put_src_del"}
      PROVE  Gone(src)'
  <2>1. CASE h = "set_to_be_deleted"
    <3>1. ~Holds(calls, "find_src", 1) /\ 1 \in 1..Len(calls)
      <4>1. \A j \in 1..1 : j = 1
        OBVIOUS
      <4> QED BY <1>1, <2>1, <4>1 DEF Holds
    <3>2. src \in Ids /\ src' = src
      BY <1>1, <1>2, <1>4, <2>1, <3>1 DEF LineInv
    <3> QED BY <1>2, <2>1, <3>2 DEF Gone, StoreTypeOK
  <2>2. CASE h # "set_to_be_deleted"
    <3>1. calls[i + 1] = calls'[i] /\ ~Holds(calls, "set_to_be_deleted", i + 1)
          /\ i + 1 \in 1..Len(calls)
      BY <1>1, <1>5, <1>8, <2>2 DEF Calls
    <3>2. ~Holds(calls, "find_src", i + 1)
      <4> SUFFICES ASSUME NEW j \in 1..(i + 1), calls[j] = "find_src" PROVE FALSE
        BY DEF Holds
      <4>1. j < i + 1 /\ j \in 1..Len(calls)
        BY <1>1, <1>8, <3>1
      <4>2. PICK k \in j..(i + 1) : calls[k] = "set_to_be_deleted"
        BY <1>8, <3>1, <4>1 DEF LineInv, Shape
      <4> QED BY <3>1, <4>2 DEF Holds
    <3>3. src \in Known /\ Gone(src)
      BY <1>8, <3>1, <3>2 DEF LineInv
    <3>4. h # "find_src"
      BY <1>1, <3>2 DEF Holds
    <3> QED BY <1>2, <1>3, <1>4, <2>2, <3>3, <3>4 DEF Gone
  <2> QED BY <2>1, <2>2
<1>9. lines' \in Seq(PlanLines) /\ (calls' # <<>> => line' \in PlanLines)
  BY DEF LineInv, Effect
<1> QED BY <1>1, <1>6, <1>7, <1>8, <1>9 DEF LineInv, n
-----------------------------------------------------------------------------
\* The kinds of steps: apply reads a line, makes a call or gives up, one of the
\* scripts begins or is killed, the commit moves, or an agent.
Quiet == /\ UNCHANGED <<instanceVars, jobVars, connection, applyVars, sh, regime>>
         /\ up \subseteq Ids => up' \subseteq Ids
Reads == read_line /\ UNCHANGED <<sh, regime>>
Calling == calls # <<>> /\ Effect(Head(calls)) /\ ~ApplyIdle /\ UNCHANGED <<sh, regime>>
Ends ==
  /\ calls' = <<>> /\ lines' \in {lines, <<>>} /\ UNCHANGED <<storeVars, sh, regime>>
  /\ ~ApplyIdle
  /\ UNCHANGED <<line, src, dst>> \/ (line' = NoLine /\ src' = NoId /\ dst' = NoId)
  /\ calls # <<>> /\ Head(calls) \in {"rm_src_add", "rm_src_del", "put_src_del"} => MayBeKilled
Begins == /\ ApplyIdle /\ lines' \in Plans /\ UNCHANGED <<calls, storeVars, sh, regime>>
          /\ regime.locked => ~CommitRunning
          /\ UNCHANGED <<line, src, dst>>
CommitMoves ==
  /\ CommitStep \/ StartCommit \/ (MayBeKilled /\ KillCommit) \/ (MayFail /\ CommitFails)
  /\ regime.locked /\ (CommitRunning \/ sh'.pc \in Scripted) => ApplyIdle
  /\ UNCHANGED <<applyVars, regime>>

\* The script starts only when cron starts it.
LEMMA CommitGoesOn ==
  ASSUME CommitTypeOK, CommitStep \/ KillCommit \/ CommitFails
  PROVE  sh'.pc \in Scripted => CommitRunning
<1>1. /\ DOMAIN sh = {"pc", "list", "inst", "none", "PARTITION_ID", "marks", "marked",
                      "groups", "dump"}
      /\ Stopped.pc \in {"idle", "dump"} /\ Idle.pc = "idle"
      /\ \A label : To(label).pc = label
  BY DEF CommitTypeOK, Stopped, Idle, To
<1>2. "idle" \notin Scripted /\ "dump" \notin Scripted /\ "connect" \notin Scripted
  BY DEF Scripted
<1>3. sh.pc \in Scripted \cup {"idle", "dump", "connect"}
  BY DEF CommitTypeOK
<1>4. CASE KillCommit
  BY <1>1, <1>2, <1>4 DEF KillCommit
<1>5. CASE dump \/ connection_commit
  BY <1>1, <1>2, <1>5, ZenonT(60) DEF dump, connection_commit, To, CommitTypeOK
<1>6. CASE ~(dump \/ connection_commit) /\ CommitStep
  <2>1. sh.pc \notin {"idle", "dump", "connect"}
    BY <1>6 DEF CommitStep, At, reset_new_layer, list_plan, look_at_plan_add, loop_ends,
         next_instance, Loops, del_get, rm_job_list_del, delete_service_instance, get_partition,
         check_up, CheckUp, start_service_instance, rm_job_list_add, list_marks, mark_one,
         marks_end, is_all_new_layer_ok
  <2> QED BY <1>3, <2>1 DEF CommitRunning
<1>7. CASE connection_fails
  BY <1>1, <1>2, <1>7 DEF connection_fails
<1>8. CASE ~connection_fails /\ CommitFails
  <2>1. sh.pc \notin {"idle", "dump", "connect"}
    BY <1>8 DEF CommitFails, At, reset_fails, list_fails, isvalid_fails, Loops, check_up_fails,
         CheckUp, check_layer_fails, delete_fails, is_all_new_layer_ok_fails, checked_call_fails,
         Checked, group_fails
  <2> QED BY <1>3, <2>1 DEF CommitRunning
<1> QED BY <1>4, <1>5, <1>6, <1>7, <1>8

\* There are no other steps.
LEMMA Kinds ==
  ASSUME TypeOK, PlaceInv, LockInv, [Next]_vars
  PROVE  Quiet \/ Reads \/ Calling \/ Ends \/ Begins \/ CommitMoves
<1>1. CASE BeginApply
  BY <1>1 DEF BeginApply, StartApply, Begins
<1>2. CASE Apply
  <2>1. CASE calls = <<>>
    BY <1>2, <2>1 DEF Apply, ApplyStep, Reads, Call, exit_if_not_exist, exit_if_exist, subshell,
      find_src, set_to_be_deleted, create, rm_from_job_list, put_to_job_list_add,
      put_to_job_list_del
  <2>2. CASE calls # <<>>
    BY <1>2, <2>2, CallEffect DEF Apply, Stops, Ends, Calling, ApplyIdle
  <2> QED BY <2>1, <2>2
<1>3. CASE BeginCommit
  BY <1>3 DEF BeginCommit, CommitMoves
<1>4. CASE Commit
  BY <1>4, CommitGoesOn DEF Commit, CommitMoves, LockInv, TypeOK
<1>5. CASE \E id \in Ids : Agent(id)
  BY <1>5 DEF Agent, InstanceComesUp, Quiet
<1>6. CASE Mishap
  <2>1. CASE MayBeKilled /\ KillApply /\ UNCHANGED sh
    BY <1>6, <2>1 DEF Mishap, KillApply, Ends
  <2>2. CASE MayBeKilled /\ KillCommit /\ UNCHANGED applyVars
    BY <1>6, <2>2, CommitGoesOn DEF Mishap, CommitMoves, LockInv, TypeOK
  <2>3. CASE MayFail /\ CommitFails /\ UNCHANGED applyVars
    BY <1>6, <2>3, CommitGoesOn DEF Mishap, CommitMoves, LockInv, TypeOK
  <2>4. CASE (\E id \in Ids : InstanceGoesDown(id)) /\ UNCHANGED <<applyVars, sh>>
    BY <1>6, <2>4 DEF Mishap, InstanceGoesDown, Quiet
  <2> QED BY <1>6, <2>1, <2>2, <2>3, <2>4 DEF Mishap
<1>7. CASE UNCHANGED vars
  BY <1>7 DEF vars, Quiet, storeVars, instanceVars, jobVars, planVars
<1> QED BY <1>1, <1>2, <1>3, <1>4, <1>5, <1>6, <1>7 DEF Next

\* Each step keeps what is known of the current line.
LEMMA LineKept ==
  ASSUME TypeOK, LineInv, PlaceInv, LockInv, [Next]_vars
  PROVE  LineInv'
<1>1. Quiet \/ Reads \/ Calling \/ Ends \/ Begins \/ CommitMoves
  BY Kinds
<1>2. CASE Quiet
  BY <1>2 DEF Quiet, instanceVars, applyVars, LineInv, Gone, Known, Holds
<1>3. CASE Reads
  <2> DEFINE s == CallsOf(Head(lines).op)
  <2>1. Head(lines) \in PlanLines /\ Tail(lines) \in Seq(PlanLines)
    BY <1>3 DEF Reads, read_line, LineInv
  <2>2. calls' = s /\ lines' = Tail(lines) /\ line' = Head(lines)
    BY <1>3 DEF Reads, read_line
  <2>3. Shape(s) /\ Whole(s)
    BY <2>1, CallsShape DEF PlanLines
  <2> HIDE DEF s
  <2> QED BY <2>1, <2>2, <2>3 DEF LineInv, Whole, Holds
<1>4. CASE Calling
  BY <1>4, LineGoesOn DEF Calling, TypeOK
<1>5. CASE Ends
  <2>1. lines' \in Seq(PlanLines)
    <3>1. <<>> \in Seq(PlanLines)
      OBVIOUS
    <3>2. lines \in Seq(PlanLines)
      BY DEF LineInv
    <3> QED BY <1>5, <3>1, <3>2 DEF Ends
  <2>2. calls' = <<>> /\ Shape(<<>>)
    BY <1>5 DEF Ends, Shape
  <2> QED BY <2>1, <2>2 DEF LineInv
<1>6. CASE Begins
  BY <1>6, PlansAssumption DEF Begins, ApplyIdle, LineInv, Shape
<1>7. CASE CommitMoves
  <2>1. UNCHANGED <<applyVars, regime, created>>
    BY <1>7, CommitEffect DEF CommitMoves, TypeOK
  <2>2. CASE calls = <<>>
    BY <2>1, <2>2 DEF applyVars, LineInv, Shape
  <2>3. CASE calls # <<>>
    <3>1. regime.locked => ~CommitRunning
      BY <1>7, <2>3 DEF CommitMoves, ApplyIdle
    <3>2. regime.locked => state' = state
      BY <1>7, <3>1, CommitEffect DEF CommitMoves, TypeOK, CommitRunning, Scripted
    <3> QED BY <2>1, <3>2 DEF applyVars, LineInv, Gone, Known, Holds
  <2> QED BY <2>2, <2>3
<1> QED BY <1>1, <1>2, <1>3, <1>4, <1>5, <1>6, <1>7
-----------------------------------------------------------------------------
\* Where a call of a line stands: first, or second, which comes next.
LEMMA AtHead ==
  ASSUME LineInv, Calling
  PROVE  /\ 1 \in 1..Len(calls) /\ Head(calls) = calls[1]
         /\ \A name \in Calls : Head(calls) # name => ~Holds(calls, name, 1)
         /\ calls' # <<>> => /\ 2 \in 2..Len(calls) /\ Head(calls') = calls[2]
                             /\ calls[1] = calls[2 - 1]
         /\ Len(calls) > 1 => calls' # <<>> /\ Head(calls') = calls[2]
<1>1. Shape(calls) /\ calls' = Tail(calls) /\ calls # <<>>
  BY DEF LineInv, Calling, Effect
<1>2. /\ Shape(Tail(calls)) /\ Len(Tail(calls)) = Len(calls) - 1 /\ Head(calls) = calls[1]
      /\ \A i \in 1..Len(Tail(calls)) : Tail(calls)[i] = calls[i + 1]
  BY <1>1, TailShape, Zenon
<1>3. calls \in Seq(Calls) /\ Len(calls) \in Nat \ {0}
  BY <1>1 DEF Shape
<1>4. ASSUME NEW name \in Calls, Head(calls) # name PROVE ~Holds(calls, name, 1)
  BY <1>2, <1>4 DEF Holds
<1>5. calls' # <<>> => /\ Len(calls) > 1 /\ 2 \in 2..Len(calls) /\ Head(calls') = calls[2]
                       /\ calls[1] = calls[2 - 1]
  <2> SUFFICES ASSUME Tail(calls) # <<>>
               PROVE  /\ Len(calls) > 1 /\ 2 \in 2..Len(calls) /\ Head(Tail(calls)) = calls[2]
                      /\ calls[1] = calls[2 - 1]
    BY <1>1
  <2>1. Tail(calls) \in Seq(Calls) /\ Len(Tail(calls)) \in Nat \ {0}
    BY <1>1, <1>2, <1>3
  <2>2. Len(calls) > 1 /\ 1 \in 1..Len(Tail(calls))
    BY <1>2, <1>3, <2>1
  <2>3. Head(Tail(calls)) = Tail(calls)[1] /\ Tail(calls)[1] = calls[1 + 1]
    BY <1>2, <2>1, <2>2
  <2> QED BY <1>3, <2>2, <2>3
<1>6. Len(calls) > 1 => calls' # <<>>
  <2>1. Len(<<>>) = 0
    OBVIOUS
  <2> QED BY <1>1, <1>2, <1>3, <2>1
<1> QED BY <1>2, <1>3, <1>4, <1>5, <1>6

\* Each step keeps the lists disjoint.
LEMMA ListKept ==
  ASSUME TypeOK, LineInv, ListInv, PlaceInv, LockInv, [Next]_vars
  PROVE  ListInv'
<1>1. Quiet \/ Reads \/ Calling \/ Ends \/ Begins \/ CommitMoves
  BY Kinds
<1>2. CASE Quiet
  BY <1>2 DEF Quiet, jobVars, planVars, applyVars, ListInv
<1>3. CASE Reads
  <2>1. Whole(calls') /\ calls' = CallsOf(Head(lines).op) /\ Shape(calls')
    <3>1. Head(lines) \in PlanLines
      BY <1>3 DEF Reads, read_line, LineInv
    <3> QED BY <1>3, <3>1, CallsShape DEF PlanLines, Reads, read_line
  <2>2. calls' # <<>> => Head(calls') = calls'[1]
    BY <2>1 DEF Shape
  <2>3. UNCHANGED <<plan_add, plan_del>>
    BY <1>3 DEF Reads, read_line, storeVars
  <2> QED BY <2>1, <2>2, <2>3 DEF ListInv, Whole
<1>4. CASE Calling
  <2> DEFINE h == Head(calls)
  <2>1. /\ calls' # <<>> /\ Head(calls') = "put_dst_add" => h = "rm_dst_del"
        /\ calls' # <<>> /\ Head(calls') = "rm_src_del" => h = "rm_src_add"
        /\ calls' # <<>> /\ Head(calls') = "put_src_del" => h = "rm_src_del"
    BY <1>4, AtHead DEF LineInv, Shape
  <2>2. Effect(h)
    BY <1>4 DEF Calling
  <2>3. h = "put_dst_add" => dst \notin plan_del
    BY <1>4 DEF ListInv, Calling
  <2>4. h \in {"rm_src_del", "put_src_del"} => src \notin plan_add
    BY <1>4 DEF ListInv, Calling
  <2> HIDE DEF h
  <2>5. plan_add' \cap plan_del' = {}
    BY <2>2, <2>3, <2>4 DEF ListInv, Effect
  <2>6. calls' # <<>> /\ Head(calls') = "put_dst_add" => dst' \notin plan_del'
    BY <2>1, <2>2 DEF Effect
  <2>7. calls' # <<>> /\ Head(calls') \in {"rm_src_del", "put_src_del"} => src' \notin plan_add'
    BY <2>1, <2>2, <2>4 DEF Effect
  <2> QED BY <2>5, <2>6, <2>7 DEF ListInv
<1>5. CASE Ends
  BY <1>5 DEF Ends, storeVars, ListInv
<1>6. CASE Begins
  BY <1>6 DEF Begins, ApplyIdle, storeVars, ListInv
<1>7. CASE CommitMoves
  BY <1>7, CommitEffect DEF CommitMoves, applyVars, ListInv, TypeOK
<1> QED BY <1>1, <1>2, <1>3, <1>4, <1>5, <1>6, <1>7

\* Each step keeps at most one instance of a partition on a node.
LEMMA PlaceKept ==
  ASSUME TypeOK, LineInv, PlaceInv, LockInv, [Next]_vars
  PROVE  PlaceInv'
<1>1. Quiet \/ Reads \/ Calling \/ Ends \/ Begins \/ CommitMoves
  BY Kinds
<1>2. CASE Quiet
  BY <1>2 DEF Quiet, instanceVars, jobVars, planVars, applyVars, PlaceInv, Exists, Known,
       InstancesAt
<1>3. CASE Reads
  <2>1. Whole(calls') /\ calls' = CallsOf(Head(lines).op) /\ Shape(calls')
    <3>1. Head(lines) \in PlanLines
      BY <1>3 DEF Reads, read_line, LineInv
    <3> QED BY <1>3, <3>1, CallsShape DEF PlanLines, Reads, read_line
  <2>2. calls' # <<>> => Head(calls') = calls'[1]
    BY <2>1 DEF Shape
  <2>3. UNCHANGED storeVars
    BY <1>3 DEF Reads, read_line
  <2> QED BY <2>1, <2>2, <2>3 DEF PlaceInv, Whole, storeVars, Exists, Known
<1>4. CASE Calling
  <2> DEFINE h == Head(calls)
  <2>1. Effect(h)
    BY <1>4 DEF Calling
  <2>2. calls' # <<>> /\ Head(calls') = "create" => h = "exit_if_exist"
    BY <1>4, AtHead DEF LineInv, Shape
  <2> HIDE DEF h
  <2>3. CASE h = "create"
    <3>1. /\ dst' \in Known' /\ dst' \notin Known /\ dst' \in Ids /\ PartOf(dst') = line.part
          /\ state' = [state EXCEPT ![dst'] = "NEW"] /\ node' = [node EXCEPT ![dst'] = line.to]
          /\ Known \subseteq Known'
      BY <1>4, <2>1, <2>3, CreateEffect DEF TypeOK, Calling
    <3>2. InstancesAt(line.part, line.to) = {} /\ ~Exists(dst')
      BY <1>4, <2>3, <3>1 DEF PlaceInv, Calling, h
    <3>3. \A id \in Ids : Exists(id)' => id = dst' \/ (Exists(id) /\ node'[id] = node[id])
      BY <3>1, <3>2 DEF Exists, TypeOK, StoreTypeOK
    <3>4. node'[dst'] = line.to
      BY <3>1 DEF TypeOK, StoreTypeOK
    <3>5. \A id \in Ids : Exists(id) /\ PartOf(id) = line.part => node[id] # line.to
      BY <3>2 DEF InstancesAt
    <3>6. \A a, b \in Ids :
            PartOf(a) = PartOf(b) /\ Exists(a)' /\ Exists(b)' /\ node'[a] = node'[b] => a = b
      BY <3>1, <3>3, <3>4, <3>5 DEF PlaceInv
    <3>7. plan_del' \subseteq Known'
      BY <2>1, <2>3, <3>1 DEF Effect, PlaceInv
    <3>8. \A id \in Ids : Exists(id)' => id \in Known'
      BY <3>1, <3>3 DEF PlaceInv
    <3>9. ~(calls' # <<>> /\ Head(calls') = "create")
      BY <2>2, <2>3
    <3> QED BY <3>6, <3>7, <3>8, <3>9 DEF PlaceInv, PartOf
  <2>4. CASE h # "create"
    <3>1. Known' = Known /\ node' = node
      BY <2>1, <2>4 DEF Effect, Known
    <3>2. \A id \in Ids : Exists(id)' => Exists(id)
      BY <2>1, <2>4 DEF Effect, Exists, TypeOK, StoreTypeOK
    <3>3. h = "put_src_del" => src \in Known
      BY <1>4, AtHead DEF LineInv, h, Calls
    <3>4. plan_del' \subseteq Known
      BY <2>1, <3>3 DEF Effect, PlaceInv
    <3>5. \A a, b \in Ids :
            PartOf(a) = PartOf(b) /\ Exists(a)' /\ Exists(b)' /\ node'[a] = node'[b] => a = b
      BY <3>1, <3>2 DEF PlaceInv
    <3>6. calls' # <<>> /\ Head(calls') = "create" => InstancesAt(line.part, line.to)' = {}
      BY <2>1, <2>2, <3>1, <3>2 DEF Effect, InstancesAt
    <3> QED BY <3>1, <3>2, <3>4, <3>5, <3>6 DEF PlaceInv
  <2> QED BY <2>3, <2>4
<1>5. CASE Ends
  BY <1>5 DEF Ends, storeVars, PlaceInv, Exists, Known
<1>6. CASE Begins
  BY <1>6 DEF Begins, ApplyIdle, storeVars, PlaceInv, Exists, Known
<1>7. CASE CommitMoves
  <2>1. /\ UNCHANGED <<node, created, applyVars>> /\ plan_del' \subseteq plan_del
        /\ \A id \in Ids : Exists(id)' => Exists(id)
    BY <1>7, CommitEffect DEF CommitMoves, TypeOK, Exists
  <2> QED BY <2>1 DEF applyVars, PlaceInv, Known, InstancesAt
<1> QED BY <1>1, <1>2, <1>3, <1>4, <1>5, <1>6, <1>7
-----------------------------------------------------------------------------
\* How the commit gets where it deletes and where it starts an instance.
LEMMA CommitPlaces ==
  ASSUME CommitTypeOK, CommitStep \/ StartCommit \/ KillCommit \/ CommitFails
  PROVE  /\ sh'.pc = "del_inst" => sh'.inst = sh.inst /\ sh.inst \in plan_del /\ state' = state
         /\ sh'.pc \in {"start_up", "start_set", "layer_set"} =>
              /\ sh'.inst = sh.inst /\ plan_add' = plan_add
              /\ sh.inst \in plan_add \/ sh.pc = "start_up"
<1>1. /\ Stopped.pc \in {"idle", "dump"} /\ Idle.pc = "idle"
      /\ \A label : To(label).pc = label /\ To(label).inst = sh.inst
  BY DEF CommitTypeOK, Stopped, Idle, To
<1>2. CASE rm_job_list_del
  <2>1. /\ [To("del_inst") EXCEPT !.groups = TRUE].pc = "del_inst"
        /\ [To("del_inst") EXCEPT !.groups = TRUE].inst = sh.inst
    BY DEF CommitTypeOK, To
  <2> QED BY <1>1, <1>2, <2>1 DEF rm_job_list_del, instanceVars
<1>3. CASE get_partition
  BY <1>1, <1>3 DEF get_partition, storeVars
<1>4. CASE check_up \/ check_up_fails
  BY <1>1, <1>4 DEF check_up, check_up_fails, CheckUp, At, planVars
<1>5. CASE reset_new_layer
  BY <1>1, <1>5 DEF reset_new_layer, CommitTypeOK, To
<1>6. CASE list_plan
  BY <1>1, <1>6 DEF list_plan, CommitTypeOK, To
<1>7. CASE look_at_plan_add
  BY <1>1, <1>7 DEF look_at_plan_add, CommitTypeOK, To
<1>8. CASE loop_ends
  BY <1>1, <1>8 DEF loop_ends, CommitTypeOK, To, Loops, At
<1>9. CASE next_instance
  <2>1. \A l \in Loops : Body[l] \in {"del_get", "start_get", "layer_get"}
    BY DEF Loops, Body
  <2>2. \A l \in Loops : l \notin {"del_inst", "start_up", "start_set", "layer_set"}
    BY DEF Loops
  <2>3. sh'.pc \in {Body[sh.pc], sh.pc} /\ sh.pc \in Loops
    BY <1>9 DEF next_instance, CommitTypeOK
  <2> QED BY <2>1, <2>2, <2>3
<1>10. CASE del_get
  BY <1>1, <1>10 DEF del_get, CommitTypeOK, To
<1>11. CASE delete_service_instance
  BY <1>1, <1>11 DEF delete_service_instance, CommitTypeOK, To
<1>12. CASE start_service_instance
  BY <1>1, <1>12 DEF start_service_instance, CommitTypeOK, To
<1>13. CASE rm_job_list_add
  BY <1>1, <1>13 DEF rm_job_list_add, CommitTypeOK, To
<1>14. CASE list_marks
  BY <1>1, <1>14 DEF list_marks, CommitTypeOK, To
<1>15. CASE mark_one
  BY <1>1, <1>15 DEF mark_one, CommitTypeOK, To, At
<1>16. CASE marks_end
  BY <1>1, <1>16 DEF marks_end, CommitTypeOK, To
<1>17. CASE is_all_new_layer_ok
  BY <1>1, <1>17 DEF is_all_new_layer_ok, CommitTypeOK, To
<1>18. CASE dump
  BY <1>1, <1>18 DEF dump, CommitTypeOK, To
<1>19. CASE connection_commit
  BY <1>1, <1>19 DEF connection_commit, CommitTypeOK, To
<1>20. CASE StartCommit \/ KillCommit
  BY <1>1, <1>20 DEF StartCommit, KillCommit
<1>21. CASE list_fails
  BY <1>1, <1>21 DEF list_fails, CommitTypeOK, To
<1>22. CASE isvalid_fails
  <2>1. sh'.pc = sh.pc /\ sh.pc \in Loops
    BY <1>22 DEF isvalid_fails, CommitTypeOK, Loops
  <2> QED BY <2>1 DEF Loops
<1>23. CASE check_layer_fails
  BY <1>1, <1>23 DEF check_layer_fails, storeVars
<1>24. CASE reset_fails \/ delete_fails \/ is_all_new_layer_ok_fails \/ checked_call_fails
            \/ group_fails \/ connection_fails
  BY <1>1, <1>24 DEF reset_fails, delete_fails, is_all_new_layer_ok_fails, checked_call_fails,
       group_fails, connection_fails
<1> QED
  BY <1>2, <1>3, <1>4, <1>5, <1>6, <1>7, <1>8, <1>9, <1>10, <1>11, <1>12, <1>13, <1>14, <1>15,
       <1>16, <1>17, <1>18, <1>19, <1>20, <1>21, <1>22, <1>23, <1>24 DEF CommitStep, CommitFails

\* Each step keeps what holds under the lock.
LEMMA LockKept ==
  ASSUME TypeOK, LineInv, ListInv, PlaceInv, InstInv, LockInv, [Next]_vars
  PROVE  LockInv'
<1> SUFFICES ASSUME regime'.locked
             PROVE  /\ CommitRunning' => ApplyIdle'
                    /\ \A id \in plan_del' : Gone(id)'
                    /\ sh'.pc = "del_inst" => Gone(sh.inst)'
                    /\ sh'.pc \in {"start_up", "start_set", "layer_set"} =>
                         sh'.inst \in plan_add'
  BY DEF LockInv
<1>1. Quiet \/ Reads \/ Calling \/ Ends \/ Begins \/ CommitMoves
  BY Kinds
<1>2. regime' = regime /\ regime.locked
  BY <1>1 DEF Quiet, Reads, Calling, Ends, Begins, CommitMoves
<1>3. /\ CommitRunning => ApplyIdle
      /\ \A id \in plan_del : Gone(id)
      /\ sh.pc = "del_inst" => Gone(sh.inst)
      /\ sh.pc \in {"start_up", "start_set", "layer_set"} => sh.inst \in plan_add
  BY <1>2 DEF LockInv
<1>4. "del_inst" \in Scripted /\ {"start_up", "start_set", "layer_set"} \subseteq Scripted
  BY DEF Scripted
<1>5. CASE Quiet
  BY <1>3, <1>5 DEF Quiet, instanceVars, jobVars, planVars, applyVars, Gone, CommitRunning,
       ApplyIdle
<1>6. CASE Reads
  <2>1. ~ApplyIdle /\ UNCHANGED <<state, plan_add, plan_del, sh>>
    BY <1>6 DEF Reads, read_line, ApplyIdle, storeVars
  <2> QED BY <1>3, <2>1 DEF Gone, CommitRunning
<1>7. CASE Ends
  <2>1. ~ApplyIdle /\ UNCHANGED <<state, plan_add, plan_del, sh>>
    BY <1>7 DEF Ends, storeVars
  <2> QED BY <1>3, <2>1 DEF Gone, CommitRunning
<1>8. CASE Begins
  <2>1. ~CommitRunning /\ UNCHANGED <<state, plan_add, plan_del, sh>>
    BY <1>2, <1>8 DEF Begins, storeVars
  <2> QED BY <1>3, <2>1 DEF Gone, CommitRunning
<1>9. CASE Calling
  <2> DEFINE h == Head(calls)
  <2>1. ~CommitRunning /\ ~CommitRunning' /\ Effect(h) /\ sh' = sh
    BY <1>3, <1>9 DEF Calling, CommitRunning
  <2>2. sh'.pc \notin {"del_inst", "start_up", "start_set", "layer_set"}
    BY <1>4, <2>1 DEF CommitRunning
  <2>3. h = "put_src_del" => Gone(src)
    BY <1>2, <1>9, AtHead DEF LineInv, Calls
  <2> HIDE DEF h
  <2>4. ASSUME NEW id \in plan_del' PROVE Gone(id)'
    <3>1. id \in Ids /\ Gone(id) /\ (h = "create" => id \in Known)
      <4>1. h # "put_src_del" => id \in plan_del
        BY <2>1, <2>4 DEF Effect
      <4>2. h = "put_src_del" => src \in Ids
        BY <1>9, AtHead DEF LineInv, Calls, Known, h
      <4> QED BY <1>3, <2>1, <2>3, <2>4, <4>1, <4>2 DEF Effect, PlaceInv, TypeOK, StoreTypeOK
    <3>2. CASE h = "create"
      <4>1. state' = [state EXCEPT ![dst'] = "NEW"] /\ dst' \notin Known
        BY <1>9, <2>1, <3>2, CreateEffect DEF TypeOK, Calling
      <4> QED BY <3>1, <3>2, <4>1 DEF Gone
    <3>3. CASE h # "create"
      BY <2>1, <3>1, <3>3 DEF Effect, Gone, TypeOK, StoreTypeOK
    <3> QED BY <3>2, <3>3
  <2> QED BY <2>1, <2>2, <2>4
<1>10. CASE CommitMoves
  <2>1. CommitStep \/ StartCommit \/ KillCommit \/ CommitFails
    BY <1>10 DEF CommitMoves
  <2>2. /\ plan_add' \subseteq plan_add /\ plan_del' \subseteq plan_del
        /\ \A id \in Ids : state'[id] # state[id] =>
             /\ id = sh.inst
             /\ \/ sh.pc = "del_inst" /\ state'[id] = "absent"
                \/ sh.pc \in {"start_set", "layer_set"} /\ state'[id] = "RUNNING"
    BY <2>1, CommitEffect DEF TypeOK
  <2>3. CommitRunning' => ApplyIdle'
    BY <1>2, <1>10 DEF CommitMoves, CommitRunning, applyVars, ApplyIdle
  <2>4. ASSUME NEW id \in plan_del' PROVE Gone(id)'
    <3>1. id \in Ids /\ Gone(id) /\ id \notin plan_add
      BY <1>3, <2>2, <2>4 DEF TypeOK, StoreTypeOK, ListInv
    <3> QED BY <1>3, <2>2, <3>1 DEF Gone
  <2>5. sh'.pc = "del_inst" => Gone(sh.inst)'
    BY <1>3, <2>1, CommitPlaces DEF Gone, TypeOK
  <2>6. sh'.pc \in {"start_up", "start_set", "layer_set"} => sh'.inst \in plan_add'
    BY <1>3, <2>1, CommitPlaces DEF TypeOK
  <2> QED BY <2>3, <2>4, <2>5, <2>6
<1> QED BY <1>1, <1>5, <1>6, <1>7, <1>8, <1>9, <1>10

\* Each step takes what it condemns off plan_add.
LEMMA CondemnKept ==
  ASSUME TypeOK, LineInv, PlaceInv, LockInv, CondemnInv, [Next]_vars
  PROVE  CondemnInv'
<1> SUFFICES ASSUME regime'.locked, ~MayBeKilled', NEW id \in Ids,
                    state'[id] = "TO_BE_DELETED", id \in plan_add'
             PROVE  calls' # <<>> /\ Head(calls') = "rm_src_add" /\ id = src'
  BY DEF CondemnInv
<1>1. Quiet \/ Reads \/ Calling \/ Ends \/ Begins \/ CommitMoves
  BY Kinds
<1>2. regime' = regime /\ regime.locked /\ ~MayBeKilled
  BY <1>1 DEF Quiet, Reads, Calling, Ends, Begins, CommitMoves, MayBeKilled
<1>3. state[id] = "TO_BE_DELETED" /\ id \in plan_add =>
        calls # <<>> /\ Head(calls) = "rm_src_add" /\ id = src
  BY <1>2 DEF CondemnInv
<1>4. CASE Quiet
  BY <1>3, <1>4 DEF Quiet, instanceVars, jobVars, planVars, applyVars
<1>5. CASE Reads
  BY <1>3, <1>5 DEF Reads, read_line, storeVars
<1>6. CASE Ends
  BY <1>2, <1>3, <1>6 DEF Ends, storeVars
<1>7. CASE Begins
  BY <1>3, <1>7 DEF Begins, ApplyIdle, storeVars
<1>8. CASE Calling
  <2> DEFINE h == Head(calls)
  <2>1. Effect(h) /\ calls # <<>>
    BY <1>8 DEF Calling
  <2>2. CASE h = "set_to_be_deleted"
    <3>1. calls' # <<>> /\ Head(calls') = "rm_src_add"
      <4>1. 1 < Len(calls) /\ calls[1 + 1] = "rm_src_add"
        BY <1>8, <2>2, AtHead DEF LineInv, Shape
      <4> QED BY <1>8, <4>1, AtHead
    <3>2. id = src \/ state[id] = "TO_BE_DELETED"
      BY <2>1, <2>2 DEF Effect, TypeOK, StoreTypeOK
    <3>3. id \in plan_add /\ src' = src
      BY <2>1, <2>2 DEF Effect
    <3> QED BY <1>3, <2>2, <3>1, <3>2, <3>3
  <2>3. CASE h = "create"
    <3>1. state' = [state EXCEPT ![dst'] = "NEW"] /\ dst' \in Ids /\ id \in plan_add
      BY <1>8, <2>1, <2>3, CreateEffect DEF TypeOK, Calling, Effect
    <3> QED BY <1>3, <2>3, <3>1 DEF TypeOK, StoreTypeOK
  <2>4. CASE h = "put_dst_add"
    <3>1. state[dst] # "TO_BE_DELETED"
      BY <1>2, <1>8, <2>4, AtHead DEF LineInv, Calls
    <3> QED BY <1>3, <2>1, <2>4, <3>1 DEF Effect
  <2>5. CASE h \notin {"set_to_be_deleted", "create", "put_dst_add"}
    <3>1. state' = state /\ plan_add' \subseteq plan_add
          /\ (h = "rm_src_add" => plan_add' = plan_add \ {src})
      BY <2>1, <2>5 DEF Effect
    <3> QED BY <1>3, <3>1
  <2> QED BY <2>2, <2>3, <2>4, <2>5
<1>9. CASE CommitMoves
  <2>1. plan_add' \subseteq plan_add /\ state[id] = "TO_BE_DELETED"
    BY <1>9, CommitEffect DEF CommitMoves, TypeOK
  <2> QED BY <1>3, <1>9, <2>1 DEF CommitMoves, applyVars
<1> QED BY <1>1, <1>4, <1>5, <1>6, <1>7, <1>8, <1>9

\* The commit takes an instance off plan_del to delete it, or if it is gone.
LEMMA CommitLists ==
  ASSUME StoreTypeOK, CommitTypeOK, CommitStep \/ StartCommit, NEW id \in Ids, Exists(id)'
  PROVE  /\ id \in plan_del => id \in plan_del' \/ (sh'.pc = "del_inst" /\ sh'.inst = id)
         /\ ~(sh.pc = "del_inst" /\ sh.inst = id)
<1>1. /\ To("del_inst").inst = sh.inst
      /\ [To("del_inst") EXCEPT !.groups = TRUE].pc = "del_inst"
      /\ [To("del_inst") EXCEPT !.groups = TRUE].inst = sh.inst
  BY DEF CommitTypeOK, To
<1>2. CASE next_instance
  BY <1>2 DEF next_instance, RemoveAdd, RemoveDel, planVars, instanceVars, Loops, Exists
<1>3. CASE rm_job_list_del
  BY <1>1, <1>3 DEF rm_job_list_del, RemoveDel, At
<1>4. CASE delete_service_instance
  BY <1>4 DEF delete_service_instance, SetState, planVars, Exists, StoreTypeOK
<1>5. CASE UNCHANGED plan_del /\ sh.pc # "del_inst"
  BY <1>5
<1>6. ~(next_instance \/ rm_job_list_del \/ delete_service_instance)
      => UNCHANGED plan_del /\ sh.pc # "del_inst"
  BY DEF CommitStep, StartCommit, At, Loops, reset_new_layer, list_plan, look_at_plan_add,
       loop_ends, del_get, get_partition, check_up, CheckUp, start_service_instance,
       rm_job_list_add, list_marks, mark_one, marks_end, is_all_new_layer_ok, dump, connection_commit,
         storeVars, planVars
<1> QED BY <1>2, <1>3, <1>4, <1>5, <1>6

\* Each step lists what it condemns, and keeps it listed until it is deleted.
LEMMA NothingForgotten ==
  ASSUME TypeOK, LineInv, PlaceInv, [Next]_vars, ~Mishap, regime.locked
  PROVE  Forgotten' \subseteq Forgotten
<1> SUFFICES ASSUME NEW id \in Ids, state'[id] = "TO_BE_DELETED", id \notin plan_del',
                    ~(sh'.pc = "del_inst" /\ id = sh'.inst), id \notin Forgotten
             PROVE  Listing' /\ id = src'
  BY DEF Forgotten, At
<1>1. state[id] = "TO_BE_DELETED" =>
        id \in plan_del \/ (Listing /\ id = src) \/ (sh.pc = "del_inst" /\ id = sh.inst)
  BY DEF Forgotten, At
<1>2. CASE UNCHANGED <<state, plan_del, calls, src, sh>>
  BY <1>1, <1>2 DEF Listing
<1>3. CASE UNCHANGED <<state, plan_del, sh>> /\ ~Listing
  BY <1>1, <1>3
<1>4. CASE Apply /\ calls = <<>>
  <2>1. ~Listing /\ read_line /\ sh' = sh
    BY <1>4 DEF Listing, Apply, ApplyStep, Call, exit_if_not_exist, exit_if_exist, subshell,
      find_src, set_to_be_deleted, create, rm_from_job_list, put_to_job_list_add,
      put_to_job_list_del
  <2> QED BY <1>3, <2>1 DEF read_line, storeVars
<1>5. CASE Apply /\ calls # <<>> /\ Stops
  BY <1>3, <1>5 DEF Apply, Stops, Listing, storeVars
<1>6. CASE Apply /\ calls # <<>> /\ Effect(Head(calls))
  <2> DEFINE h == Head(calls)
  <2>1. Effect(h) /\ calls # <<>> /\ sh' = sh /\ Calling
    BY <1>6 DEF Apply, Calling, ApplyIdle
  <2>2. state[id] = "TO_BE_DELETED" =>
          id \in plan_del \/ (h \in {"rm_src_add", "rm_src_del", "put_src_del"} /\ id = src)
    BY <1>1, <2>1 DEF Listing
  <2>3. /\ h = "set_to_be_deleted" => calls' # <<>> /\ Head(calls') = "rm_src_add"
        /\ h = "rm_src_add" => calls' # <<>> /\ Head(calls') = "rm_src_del"
        /\ h = "rm_src_del" => calls' # <<>> /\ Head(calls') = "put_src_del"
    <3>1. /\ h = "set_to_be_deleted" => 1 < Len(calls) /\ calls[1 + 1] = "rm_src_add"
          /\ h = "rm_src_add" => 1 < Len(calls) /\ calls[1 + 1] = "rm_src_del"
          /\ h = "rm_src_del" => 1 < Len(calls) /\ calls[1 + 1] = "put_src_del"
      BY <2>1, AtHead DEF LineInv, Shape
    <3> QED BY <2>1, <3>1, AtHead
  <2>4. CASE h = "set_to_be_deleted"
    <3>1. id = src \/ state[id] = "TO_BE_DELETED"
      BY <2>1, <2>4 DEF Effect, TypeOK, StoreTypeOK
    <3>2. plan_del' = plan_del /\ src' = src
      BY <2>1, <2>4 DEF Effect
    <3> QED BY <2>2, <2>3, <2>4, <3>1, <3>2 DEF Listing
  <2>5. CASE h = "create"
    <3>1. state' = [state EXCEPT ![dst'] = "NEW"] /\ dst' \in Ids /\ plan_del' = plan_del
      BY <2>1, <2>5, CreateEffect DEF TypeOK, Effect
    <3> QED BY <2>2, <2>5, <3>1 DEF TypeOK, StoreTypeOK
  <2>6. CASE h = "rm_dst_del"
    <3>1. 1 < Len(calls) /\ calls[1 + 1] = "put_dst_add" /\ ~Holds(calls, "create", 2)
          /\ 2 \in 1..Len(calls)
      <4>1. calls[1] = "rm_dst_del" /\ 1 \in 1..Len(calls) /\ calls \in Seq(Calls)
        BY <2>1, <2>6, AtHead DEF LineInv, Shape
      <4>2. 1 < Len(calls) /\ calls[1 + 1] = "put_dst_add"
        BY <4>1 DEF LineInv, Shape
      <4> QED BY <4>1, <4>2 DEF Holds
    <3>2. state[dst] # "TO_BE_DELETED"
      BY <3>1 DEF LineInv
    <3>3. state' = state /\ plan_del' = plan_del \ {dst}
      BY <2>1, <2>6 DEF Effect
    <3> QED BY <2>2, <2>6, <3>2, <3>3
  <2>7. CASE h \in {"rm_src_add", "rm_src_del", "put_src_del"}
    <3>1. state' = state /\ src' = src
      BY <2>1, <2>7 DEF Effect
    <3>2. h = "put_src_del" => plan_del' = plan_del \cup {src}
      BY <2>1 DEF Effect
    <3>3. id # src => (id \in plan_del => id \in plan_del')
      BY <2>1, <2>7, <3>2 DEF Effect
    <3> QED BY <2>2, <2>3, <2>7, <3>1, <3>2, <3>3 DEF Listing
  <2>8. CASE h \notin {"set_to_be_deleted", "create", "rm_dst_del",
                       "rm_src_add", "rm_src_del", "put_src_del"}
    <3>1. state' = state /\ plan_del' = plan_del
      BY <2>1, <2>8 DEF Effect
    <3> QED BY <2>2, <2>8, <3>1
  <2> QED BY <2>4, <2>5, <2>6, <2>7, <2>8
<1>7. CASE BeginCommit \/ Commit
  <2>1. CommitStep \/ StartCommit
    BY <1>7 DEF BeginCommit, Commit
  <2>2. state[id] = "TO_BE_DELETED" /\ Exists(id)'
    BY <2>1, CommitEffect DEF TypeOK, Exists
  <2>3. id \notin plan_del /\ ~(sh.pc = "del_inst" /\ sh.inst = id)
    BY <2>1, <2>2, CommitLists DEF TypeOK
  <2> QED BY <1>1, <1>7, <2>2, <2>3 DEF BeginCommit, Commit, applyVars, Listing
<1>8. CASE BeginApply
  BY <1>2, <1>8 DEF BeginApply, StartApply, storeVars
<1>9. CASE \E a \in Ids : Agent(a)
  BY <1>2, <1>9 DEF Agent, InstanceComesUp, instanceVars, jobVars, planVars, applyVars
<1>10. CASE UNCHANGED vars
  BY <1>2, <1>10 DEF vars, storeVars, applyVars
<1>11. Apply /\ calls # <<>> => Stops \/ Effect(Head(calls))
  BY CallEffect DEF Apply
<1> QED BY <1>4, <1>5, <1>6, <1>7, <1>8, <1>9, <1>10, <1>11 DEF Next

\* A kill or a failing call forgets the instance it is about, if any.
LEMMA MishapForgetsOne ==
  ASSUME Mishap
  PROVE  \E x : Forgotten' \subseteq Forgotten \cup {x}
<1>1. CASE UNCHANGED <<state, plan_del, calls, src>>
  <2>1. Forgotten' \subseteq Forgotten \cup {sh.inst}
    BY <1>1 DEF Forgotten, Listing, At
  <2> QED BY <2>1
<1>2. CASE KillApply /\ sh' = sh
  <2>1. Forgotten' \subseteq Forgotten \cup {src}
    BY <1>2 DEF KillApply, Forgotten, At, storeVars
  <2> QED BY <2>1
<1>3. ASSUME UNCHANGED <<state, calls, src>>, NEW x, plan_del' = plan_del \ {x}, ~At("del_inst")
      PROVE  \E y : Forgotten' \subseteq Forgotten \cup {y}
  <2>1. Forgotten' \subseteq Forgotten \cup {x}
    BY <1>3 DEF Forgotten, Listing
  <2> QED BY <2>1
<1>4. CASE isvalid_fails /\ UNCHANGED applyVars
  <2>1. PICK id \in sh.list : RemoveDel(id)
    BY <1>4 DEF isvalid_fails
  <2> QED BY <1>3, <1>4, <2>1 DEF isvalid_fails, RemoveDel, Loops, At, instanceVars, applyVars
<1>5. CASE group_fails /\ UNCHANGED applyVars
  <2>1. UNCHANGED <<state, calls, src>> /\ ~At("del_inst")
    BY <1>5 DEF group_fails, At, instanceVars, applyVars
  <2>2. plan_del' = plan_del \ {sh.inst} \/ plan_del' = plan_del
    BY <1>5 DEF group_fails, RemoveDel
  <2> QED BY <1>1, <1>3, <2>1, <2>2
<1>6. CASE CommitFails /\ ~isvalid_fails /\ ~group_fails /\ UNCHANGED applyVars
  <2>1. UNCHANGED <<state, plan_del>>
    BY <1>6 DEF CommitFails, reset_fails, list_fails, check_up_fails, CheckUp, check_layer_fails,
      delete_fails, is_all_new_layer_ok_fails, checked_call_fails, connection_fails,
      storeVars, instanceVars, planVars
  <2> QED BY <1>1, <1>6, <2>1 DEF applyVars
<1>7. CASE KillCommit /\ UNCHANGED applyVars
  BY <1>1, <1>7 DEF KillCommit, storeVars, applyVars
<1>8. CASE (\E id \in Ids : InstanceGoesDown(id)) /\ UNCHANGED applyVars
  BY <1>1, <1>8 DEF InstanceGoesDown, instanceVars, jobVars, planVars, applyVars
<1> QED BY <1>2, <1>4, <1>5, <1>6, <1>7, <1>8 DEF Mishap
-----------------------------------------------------------------------------
\* Each step keeps the types.
LEMMA TypeKept ==
  ASSUME TypeOK, LineInv, PlaceInv, InstInv, LockInv, [Next]_vars
  PROVE  TypeOK'
<1>1. Quiet \/ Reads \/ Calling \/ Ends \/ Begins \/ CommitMoves
  BY Kinds
<1>2. regime' \in Regimes /\ left' \in 0..regime'.plans
  <2>1. regime' = regime
    BY <1>1 DEF Quiet, Reads, Calling, Ends, Begins, CommitMoves
  <2>2. left' = left \/ (left > 0 /\ left' = left - 1)
    BY DEF Next, BeginApply, Apply, BeginCommit, Commit, Agent, Mishap, vars
  <2>3. regime.plans \in Nat
    BY SystemAssumption DEF TypeOK
  <2> QED BY <2>1, <2>2, <2>3 DEF TypeOK
<1>3. StoreTypeOK' /\ ApplyTypeOK' /\ CommitTypeOK'
  <2>1. CASE Quiet
    BY <2>1 DEF Quiet, instanceVars, jobVars, planVars, applyVars, TypeOK, StoreTypeOK,
                ApplyTypeOK, CommitTypeOK
  <2>2. CASE Reads
    <3>1. Head(lines) \in PlanLines
      BY <2>2 DEF Reads, read_line, LineInv
    <3>2. line'.op \in {"ADD", "DEL", "MOVE"} /\ src' = NoId /\ dst' = NoId
      BY <2>2, <3>1 DEF Reads, read_line, PlanLines
    <3> QED BY <2>2, <3>2 DEF Reads, read_line, storeVars, TypeOK, StoreTypeOK, ApplyTypeOK,
                              CommitTypeOK
  <2>3. CASE Ends
    BY <2>3 DEF Ends, storeVars, TypeOK, StoreTypeOK, ApplyTypeOK, CommitTypeOK
  <2>4. CASE Begins
    BY <2>4 DEF Begins, storeVars, TypeOK, StoreTypeOK, ApplyTypeOK, CommitTypeOK
  <2>5. CASE CommitMoves
    <3>1. StoreTypeOK' /\ CommitTypeOK'
      BY <2>5, CommitTypes DEF CommitMoves, TypeOK
    <3> QED BY <2>5, <3>1 DEF CommitMoves, applyVars, TypeOK, ApplyTypeOK
  <2>6. CASE Calling
    <3> DEFINE h == Head(calls)
    <3>1. Effect(h) /\ Known \subseteq Ids /\ sh' = sh
      BY <2>6 DEF Calling, Known
    <3>2. /\ h = "put_dst_add" => dst \in Ids
          /\ h = "put_src_del" => src \in Ids
      BY <2>6, <3>1, AtHead DEF LineInv, Calls
    <3>3. /\ h = "create" => /\ dst' \in Ids /\ line.part \in Partitions /\ line.to \in Nodes
                             /\ created' \in [Partitions -> 0..MaxInstances]
                             /\ state' = [state EXCEPT ![dst'] = "NEW"]
                             /\ node' = [node EXCEPT ![dst'] = line.to]
      BY <2>6, CreateEffect DEF Calling, TypeOK
    <3> HIDE DEF h
    <3>4. state' \in [Ids -> States] /\ node' \in [Ids -> Nodes]
          /\ created' \in [Partitions -> 0..MaxInstances]
      BY <3>1, <3>3 DEF Effect, TypeOK, StoreTypeOK, States
    <3>5. plan_add' \subseteq Ids /\ plan_del' \subseteq Ids /\ deletable' \subseteq plan_del'
      BY <3>1, <3>2 DEF Effect, TypeOK, StoreTypeOK
    <3>6. ApplyTypeOK'
      BY <3>1, <3>3 DEF Effect, TypeOK, ApplyTypeOK
    <3> QED BY <3>1, <3>4, <3>5, <3>6 DEF Effect, TypeOK, StoreTypeOK, CommitTypeOK
  <2> QED BY <1>1, <2>1, <2>2, <2>3, <2>4, <2>5, <2>6
<1> QED BY <1>2, <1>3 DEF TypeOK

\* The invariant holds to begin with,
LEMMA Starts == Init => IInv
<1> SUFFICES ASSUME Init PROVE IInv
  OBVIOUS
<1>1. StoreTypeOK /\ \A id \in Ids : Exists(id) => id \in Known
  BY StoreStarts DEF Init
<1>2. CommitTypeOK /\ ApplyTypeOK /\ sh.pc = "idle" /\ calls = <<>> /\ lines = <<>>
  BY DEF Init, ApplyInit, ApplyTypeOK, CommitInit, CommitTypeOK, Idle
<1>3. TypeOK
  BY <1>1, <1>2, SystemAssumption DEF Init, TypeOK
<1>4. LineInv
  BY <1>2 DEF LineInv, Shape
<1>5. plan_add = {} /\ plan_del = {}
  BY DEF Init, StoreInit
<1>6. \A a, b \in Ids :
        PartOf(a) = PartOf(b) /\ Exists(a) /\ Exists(b) /\ node[a] = node[b] => a = b
  BY PlacedAssumption DEF Init, StoreInit, Exists
<1>7. \A id \in Ids : state[id] # "TO_BE_DELETED"
  BY DEF Init, StoreInit
<1>8. InstInv /\ LockInv /\ CondemnInv /\ ListInv /\ PlaceInv
  BY <1>1, <1>2, <1>5, <1>6, <1>7 DEF InstInv, Turn, LockInv, CondemnInv, ListInv, PlaceInv, ApplyIdle
<1> QED BY <1>3, <1>4, <1>8 DEF IInv

\* ... and kept by every step.
LEMMA Steps == IInv /\ [Next]_vars => IInv'
<1> SUFFICES ASSUME IInv, [Next]_vars PROVE IInv'
  OBVIOUS
<1>1. TypeOK' /\ LineInv' /\ ListInv' /\ PlaceInv' /\ LockInv' /\ CondemnInv'
  BY TypeKept, LineKept, ListKept, PlaceKept, LockKept, CondemnKept DEF IInv
<1>2. InstInv'
  <2>1. Quiet \/ Reads \/ Calling \/ Ends \/ Begins \/ CommitMoves
    BY Kinds DEF IInv
  <2>2. CASE CommitMoves
    BY <2>2, InstKept DEF CommitMoves, IInv, TypeOK
  <2>3. CASE sh' = sh
    BY <2>3 DEF IInv, InstInv
  <2> QED BY <2>1, <2>2, <2>3 DEF Quiet, Reads, Calling, Ends, Begins
<1> QED BY <1>1, <1>2 DEF IInv

\* The invariant holds in every behaviour.
THEOREM Invariance == Spec => []IInv
BY Starts, Steps, PTL DEF Spec
-----------------------------------------------------------------------------
\* The variables of the store, of apply and of the commit keep their types.
THEOREM TypeCorrect == Spec => []TypeOK
<1>1. IInv => TypeOK
  BY DEF IInv
<1> QED BY <1>1, Invariance, PTL

\* No instance is on both job lists, with or without the lock and whatever is
\* killed: apply takes an id off both lists before it puts it on either.
THEOREM ListsAreDisjoint == Spec => []ListsDisjoint
<1>1. IInv => ListsDisjoint
  BY DEF IInv, ListInv, ListsDisjoint
<1> QED BY <1>1, Invariance, PTL

\* A slave node never has two instances of a partition: whatever else runs, no
\* other script creates one between apply's check and its creation.
THEOREM PlacedOnceHolds == Spec => []PlacedOnce
<1>1. ASSUME IInv, NEW p \in Partitions, NEW n \in Nodes
      PROVE  Cardinality(InstancesAt(p, n)) <= 1
  <2>1. \A a, b \in InstancesAt(p, n) : a = b
    BY <1>1 DEF IInv, PlaceInv, InstancesAt
  <2>2. CASE InstancesAt(p, n) = {}
    BY <2>2, FS_EmptySet
  <2>3. CASE InstancesAt(p, n) # {}
    <3>1. PICK a : InstancesAt(p, n) = {a}
      BY <2>1, <2>3
    <3> QED BY <3>1, FS_Singleton
  <2> QED BY <2>2, <2>3
<1>2. IInv => PlacedOnce
  BY <1>1 DEF PlacedOnce
<1> QED BY <1>2, Invariance, PTL

\* The commit deletes only what a plan has condemned, under the write lock and
\* whatever is killed.
THEOREM OnlyCondemnedAreDeleted == Spec => OnlyCondemnedDeleted
<1>1. ASSUME IInv, [Next]_vars, NEW id \in Ids,
             regime.locked, Exists(id), state'[id] = "absent"
      PROVE  state[id] = "TO_BE_DELETED"
  <2>1. Quiet \/ Reads \/ Calling \/ Ends \/ Begins \/ CommitMoves
    BY <1>1, Kinds DEF IInv
  <2>2. CASE CommitMoves
    BY <1>1, <2>2, CommitEffect DEF CommitMoves, IInv, TypeOK, LockInv, Gone, Exists
  <2>3. CASE Calling
    <3>1. Head(calls) = "create" => state' = [state EXCEPT ![dst'] = "NEW"]
      BY <1>1, <2>3, CreateEffect DEF Calling, IInv, TypeOK
    <3> QED BY <1>1, <2>3, <3>1 DEF Calling, Effect, IInv, TypeOK, StoreTypeOK, Exists
  <2>4. CASE state' = state
    BY <1>1, <2>4 DEF Exists
  <2> QED BY <2>1, <2>2, <2>3, <2>4
          DEF Quiet, Reads, read_line, Ends, Begins, storeVars, instanceVars
<1>2. IInv /\ [Next]_vars =>
        [\A id \in Ids :
           regime.locked /\ Exists(id) /\ state'[id] = "absent" => state[id] = "TO_BE_DELETED"]_vars
  BY <1>1
<1> QED BY <1>2, Invariance, PTL DEF Spec, OnlyCondemnedDeleted

\* Under the write lock what a plan has condemned serves again only if a kill has
\* made the scripts forget it.
THEOREM NothingIsResurrected == Spec => NoResurrection
<1>1. ASSUME IInv, [Next]_vars, NEW id \in Ids,
             regime.locked, state[id] = "TO_BE_DELETED", state'[id] = "RUNNING"
      PROVE  MayBeKilled /\ id \in Forgotten
  <2>1. Quiet \/ Reads \/ Calling \/ Ends \/ Begins \/ CommitMoves
    BY <1>1, Kinds DEF IInv
  <2>2. CASE CommitMoves
    <3>1. id = sh.inst /\ sh.pc \in {"start_set", "layer_set"}
      BY <1>1, <2>2, CommitEffect DEF CommitMoves, IInv, TypeOK
    <3>2. calls = <<>> /\ id \in plan_add
      BY <1>1, <3>1 DEF IInv, LockInv, CommitRunning, Scripted, ApplyIdle
    <3>3. MayBeKilled
      BY <1>1, <3>2 DEF IInv, CondemnInv
    <3>4. id \notin plan_del
      BY <1>1, <3>2 DEF IInv, ListInv
    <3> QED BY <1>1, <3>1, <3>2, <3>3, <3>4 DEF Forgotten, Listing, At
  <2>3. CASE Calling
    <3>1. Head(calls) = "create" => state' = [state EXCEPT ![dst'] = "NEW"]
      BY <1>1, <2>3, CreateEffect DEF Calling, IInv, TypeOK
    <3> QED BY <1>1, <2>3, <3>1 DEF Calling, Effect, IInv, TypeOK, StoreTypeOK
  <2>4. CASE state' = state
    BY <1>1, <2>4
  <2> QED BY <2>1, <2>2, <2>3, <2>4
          DEF Quiet, Reads, read_line, Ends, Begins, storeVars, instanceVars
<1>2. IInv /\ [Next]_vars =>
        [\A id \in Ids :
           regime.locked /\ state[id] = "TO_BE_DELETED" /\ state'[id] = "RUNNING" =>
             MayBeKilled /\ id \in Forgotten]_vars
  BY <1>1
<1> QED BY <1>2, Invariance, PTL DEF Spec, NoResurrection

\* Under the write lock a condemned instance stays listed for deletion, or in hand,
\* until it is deleted, but for one at each kill and each call that fails.
THEOREM OnlyMishapsForget == Spec => ForgotByMishap
<1>1. ASSUME IInv, [Next]_vars, regime.locked
      PROVE  \/ Forgotten' \subseteq Forgotten
             \/ Mishap /\ \E id \in Ids : Forgotten' \subseteq Forgotten \cup {id}
  <2>1. CASE ~Mishap
    BY <1>1, <2>1, NothingForgotten DEF IInv
  <2>2. CASE Mishap
    <3>1. PICK x : Forgotten' \subseteq Forgotten \cup {x}
      BY <2>2, MishapForgetsOne
    <3>2. Forgotten' \subseteq Ids
      BY DEF Forgotten
    <3> QED BY <2>2, <3>1, <3>2
  <2> QED BY <2>1, <2>2
<1>2. IInv /\ [Next]_vars =>
        [regime.locked =>
           \/ Forgotten' \subseteq Forgotten
           \/ Mishap /\ \E id \in Ids : Forgotten' \subseteq Forgotten \cup {id}]_vars
  BY <1>1
<1> QED BY <1>2, Invariance, PTL DEF Spec, ForgotByMishap
-----------------------------------------------------------------------------
(***************************************************************************)
(* The life of an instance: every step of PlanSystem is one of Instances,  *)
(* or leaves the instances alone.                                          *)
(***************************************************************************)

\* To begin with the instances placed are running, one on a node.
LEMMA InstancesPlaced == Init => Life!Init
<1> SUFFICES ASSUME Init PROVE Life!Init
  OBVIOUS
<1>1. TypeOK /\ PlaceInv
  BY Starts DEF IInv
<1>2. state \in [Ids -> {"absent", "RUNNING"}]
  BY DEF Init, StoreInit
<1>3. Life!Ids = Ids /\ node \in [Ids -> Nodes] /\ created \in [Partitions -> 0..MaxInstances]
  BY <1>1 DEF Life!Ids, Ids, TypeOK, StoreTypeOK
<1>4. \A id \in Ids : Life!There(id) => id[2] <= created[id[1]]
  BY <1>1 DEF PlaceInv, Known, Exists, Life!There, PartOf
<1>5. Life!OneEach
  <2> SUFFICES ASSUME NEW p \in Partitions, NEW i \in 1..MaxInstances, NEW j \in 1..MaxInstances,
                      Life!There(<<p, i>>), Life!There(<<p, j>>), node[<<p, i>>] = node[<<p, j>>]
               PROVE  i = j
    BY DEF Life!OneEach
  <2>1. <<p, i>> \in Ids /\ <<p, j>> \in Ids
    BY DEF Ids
  <2>2. <<p, i>> = <<p, j>>
    BY <1>1, <2>1 DEF PlaceInv, PartOf, Exists, Life!There
  <2> QED BY <2>2
<1>6. regime.locked \in BOOLEAN /\ MayBeKilled \in BOOLEAN
  BY <1>1, SystemAssumption DEF TypeOK, MayBeKilled
<1> QED BY <1>2, <1>3, <1>4, <1>5, <1>6 DEF Life!Init

\* A step that leaves all but the state of one instance alone is a step of its
\* life, if the regime allows it.
LEMMA LifeGoesOn ==
  ASSUME NEW id \in Ids, NEW s, Exists(id), state' = [state EXCEPT ![id] = s],
         UNCHANGED <<node, created, regime>>,
         \/ s = "TO_BE_DELETED"
         \/ s = "RUNNING" /\ (regime.locked /\ ~MayBeKilled => state[id] # "TO_BE_DELETED")
         \/ s = "absent" /\ (regime.locked => state[id] = "TO_BE_DELETED")
  PROVE  Life!Next
<1>1. Life!Becomes(id, s)
  BY DEF Life!Becomes, MayBeKilled
<1>2. Life!Start(id) \/ Life!Condemn(id) \/ Life!Delete(id)
  BY <1>1 DEF Life!Start, Life!Condemn, Life!Delete
<1>3. id \in Life!Ids /\ Life!There(id)
  BY DEF Life!Ids, Ids, Life!There, Exists
<1> QED BY <1>2, <1>3 DEF Life!Next

\* A call of apply condemns an instance or adds one where there is none.
LEMMA CallsLive ==
  ASSUME IInv, Calling, regime' = regime
  PROVE  Life!Next \/ UNCHANGED <<state, node, created>>
<1> DEFINE h == Head(calls)
<1>1. Effect(h) /\ calls # <<>>
  BY DEF Calling
<1>2. CASE h = "create"
  <2>1. /\ line.part \in Partitions /\ line.to \in Nodes
        /\ created[line.part] < MaxInstances
        /\ created' = [created EXCEPT ![line.part] = @ + 1]
        /\ state' = [state EXCEPT ![<<line.part, created[line.part] + 1>>] = "NEW"]
        /\ node' = [node EXCEPT ![<<line.part, created[line.part] + 1>>] = line.to]
    BY <1>1, <1>2, CreateEffect DEF Effect, Create, IInv, TypeOK
  <2>2. \A i \in 1..MaxInstances :
          Life!There(<<line.part, i>>) => node[<<line.part, i>>] # line.to
    <3>1. InstancesAt(line.part, line.to) = {}
      BY <1>1, <1>2 DEF IInv, PlaceInv
    <3>2. \A i \in 1..MaxInstances : <<line.part, i>> \in Ids /\ PartOf(<<line.part, i>>) = line.part
      BY <2>1 DEF Ids, PartOf
    <3> QED BY <3>1, <3>2 DEF InstancesAt, Exists, Life!There
  <2>3. Life!Add(line.part, line.to)
    BY <2>1, <2>2 DEF Life!Add, MayBeKilled
  <2> QED BY <2>1, <2>3 DEF Life!Next
<1>3. CASE h = "set_to_be_deleted"
  <2>1. src \in Ids /\ Exists(src)
    <3>1. LineInv /\ Exists(src)
      BY <1>1, <1>3 DEF IInv, Effect
    <3>2. 1 \in 1..Len(calls) /\ calls[1] = "set_to_be_deleted" /\ ~Holds(calls, "find_src", 1)
      BY <1>3, <3>1, AtHead DEF Calls
    <3> QED BY <3>1, <3>2 DEF LineInv, Known
  <2>2. state' = [state EXCEPT ![src] = "TO_BE_DELETED"] /\ UNCHANGED <<node, created>>
    BY <1>1, <1>3 DEF Effect
  <2> QED BY <2>1, <2>2, LifeGoesOn
<1>4. CASE h \notin {"create", "set_to_be_deleted"}
  BY <1>1, <1>4 DEF Effect
<1> QED BY <1>2, <1>3, <1>4

\* A step of the commit starts an instance or deletes one, as far as the regime
\* allows it.
LEMMA CommitLives ==
  ASSUME IInv, CommitMoves, regime' = regime
  PROVE  Life!Next \/ UNCHANGED <<state, node, created>>
<1>1. UNCHANGED <<node, created>>
  BY CommitEffect DEF CommitMoves, IInv, TypeOK
<1>2. state \in [Ids -> States] /\ state' \in [Ids -> States]
  BY CommitTypes DEF CommitMoves, IInv, TypeOK, StoreTypeOK
<1> SUFFICES ASSUME state' # state PROVE Life!Next
  BY <1>1
<1>3. PICK id \in Ids : state'[id] # state[id]
  BY <1>2
<1>4. /\ id = sh.inst /\ Exists(id)
      /\ \/ sh.pc = "del_inst" /\ state'[id] = "absent"
         \/ sh.pc \in {"start_set", "layer_set"} /\ state'[id] = "RUNNING"
  BY <1>3, CommitEffect DEF CommitMoves, IInv, TypeOK
<1>5. state' = [state EXCEPT ![id] = state'[id]]
  <2>1. \A j \in Ids : j # id => state'[j] = state[j]
    BY <1>4, CommitEffect DEF CommitMoves, IInv, TypeOK
  <2> QED BY <1>2, <2>1
<1>6. CASE sh.pc = "del_inst" /\ state'[id] = "absent"
  <2>1. regime.locked => state[id] = "TO_BE_DELETED"
    BY <1>4, <1>6 DEF IInv, LockInv, Gone, Exists
  <2> QED BY <1>1, <1>4, <1>5, <1>6, <2>1, LifeGoesOn
<1>7. CASE sh.pc \in {"start_set", "layer_set"} /\ state'[id] = "RUNNING"
  <2>1. regime.locked => calls = <<>> /\ id \in plan_add
    BY <1>4, <1>7 DEF IInv, LockInv, CommitRunning, Scripted, ApplyIdle
  <2>2. regime.locked /\ ~MayBeKilled => state[id] # "TO_BE_DELETED"
    BY <2>1 DEF IInv, CondemnInv
  <2> QED BY <1>1, <1>4, <1>5, <1>7, <2>2, LifeGoesOn
<1> QED BY <1>4, <1>6, <1>7

\* The two scripts, call by call and beside each other, killed or failing, with
\* and without the lock: seen from outside an instance is added where its
\* partition has none, under a fresh number, started, condemned and deleted, one
\* step at a time, and under the lock deleted only after it was condemned.
THEOREM RefinesInstances == Spec => ImplementsInstances
<1>1. ASSUME IInv, [Next]_vars
      PROVE  Life!Next \/ UNCHANGED Life!instanceVars
  <2>1. Quiet \/ Reads \/ Calling \/ Ends \/ Begins \/ CommitMoves
    BY <1>1, Kinds DEF IInv
  <2>2. regime' = regime
    BY <2>1 DEF Quiet, Reads, Calling, Ends, Begins, CommitMoves
  <2>3. Life!Next \/ UNCHANGED <<state, node, created>>
    BY <1>1, <2>1, <2>2, CallsLive, CommitLives
       DEF Quiet, Reads, read_line, Ends, Begins, storeVars, instanceVars
  <2> QED BY <2>2, <2>3 DEF Life!instanceVars, MayBeKilled
<1>2. IInv /\ [Next]_vars => [Life!Next]_(Life!instanceVars)
  BY <1>1
<1> QED BY <1>2, InstancesPlaced, Invariance, PTL DEF Spec, ImplementsInstances, Life!Spec
=============================================================================
