---------------------------- MODULE VmRunProofs ----------------------------
(***************************************************************************)
(* One run of the VM harness, for any machines in any state preflight may  *)
(* find them: foreign machines and disks in use are not harmed, and what   *)
(* the report says of the cleanup is true, whatever failed in it.          *)
(***************************************************************************)
EXTENDS VmRun, SequenceTheorems, NaturalsInduction, WellFoundedInduction, TLAPS

\* What a run makes, and is not taken for noted before it is.
MadeKind == {"state", "runtime", "authkey", "db", "image", "core", "fake", "worker",
             "containers", "selinux", "known", "root", "guest_image", "volume", "domain",
             "running", "tunnel"}

\* The steps a setup may consist of, by what preflight found.
StepOf(start) ==
  {Note(a[1], a[2]) : a \in {b \in Artefact :
     b[1] \in {"volume", "domain", "owned"} => b[2] \in Vm /\ start[b[2]] = "absent"}}
  \union {Make(a[1], a[2]) : a \in {b \in Artefact :
     /\ b[1] \in MadeKind \ {"root", "guest_image"}
     /\ b[1] \in {"volume", "domain"} => start[b[2]] = "absent"
     /\ b[1] = "running" => start[b[2]] \in {"absent", "off"}}}
  \union {<<"adopt", "owned", v>> : v \in Vm}
  \union {<<"pool", k, Host>> : k \in {"root", "guest_image"}}
  \union {<<"end", "containers", v>> : v \in Vm}

NotedFirst == {"volume", "domain", "known", "db", "fake", "worker"}

\* The steps that must come before step x, among those in done.
Prepared(done, start, x) ==
  /\ x[1] = "pool" => \A v \in Vm : Note("ip", v) \in done
  /\ x[1] = "make" =>
       /\ x[2] \in NotedFirst => Note(x[2], x[3]) \in done
       /\ x[2] = "containers" => Note("ip", x[3]) \in done
       /\ x[2] = "selinux" => Note("enforcing", x[3]) \in done
       /\ x[2] = "domain" => Make("volume", x[3]) \in done
       /\ x[2] = "running" /\ start[x[3]] = "absent"
            => {Note("domain", x[3]), Make("volume", x[3])} \subseteq done
       /\ x[2] = "running" /\ start[x[3]] = "off" => <<"adopt", "owned", x[3]>> \in done

\* Each step of s has its preparations in done or before it in s.
Ordered(s, done, start) ==
  \A i \in DOMAIN s : Prepared(done \union {s[j] : j \in 1..(i - 1)}, start, s[i])

\* What is written down late is written down.
Followed(s) ==
  \A i \in DOMAIN s : s[i][1] = "make" /\ s[i][2] \in MadeBeforeNoted =>
    \E j \in DOMAIN s : i < j /\ s[j] = Note(s[i][2], s[i][3])

\* Sequences of setup steps that are prepared by those in done.
Setups(done, start) ==
  {s \in Seq(StepOf(start)) : Ordered(s, done, start) /\ Followed(s)}

\* The steps whose effect is there.
Done ==
  {x \in StepOf(initial) :
     /\ x[1] = "note" => <<x[2], x[3]>> \in noted
     /\ x[1] = "adopt" => initial[x[3]] = "absent" \/ <<"owned", x[3]>> \in noted
     /\ x[1] = "make" /\ x[2] = "volume" => <<"volume", x[3]>> \in present}

SetupInv ==
  /\ todo \in Seq(StepOf(initial))
  /\ pc = "setup" => todo \in Setups(Done, initial) /\ Existing(initial) \subseteq present
  /\ pool # {} => todo # <<>> /\ todo[1][1] = "pool" /\ Vm \subseteq Reached

\* What is noted of a machine's disk is the run's own.
NotedInv ==
  \A a \in noted :
    /\ a[1] \in {"volume", "domain"} => initial[a[2]] = "absent"
    /\ a[1] = "owned" => ~Strange(a[2])

\* How the run came to what there is.
Backed(a) ==
  /\ a[1] \in MadeKind
  /\ a[1] \in {"known", "db", "fake", "worker"} => a \in noted
  /\ a[1] \in {"containers", "root", "guest_image"} => a[2] \in Reached
  /\ a[1] = "selinux" => <<"enforcing", a[2]>> \in noted
  /\ a[1] \in {"volume", "domain"} => a \in noted \/ a \in Existing(initial)
  /\ a[1] = "running" => \/ initial[a[2]] = "on"
                         \/ initial[a[2]] = "absent" /\ <<"domain", a[2]>> \in noted
                         \/ initial[a[2]] = "off" /\ <<"owned", a[2]>> \in noted

DisksInv ==
  \A v \in Vm :
    /\ <<"running", v>> \in present => <<"volume", v>> \in present
    /\ keep /\ <<"domain", v>> \in present => <<"volume", v>> \in present

VInv ==
  /\ VTypeOK /\ SetupInv /\ NotedInv /\ DisksInv
  /\ \A a \in present : Backed(a)

Gone(ks) == \A a \in present : a[1] \notin ks
Unnoted(k) == \A a \in present : a[1] = k => a \notin noted

\* The functions of the cleanup in their order.
Rank ==
  [stop_remote |-> 1, stop_host |-> 2, stop_tunnels |-> 3, copy_logs |-> 4, query |-> 5,
   containers |-> 6, key |-> 7, known |-> 8, runtime |-> 9, db |-> 10, images |-> 11,
   selinux |-> 12, verify |-> 13, guest_keys |-> 14, stop_vms |-> 15, retain |-> 16,
   state |-> 17, report |-> 18, done |-> 19]

\* What each has seen to when it reports that all is well.
Duty(p) ==
  /\ p = "stop_remote" => Gone({"fake", "worker"})
  /\ p = "stop_host" => Unnoted("core")
  /\ p = "stop_tunnels" => Unnoted("tunnel")
  /\ p = "containers" => Gone({"containers"})
  /\ p = "key" => Unnoted("authkey")
  /\ p = "known" => Gone({"known"})
  /\ p = "runtime" => Gone({"runtime", "root"})
  /\ p = "db" => Gone({"db"})
  /\ p = "images" => Gone({"image", "guest_image"})
  /\ p = "selinux" => Gone({"selinux"})
  /\ p = "stop_vms" => \A a \in present : a[1] = "running" => a[2] \notin Managed
  /\ p = "retain" /\ ~keep => \A a \in present : a[1] \in {"volume", "domain"} => Untouched(a[2])
  /\ p = "retain" /\ keep => \A v \in Vm : <<"domain", v>> \in present
  /\ p = "state" => Gone({"state"})

Past(p) == pc \in DOMAIN Rank /\ Rank[p] < Rank[pc]

\* In a cleanup without failure every function has done its duty; skipping it is one.
CleanInv ==
  /\ pc = "skipped" => failed
  /\ ~failed => \A p \in DOMAIN Rank : Past(p) => Duty(p)

Registered ==
  ~raised => \A a \in present : a[1] \in MadeBeforeNoted =>
    a \in noted \/ Note(a[1], a[2]) \in Range(todo)

CInv ==
  /\ VInv /\ CleanInv /\ Registered
  /\ pc # "setup" => pool = {} /\ (raised \/ todo = <<>>)

-----------------------------------------------------------------------------
(* Sequences of steps *)

\* A set of natural numbers has a least element.
LEMMA Least == ASSUME NEW T, T \subseteq Nat, T # {} PROVE \E m \in T : \A k \in T : ~(k < m)
<1>1. PICK m \in T : \A k \in T : ~(<<k, m>> \in OpToRel(<, Nat))
  BY NatLessThanWellFounded, WFMin
<1> QED
  BY <1>1 DEF OpToRel

\* Sequences can be strung together, by induction on their number.
LEMMA FlatExists ==
  ASSUME NEW S, NEW ss \in Seq(S), NEW n \in 1..Len(ss)
  PROVE  \E g : g = [i \in 1..n |-> IF i = 1 THEN ss[i] ELSE g[i - 1] \o ss[i]]
<1> DEFINE Joined(g, i) == IF i = 1 THEN ss[i] ELSE g[i - 1] \o ss[i]
           Bad == {k \in 1..n : ~ \E g : g = [i \in 1..k |-> Joined(g, i)]}
<1>0. n \in Nat /\ n \in 1..n /\ 1..n \subseteq Nat
  BY LenProperties
<1>1. SUFFICES ASSUME Bad # {} PROVE FALSE
  BY <1>0, Zenon
<1>2. PICK k \in Bad : \A m \in Bad : ~(m < k)
  <2>1. Bad \subseteq Nat
    BY <1>0, Zenon
  <2> QED
    BY <1>1, <2>1, Least
<1>3. CASE k = 1
  <2> DEFINE g == [i \in 1..1 |-> ss[1]]
  <2>1. g = [i \in 1..1 |-> Joined(g, i)]
    OBVIOUS
  <2> QED
    BY <1>2, <1>3, <2>1
<1>4. CASE k # 1
  <2>1. k \in Nat /\ k - 1 \in 1..n /\ k - 1 < k
    BY <1>0, <1>2, <1>4
  <2>2. PICK g : g = [i \in 1..(k - 1) |-> Joined(g, i)]
    BY <1>2, <2>1
  <2> DEFINE h == [i \in 1..k |-> IF i = k THEN g[k - 1] \o ss[k] ELSE g[i]]
  <2>3. \A i \in 1..k : i # 1 => i - 1 \in 1..k /\ i - 1 # k
    BY <2>1
  <2>4. \A i \in 1..k : i # k => i \in 1..(k - 1)
    BY <2>1
  <2>5. \A i \in 1..k : i # 1 => h[i - 1] = g[i - 1]
    BY <2>3
  <2>6. \A i \in 1..k : h[i] = Joined(h, i)
    BY <1>4, <2>2, <2>4, <2>5
  <2>7. h = [i \in 1..k |-> Joined(h, i)]
    <3>1. h = [i \in 1..k |-> h[i]]
      OBVIOUS
    <3> HIDE DEF h
    <3> QED
      BY <2>6, <3>1
  <2> QED
    BY <1>2, <2>7
<1> QED
  BY <1>3, <1>4

\* Sequences of sequences, strung together one by one.
LEMMA FlattenIs ==
  ASSUME NEW S, NEW ss \in Seq(S), ss # <<>>
  PROVE  \E g : /\ FlattenSeq(ss) = g[Len(ss)]
                /\ \A i \in 1..Len(ss) : g[i] = IF i = 1 THEN ss[1] ELSE g[i - 1] \o ss[i]
<1> DEFINE F(g) == [i \in 1..Len(ss) |-> IF i = 1 THEN ss[i] ELSE g[i - 1] \o ss[i]]
<1>1. Len(ss) \in 1..Len(ss) /\ Len(ss) # 0
  BY LenProperties, EmptySeq
<1> DEFINE g == CHOOSE f : f = F(f)
<1>2. FlattenSeq(ss) = g[Len(ss)]
  BY <1>1 DEF FlattenSeq
<1>3. g = F(g)
  <2>1. \E f : f = F(f)
    BY <1>1, FlatExists
  <2> QED
    BY <2>1
<1> QED
  BY <1>2, <1>3

\* What two sequences of a set make together is in the set, if two of it always do.
LEMMA FlattenClosed ==
  ASSUME NEW C, \A s, t \in C : s \o t \in C, NEW ss \in Seq(C), ss # <<>>
  PROVE  FlattenSeq(ss) \in C
<1>0. Len(ss) \in Nat \ {0} /\ \A i \in 1..Len(ss) : ss[i] \in C
  BY EmptySeq, ElementOfSeq
<1>1. PICK g : /\ FlattenSeq(ss) = g[Len(ss)]
               /\ \A i \in 1..Len(ss) : g[i] = IF i = 1 THEN ss[1] ELSE g[i - 1] \o ss[i]
  BY FlattenIs
<1> DEFINE Bad == {i \in 1..Len(ss) : g[i] \notin C}
<1>2. SUFFICES ASSUME Bad # {} PROVE FALSE
  BY <1>0, <1>1
<1>3. PICK k \in Bad : \A m \in Bad : ~(m < k)
  <2>1. Bad \subseteq Nat
    BY <1>0
  <2> QED
    BY <1>2, <2>1, Least
<1>4. k \in 1..Len(ss) /\ k # 1
  BY <1>0, <1>1, <1>3
<1>5. k - 1 \in 1..Len(ss) /\ k - 1 < k
  BY <1>0, <1>4
<1>6. g[k - 1] \in C
  BY <1>3, <1>5
<1> QED
  BY <1>0, <1>1, <1>3, <1>4, <1>6

\* And nothing of the parts is lost.
LEMMA FlattenRange ==
  ASSUME NEW S, NEW ss \in Seq(Seq(S)), NEW p \in 1..Len(ss)
  PROVE  Range(ss[p]) \subseteq Range(FlattenSeq(ss))
<1>0. Len(ss) \in Nat \ {0} /\ ss # <<>> /\ \A i \in 1..Len(ss) : ss[i] \in Seq(S)
  BY EmptySeq, ElementOfSeq
<1>1. PICK g : /\ FlattenSeq(ss) = g[Len(ss)]
               /\ \A i \in 1..Len(ss) : g[i] = IF i = 1 THEN ss[1] ELSE g[i - 1] \o ss[i]
  BY <1>0, FlattenIs
<1> DEFINE Bad == {i \in 1..Len(ss) :
                     ~ (g[i] \in Seq(S) /\ (p <= i => Range(ss[p]) \subseteq Range(g[i])))}
<1>2. SUFFICES ASSUME Bad # {} PROVE FALSE
  <2>1. Len(ss) \in 1..Len(ss) /\ p <= Len(ss)
    BY <1>0
  <2> QED
    BY <1>1, <2>1
<1>3. PICK k \in Bad : \A m \in Bad : ~(m < k)
  <2>1. Bad \subseteq Nat
    BY <1>0
  <2> QED
    BY <1>2, <2>1, Least
<1>4. k \in 1..Len(ss) /\ k # 1
  <2>1. CASE k = 1
    <3>1. g[1] = ss[1] /\ ss[1] \in Seq(S) /\ (p <= 1 => p = 1)
      BY <1>0, <1>1, <1>3, <2>1
    <3> QED
      BY <1>3, <2>1, <3>1
  <2> QED
    BY <1>3, <2>1
<1>5. k - 1 \in 1..Len(ss) /\ k - 1 < k
  BY <1>0, <1>4
<1>6. g[k - 1] \in Seq(S) /\ (p <= k - 1 => Range(ss[p]) \subseteq Range(g[k - 1]))
  BY <1>3, <1>5
<1>7. g[k] = g[k - 1] \o ss[k] /\ ss[k] \in Seq(S)
  BY <1>0, <1>1, <1>4
<1>8. g[k] \in Seq(S) /\ Range(g[k]) = Range(g[k - 1]) \union Range(ss[k])
  BY <1>6, <1>7, ConcatProperties, RangeConcatenation
<1>9. p <= k => p = k \/ p <= k - 1
  BY <1>4
<1> QED
  BY <1>3, <1>6, <1>8, <1>9

-----------------------------------------------------------------------------
(* Setups *)

\* What prepares a step still does when there is more.
LEMMA PreparedByMore ==
  ASSUME NEW A, NEW B, A \subseteq B, NEW start, NEW x, Prepared(A, start, x)
  PROVE  Prepared(B, start, x)
BY DEF Prepared

\* So a sequence stays in order when more has been done before it.
LEMMA OrderedByMore ==
  ASSUME NEW A, NEW B, A \subseteq B, NEW start, NEW s, Ordered(s, A, start)
  PROVE  Ordered(s, B, start)
<1> SUFFICES ASSUME NEW i \in DOMAIN s
             PROVE  Prepared(B \union {s[j] : j \in 1..(i - 1)}, start, s[i])
  BY DEF Ordered
<1>1. Prepared(A \union {s[j] : j \in 1..(i - 1)}, start, s[i])
  BY DEF Ordered
<1> QED
  BY <1>1, PreparedByMore

\* Phases follow one another when the second finds what it needs in the first.
LEMMA Joins ==
  ASSUME NEW A, NEW B, NEW start, NEW s \in Setups(A, start), NEW t \in Setups(B, start),
         B \subseteq A \union Range(s)
  PROVE  /\ s \o t \in Setups(A, start)
         /\ Range(s) \subseteq Range(s \o t) /\ Range(t) \subseteq Range(s \o t)
<1> DEFINE S == StepOf(start)
           u == s \o t
<1>1. s \in Seq(S) /\ t \in Seq(S) /\ Ordered(s, A, start) /\ Ordered(t, B, start)
      /\ Followed(s) /\ Followed(t)
  BY DEF Setups
<1> HIDE DEF S
<1>2. /\ u \in Seq(S) /\ Len(u) = Len(s) + Len(t)
      /\ \A i \in 1..Len(u) : u[i] = IF i <= Len(s) THEN s[i] ELSE t[i - Len(s)]
      /\ Range(u) = Range(s) \union Range(t)
  BY <1>1, ConcatProperties, RangeConcatenation
<1>3. /\ Len(s) \in Nat /\ DOMAIN s = 1..Len(s)
      /\ Len(t) \in Nat /\ DOMAIN t = 1..Len(t) /\ DOMAIN u = 1..Len(u)
  BY <1>1, <1>2, LenProperties
<1> HIDE DEF u
<1>4. Range(s) = {s[j] : j \in 1..Len(s)}
  BY <1>1, RangeEquality
<1>5. ASSUME NEW i \in 1..Len(u)
      PROVE  Prepared(A \union {u[j] : j \in 1..(i - 1)}, start, u[i])
  <2>1. CASE i <= Len(s)
    <3>1. i \in DOMAIN s /\ u[i] = s[i] /\ \A j \in 1..(i - 1) : u[j] = s[j]
      BY <1>2, <1>3, <2>1
    <3>2. {u[j] : j \in 1..(i - 1)} = {s[j] : j \in 1..(i - 1)}
      BY <3>1
    <3> QED
      BY <1>1, <3>1, <3>2 DEF Ordered
  <2>2. CASE i > Len(s)
    <3> DEFINE k == i - Len(s)
    <3>1. k \in DOMAIN t /\ u[i] = t[k] /\ i \in Nat
      BY <1>2, <1>3, <2>2
    <3>2. Prepared(B \union {t[j] : j \in 1..(k - 1)}, start, t[k])
      BY <1>1, <3>1 DEF Ordered
    <3>3. ASSUME NEW j \in 1..Len(s) PROVE s[j] \in {u[l] : l \in 1..(i - 1)}
      BY <1>2, <1>3, <2>2
    <3>4. ASSUME NEW j \in 1..(k - 1) PROVE t[j] \in {u[l] : l \in 1..(i - 1)}
      <4>1. /\ j + Len(s) \in 1..(i - 1) /\ j + Len(s) \in 1..Len(u) /\ ~(j + Len(s) <= Len(s))
            /\ (j + Len(s)) - Len(s) = j
        BY <1>2, <1>3, <2>2, <3>1
      <4> QED
        BY <1>2, <4>1
    <3>5. B \union {t[j] : j \in 1..(k - 1)} \subseteq A \union {u[j] : j \in 1..(i - 1)}
      BY <1>4, <3>3, <3>4
    <3> QED
      BY <3>1, <3>2, <3>5, PreparedByMore
  <2> QED
    BY <1>3, <2>1, <2>2
<1>6. ASSUME NEW i \in 1..Len(u), u[i][1] = "make", u[i][2] \in MadeBeforeNoted
      PROVE  \E j \in 1..Len(u) : i < j /\ u[j] = Note(u[i][2], u[i][3])
  <2>1. CASE i <= Len(s)
    <3>1. i \in DOMAIN s /\ u[i] = s[i]
      BY <1>2, <1>3, <2>1
    <3>2. PICK j \in DOMAIN s : i < j /\ s[j] = Note(u[i][2], u[i][3])
      BY <1>1, <1>6, <3>1 DEF Followed
    <3>3. j \in 1..Len(u) /\ u[j] = s[j]
      BY <1>2, <1>3
    <3> QED
      BY <3>2, <3>3
  <2>2. CASE i > Len(s)
    <3>1. i - Len(s) \in DOMAIN t /\ u[i] = t[i - Len(s)]
      BY <1>2, <1>3, <2>2
    <3>2. PICK j \in DOMAIN t : i - Len(s) < j /\ t[j] = Note(u[i][2], u[i][3])
      BY <1>1, <1>6, <3>1 DEF Followed
    <3>3. /\ j + Len(s) \in 1..Len(u) /\ i < j + Len(s) /\ ~(j + Len(s) <= Len(s))
          /\ (j + Len(s)) - Len(s) = j
      BY <1>2, <1>3, <3>2
    <3> QED
      BY <1>2, <3>2, <3>3
  <2> QED
    BY <1>3, <2>1, <2>2
<1>7. Ordered(u, A, start) /\ Followed(u)
  BY <1>3, <1>5, <1>6 DEF Ordered, Followed
<1> QED
  BY <1>2, <1>7 DEF Setups, S, u

\* A phase that every machine goes through, one after the other.
LEMMA EachSetups ==
  ASSUME NEW A, NEW start, NEW f \in [Vm -> Setups(A, start)]
  PROVE  LET all == FlattenSeq([i \in DOMAIN Vms |-> f[Vms[i]]])
         IN all \in Setups(A, start) /\ \A v \in Vm : Range(f[v]) \subseteq Range(all)
<1> DEFINE ss == [i \in DOMAIN Vms |-> f[Vms[i]]]
           C == Setups(A, start)
<1>1. Len(Vms) \in Nat /\ DOMAIN Vms = 1..Len(Vms) /\ \A i \in DOMAIN Vms : Vms[i] \in Vm
  BY VmRunAssumption, LenProperties, ElementOfSeq DEF VmRunAssumption
<1>2. ss \in [1..Len(Vms) -> C] /\ ss \in Seq(C) /\ Len(ss) = Len(Vms)
  BY <1>1
<1>3. C \subseteq Seq(StepOf(start))
  BY DEF Setups
<1>4. ss \in Seq(Seq(StepOf(start)))
  BY <1>2, <1>3, SeqMonotonic
<1>5. \A s, t \in C : s \o t \in C
  BY Joins
<1> HIDE DEF C
<1>6. FlattenSeq(ss) \in C
  <2>1. CASE ss = <<>>
    <3>1. FlattenSeq(ss) = <<>>
      BY <2>1 DEF FlattenSeq
    <3>2. <<>> \in Seq(StepOf(start)) /\ DOMAIN <<>> = {}
      OBVIOUS
    <3> QED
      BY <3>1, <3>2 DEF C, Setups, Ordered, Followed
  <2>2. CASE ss # <<>>
    BY <1>2, <1>5, <2>2, FlattenClosed
  <2> QED
    BY <2>1, <2>2
<1>7. ASSUME NEW v \in Vm PROVE Range(f[v]) \subseteq Range(FlattenSeq(ss))
  <2>1. PICK i \in DOMAIN Vms : Vms[i] = v
    BY DEF Vm, Range
  <2>2. i \in 1..Len(ss) /\ ss[i] = f[v]
    BY <1>1, <1>2, <2>1
  <2> QED
    BY <1>4, <2>2, FlattenRange
<1> QED
  BY <1>6, <1>7 DEF C

-----------------------------------------------------------------------------
(* The setup of the code *)

Adopts == {<<"adopt", "owned", v>> : v \in Vm}
Ips == {Note("ip", v) : v \in Vm}

\* The steps on the host.
LEMMA HostSteps ==
  ASSUME NEW start, NEW k \in HostKind
  PROVE  /\ Note(k, Host) \in StepOf(start)
         /\ k \in MadeKind => Make(k, Host) \in StepOf(start)
<1>1. /\ <<k, Host>> \in Artefact
      /\ k \notin {"volume", "domain", "owned", "running", "root", "guest_image"}
  BY DEF Artefact, HostKind
<1> DEFINE a == <<k, Host>>
<1>2. a \in Artefact /\ a[1] = k /\ a[2] = Host
  BY <1>1
<1> HIDE DEF a
<1>3. Note(a[1], a[2]) \in StepOf(start) /\ (k \in MadeKind => Make(a[1], a[2]) \in StepOf(start))
  BY <1>1, <1>2 DEF StepOf
<1> QED
  BY <1>2, <1>3

\* The steps on a machine.
LEMMA VmSteps ==
  ASSUME NEW start, NEW v \in Vm, NEW k \in VmKind
  PROVE  /\ k \notin {"volume", "domain", "owned"} \/ start[v] = "absent"
              => Note(k, v) \in StepOf(start)
         /\ (/\ k \in MadeKind \ {"root", "guest_image"}
             /\ k \in {"volume", "domain"} => start[v] = "absent"
             /\ k = "running" => start[v] \in {"absent", "off"})
              => Make(k, v) \in StepOf(start)
<1> DEFINE a == <<k, v>>
<1>1. a \in Artefact /\ a[1] = k /\ a[2] = v
  BY DEF Artefact
<1> HIDE DEF a
<1>2. /\ k \notin {"volume", "domain", "owned"} \/ start[v] = "absent"
           => Note(a[1], a[2]) \in StepOf(start)
      /\ (/\ k \in MadeKind \ {"root", "guest_image"}
          /\ k \in {"volume", "domain"} => start[v] = "absent"
          /\ k = "running" => start[v] \in {"absent", "off"})
           => Make(a[1], a[2]) \in StepOf(start)
  BY <1>1 DEF StepOf
<1> QED
  BY <1>1, <1>2

\* A machine's volume, domain and process are made in this order, each noted before,
\* and what preflight found running or off is not made again.
LEMMA CreateVmSetups ==
  ASSUME NEW start, NEW v \in Vm
  PROVE  CreateVm(start, v) \in Setups(Adopts, start)
<1>1. CASE start[v] = "absent"
  <2> DEFINE s == <<Note("volume", v), Make("volume", v), Note("domain", v),
                    Make("domain", v), Make("running", v), Note("owned", v)>>
  <2>1. s \in Seq(StepOf(start))
    <3>1. \A k \in {"volume", "domain", "owned"} : Note(k, v) \in StepOf(start)
      BY <1>1, VmSteps DEF VmKind
    <3>2. \A k \in {"volume", "domain", "running"} : Make(k, v) \in StepOf(start)
      BY <1>1, VmSteps DEF VmKind, MadeKind
    <3> QED
      BY <3>1, <3>2
  <2>2. ASSUME NEW i \in DOMAIN s
        PROVE  Prepared(Adopts \union {s[j] : j \in 1..(i - 1)}, start, s[i])
    <3> DEFINE done == {s[j] : j \in 1..(i - 1)}
    <3>1. /\ i \in 2..6 => Note("volume", v) \in done
          /\ i \in 3..6 => Make("volume", v) \in done
          /\ i \in 4..6 => Note("domain", v) \in done
      <4>1. /\ i \in 2..6 => 1 \in 1..(i - 1)
            /\ i \in 3..6 => 2 \in 1..(i - 1)
            /\ i \in 4..6 => 3 \in 1..(i - 1)
        OBVIOUS
      <4> QED
        BY <4>1
    <3>2. i \in 1..6
      OBVIOUS
    <3>3. CASE i = 1 /\ s[i] = Note("volume", v)
      <4> HIDE DEF s
      <4> QED
        BY <3>3 DEF Prepared, Note
    <3>4. CASE i = 2 /\ s[i] = Make("volume", v)
      <4> HIDE DEF s
      <4> QED
        BY <3>1, <3>4 DEF Prepared, Note, Make
    <3>5. CASE i = 3 /\ s[i] = Note("domain", v)
      <4> HIDE DEF s
      <4> QED
        BY <3>5 DEF Prepared, Note
    <3>6. CASE i = 4 /\ s[i] = Make("domain", v)
      <4> HIDE DEF s
      <4> QED
        BY <3>1, <3>6 DEF Prepared, Note, Make
    <3>7. CASE i = 5 /\ s[i] = Make("running", v)
      <4> HIDE DEF s
      <4> QED
        BY <1>1, <3>1, <3>7 DEF Prepared, Note, Make, NotedFirst
    <3>8. CASE i = 6 /\ s[i] = Note("owned", v)
      <4> HIDE DEF s
      <4> QED
        BY <3>8 DEF Prepared, Note
    <3> QED
      BY <3>2, <3>3, <3>4, <3>5, <3>6, <3>7, <3>8
  <2>3. Followed(s)
    BY DEF Followed, Note, Make, MadeBeforeNoted
  <2> QED
    BY <1>1, <2>1, <2>2, <2>3 DEF CreateVm, Setups, Ordered
<1>2. CASE start[v] = "off"
  <2> DEFINE s == <<Make("running", v)>>
  <2>1. s \in Seq(StepOf(start))
    BY <1>2, VmSteps DEF VmKind, MadeKind
  <2>2. Ordered(s, Adopts, start) /\ Followed(s)
    BY <1>2 DEF Ordered, Prepared, Note, Make, NotedFirst, Adopts, Followed, MadeBeforeNoted
  <2> QED
    BY <1>2, <2>1, <2>2 DEF CreateVm, Setups
<1>3. CASE start[v] \notin {"absent", "off"}
  BY <1>3 DEF CreateVm, Setups, Ordered, Followed
<1> QED
  BY <1>1, <1>2, <1>3

\* Phases that need the same may follow one another.
LEMMA JoinsSame ==
  ASSUME NEW A, NEW start, NEW s \in Setups(A, start), NEW t \in Setups(A, start)
  PROVE  /\ s \o t \in Setups(A, start)
         /\ Range(s) \subseteq Range(s \o t) /\ Range(t) \subseteq Range(s \o t)
<1>1. A \subseteq A \union Range(s)
  OBVIOUS
<1> QED
  BY <1>1, Joins

\* The machines of the manifest.
LEMMA VmAt == \A i \in DOMAIN Vms : Vms[i] \in Vm
BY DEF Vm, Range

\* A step that needs nothing, on its own.
LEMMA OneSetups ==
  ASSUME NEW A, NEW start, NEW x \in StepOf(start), Prepared(A, start, x),
         x[1] = "make" => x[2] \notin MadeBeforeNoted
  PROVE  <<x>> \in Setups(A, start)
<1> DEFINE s == <<x>>
<1>1. s \in Seq(StepOf(start)) /\ DOMAIN s = {1} /\ s[1] = x
  OBVIOUS
<1> HIDE DEF s
<1>2. Ordered(s, A, start) /\ Followed(s)
  BY <1>1, PreparedByMore DEF Ordered, Followed
<1> QED
  BY <1>1, <1>2 DEF Setups, s

\* Two steps, of which the second may need the first, or be what it owes.
LEMMA TwoSetups ==
  ASSUME NEW A, NEW start, NEW x \in StepOf(start), NEW y \in StepOf(start),
         Prepared(A, start, x), Prepared(A \union {x}, start, y),
         x[1] = "make" /\ x[2] \in MadeBeforeNoted => y = Note(x[2], x[3]),
         y[1] = "make" => y[2] \notin MadeBeforeNoted
  PROVE  <<x, y>> \in Setups(A, start)
<1> DEFINE s == <<x, y>>
<1>1. /\ s \in Seq(StepOf(start)) /\ DOMAIN s = {1, 2} /\ s[1] = x /\ s[2] = y
      /\ {s[j] : j \in 1..1} = {x}
  OBVIOUS
<1> HIDE DEF s
<1>2. Ordered(s, A, start) /\ Followed(s)
  BY <1>1, PreparedByMore DEF Ordered, Followed
<1> QED
  BY <1>1, <1>2 DEF Setups, s

\* Preflight looks at every machine.
LEMMA PreflightSetups ==
  ASSUME NEW start PROVE Preflight \in Setups({}, start) /\ Adopts \subseteq Range(Preflight)
<1> DEFINE f == [v \in Vm |-> <<<<"adopt", "owned", v>>>>]
           all == FlattenSeq([i \in DOMAIN Vms |-> f[Vms[i]]])
           x == Make("state", Host)
<1>1. Preflight = <<x>> \o all
  BY VmAt DEF Preflight, Each
<1>2. ASSUME NEW v \in Vm PROVE f[v] \in Setups({}, start)
  <2>1. <<"adopt", "owned", v>> \in StepOf(start)
    BY DEF StepOf
  <2> QED
    BY <2>1, OneSetups DEF Prepared
<1>3. f \in [Vm -> Setups({}, start)]
  BY <1>2
<1>4. all \in Setups({}, start) /\ \A v \in Vm : Range(f[v]) \subseteq Range(all)
  BY <1>3, EachSetups
<1>5. Adopts \subseteq Range(all)
  <2>1. ASSUME NEW v \in Vm PROVE <<"adopt", "owned", v>> \in Range(f[v])
    BY DEF Range
  <2> QED
    BY <1>4, <2>1 DEF Adopts
<1>6. <<x>> \in Setups({}, start)
  BY HostSteps, OneSetups DEF Prepared, Make, HostKind, MadeKind, NotedFirst, MadeBeforeNoted
<1> HIDE DEF all, x
<1>7. <<x>> \o all \in Setups({}, start) /\ Range(all) \subseteq Range(<<x>> \o all)
  BY <1>4, <1>6, JoinsSame
<1> QED
  BY <1>1, <1>5, <1>7

\* The machines are made, leased and made permissive.
LEMMA EnsureVmsSetups ==
  ASSUME NEW start
  PROVE  EnsureVms(start) \in Setups(Adopts, start) /\ Ips \subseteq Range(EnsureVms(start))
<1> DEFINE f == [v \in Vm |-> CreateVm(start, v)]
           g == [v \in Vm |-> <<Note("ip", v)>>]
           h == [v \in Vm |-> <<Note("enforcing", v), Make("selinux", v), Note("selinux", v)>>]
           fs == FlattenSeq([i \in DOMAIN Vms |-> f[Vms[i]]])
           gs == FlattenSeq([i \in DOMAIN Vms |-> g[Vms[i]]])
           hs == FlattenSeq([i \in DOMAIN Vms |-> h[Vms[i]]])
<1>1. EnsureVms(start) = (fs \o gs) \o hs
  BY VmAt DEF EnsureVms, Each
<1>2. fs \in Setups(Adopts, start)
  <2>1. f \in [Vm -> Setups(Adopts, start)]
    BY CreateVmSetups
  <2> HIDE DEF f
  <2> QED
    BY <2>1, EachSetups
<1>3. gs \in Setups(Adopts, start) /\ Ips \subseteq Range(gs)
  <2>1. ASSUME NEW v \in Vm PROVE g[v] \in Setups(Adopts, start) /\ Note("ip", v) \in Range(g[v])
    <3>1. Note("ip", v) \in StepOf(start)
      BY VmSteps DEF VmKind
    <3>2. <<Note("ip", v)>> \in Setups(Adopts, start)
      BY <3>1, OneSetups DEF Prepared, Note
    <3> QED
      BY <3>2 DEF Range
  <2>2. g \in [Vm -> Setups(Adopts, start)]
    BY <2>1
  <2> HIDE DEF g
  <2>3. gs \in Setups(Adopts, start) /\ \A v \in Vm : Range(g[v]) \subseteq Range(gs)
    BY <2>2, EachSetups
  <2> QED
    BY <2>1, <2>3 DEF Ips
<1>4. hs \in Setups(Adopts, start)
  <2>1. ASSUME NEW v \in Vm PROVE h[v] \in Setups(Adopts, start)
    <3> DEFINE s == <<Note("enforcing", v), Make("selinux", v)>>
               t == <<Note("selinux", v)>>
    <3>1. /\ Note("enforcing", v) \in StepOf(start) /\ Make("selinux", v) \in StepOf(start)
          /\ Note("selinux", v) \in StepOf(start)
      BY VmSteps DEF VmKind, GuestKind, MadeKind
    <3>2. s \in Setups(Adopts, start)
      BY <3>1, TwoSetups DEF Prepared, Note, Make, NotedFirst, MadeBeforeNoted
    <3>3. t \in Setups(Adopts, start)
      BY <3>1, OneSetups DEF Prepared, Note
    <3>4. h[v] = s \o t
      OBVIOUS
    <3> HIDE DEF s, t, h
    <3> QED
      BY <3>2, <3>3, <3>4, JoinsSame
  <2>2. h \in [Vm -> Setups(Adopts, start)]
    BY <2>1
  <2> HIDE DEF h
  <2> QED
    BY <2>2, EachSetups
<1> HIDE DEF fs, gs, hs
<1>5. fs \o gs \in Setups(Adopts, start) /\ Range(gs) \subseteq Range(fs \o gs)
  BY <1>2, <1>3, JoinsSame
<1>6. (fs \o gs) \o hs \in Setups(Adopts, start)
      /\ Range(fs \o gs) \subseteq Range((fs \o gs) \o hs)
  BY <1>4, <1>5, JoinsSame
<1> QED
  BY <1>1, <1>3, <1>5, <1>6

\* Keys, files of the guests, database, directories, tunnels and jobs find the
\* leases and nothing else they need.
LEMMA GenerateGitKeySetups ==
  ASSUME NEW start PROVE GenerateGitKey \in Setups(Ips, start)
<1> DEFINE s == <<Make("runtime", Host)>>
           t == <<Make("authkey", Host), Note("authkey", Host)>>
<1>1. /\ Make("runtime", Host) \in StepOf(start) /\ Make("authkey", Host) \in StepOf(start)
      /\ Note("authkey", Host) \in StepOf(start)
  BY HostSteps DEF HostKind, MadeKind
<1>2. s \in Setups(Ips, start)
  BY <1>1, OneSetups DEF Prepared, Make, NotedFirst, MadeBeforeNoted
<1>3. t \in Setups(Ips, start)
  BY <1>1, TwoSetups DEF Prepared, Note, Make, NotedFirst, MadeBeforeNoted
<1>4. GenerateGitKey = s \o t
  BY DEF GenerateGitKey
<1> HIDE DEF s, t
<1> QED
  BY <1>2, <1>3, <1>4, JoinsSame

\* The guest's file is noted before the lines are added to it.
LEMMA SetupSshSetups ==
  ASSUME NEW start PROVE SetupSsh \in Setups(Ips, start)
<1> DEFINE f == [v \in Vm |-> <<Note("known", v), Make("known", v)>>]
           fs == FlattenSeq([i \in DOMAIN Vms |-> f[Vms[i]]])
<1>1. SetupSsh = fs
  BY VmAt DEF SetupSsh, Each
<1>2. ASSUME NEW v \in Vm PROVE f[v] \in Setups(Ips, start)
  <2>1. Note("known", v) \in StepOf(start) /\ Make("known", v) \in StepOf(start)
    BY VmSteps DEF VmKind, GuestKind, MadeKind
  <2> QED
    BY <2>1, TwoSetups DEF Prepared, Note, Make, NotedFirst, MadeBeforeNoted
<1>3. f \in [Vm -> Setups(Ips, start)]
  BY <1>2
<1> HIDE DEF f
<1> QED
  BY <1>1, <1>3, EachSetups

\* The database is noted before it is made.
LEMMA StartDbSetups ==
  ASSUME NEW start PROVE StartDb \in Setups(Ips, start)
<1> DEFINE s == <<Note("db", Host), Make("db", Host)>>
           t == <<Note("schema", Host), Make("image", Host)>>
<1>1. /\ Note("db", Host) \in StepOf(start) /\ Make("db", Host) \in StepOf(start)
      /\ Note("schema", Host) \in StepOf(start) /\ Make("image", Host) \in StepOf(start)
  BY HostSteps DEF HostKind, MadeKind
<1>2. s \in Setups(Ips, start)
  BY <1>1, TwoSetups DEF Prepared, Note, Make, NotedFirst, MadeBeforeNoted
<1>3. t \in Setups(Ips, start)
  BY <1>1, TwoSetups DEF Prepared, Note, Make, NotedFirst, MadeBeforeNoted
<1>4. StartDb = s \o t
  BY DEF StartDb
<1> HIDE DEF s, t
<1> QED
  BY <1>2, <1>3, <1>4, JoinsSame

\* A pool's threads work in directories of machines whose address is noted.
LEMMA SyncWorkersSetups ==
  ASSUME NEW start PROVE SyncWorkers \in Setups(Ips, start)
<1>1. /\ <<"pool", "root", Host>> \in StepOf(start)
      /\ <<"pool", "guest_image", Host>> \in StepOf(start)
  BY DEF StepOf
<1>2. \A v \in Vm : Note("ip", v) \in Ips
  BY DEF Ips
<1> QED
  BY <1>1, <1>2, TwoSetups DEF SyncWorkers, Prepared

\* A tunnel is made before it is noted, and noted in the next step.
LEMMA StartTunnelsSetups ==
  ASSUME NEW start PROVE StartTunnels \in Setups(Ips, start)
<1> DEFINE f == [v \in Vm |-> <<Make("tunnel", v), Note("tunnel", v), Note("tunnel_id", v)>>]
           fs == FlattenSeq([i \in DOMAIN Vms |-> f[Vms[i]]])
<1>1. StartTunnels = fs
  BY VmAt DEF StartTunnels, Each
<1>2. ASSUME NEW v \in Vm PROVE f[v] \in Setups(Ips, start)
  <2> DEFINE s == <<Make("tunnel", v), Note("tunnel", v)>>
             t == <<Note("tunnel_id", v)>>
  <2>1. /\ Make("tunnel", v) \in StepOf(start) /\ Note("tunnel", v) \in StepOf(start)
        /\ Note("tunnel_id", v) \in StepOf(start)
    BY VmSteps DEF VmKind, MadeKind
  <2>2. s \in Setups(Ips, start)
    BY <2>1, TwoSetups DEF Prepared, Note, Make, NotedFirst, MadeBeforeNoted
  <2>3. t \in Setups(Ips, start)
    BY <2>1, OneSetups DEF Prepared, Note
  <2>4. f[v] = s \o t
    OBVIOUS
  <2> HIDE DEF s, t, f
  <2> QED
    BY <2>2, <2>3, <2>4, JoinsSame
<1>3. f \in [Vm -> Setups(Ips, start)]
  BY <1>2
<1> HIDE DEF f
<1> QED
  BY <1>1, <1>3, EachSetups

\* The jobs: the core is noted in the step after it is made, a remote process
\* before it is made, and containers come to machines whose address is noted.
LEMMA RunJobsSetups ==
  ASSUME NEW start PROVE RunJobs \in Setups(Ips, start)
<1> DEFINE f == [v \in Vm |-> StartRemote(v)]
           g == [v \in Vm |-> <<Make("containers", v)>>]
           h == [v \in Vm |-> <<<<"end", "containers", v>>>>]
           fs == FlattenSeq([i \in DOMAIN Vms |-> f[Vms[i]]])
           gs == FlattenSeq([i \in DOMAIN Vms |-> g[Vms[i]]])
           hs == FlattenSeq([i \in DOMAIN Vms |-> h[Vms[i]]])
<1>1. RunJobs = ((StartCore \o fs) \o gs) \o hs
  BY VmAt DEF RunJobs, Each
<1>2. StartCore \in Setups(Ips, start)
  <2> DEFINE s == <<Make("core", Host), Note("core", Host)>>
             t == <<Note("core_id", Host)>>
  <2>1. /\ Make("core", Host) \in StepOf(start) /\ Note("core", Host) \in StepOf(start)
        /\ Note("core_id", Host) \in StepOf(start)
    BY HostSteps DEF HostKind, MadeKind
  <2>2. s \in Setups(Ips, start)
    BY <2>1, TwoSetups DEF Prepared, Note, Make, NotedFirst, MadeBeforeNoted
  <2>3. t \in Setups(Ips, start)
    BY <2>1, OneSetups DEF Prepared, Note
  <2>4. StartCore = s \o t
    BY DEF StartCore
  <2> HIDE DEF s, t
  <2> QED
    BY <2>2, <2>3, <2>4, JoinsSame
<1>3. fs \in Setups(Ips, start)
  <2>1. ASSUME NEW v \in Vm PROVE f[v] \in Setups(Ips, start)
    <3> DEFINE s == <<Note("fake", v), Make("fake", v)>>
               t == <<Note("worker", v), Make("worker", v)>>
    <3>1. /\ Note("fake", v) \in StepOf(start) /\ Make("fake", v) \in StepOf(start)
          /\ Note("worker", v) \in StepOf(start) /\ Make("worker", v) \in StepOf(start)
      BY VmSteps DEF VmKind, GuestKind, ProcessKind, MadeKind
    <3>2. s \in Setups(Ips, start)
      BY <3>1, TwoSetups DEF Prepared, Note, Make, NotedFirst, MadeBeforeNoted
    <3>3. t \in Setups(Ips, start)
      BY <3>1, TwoSetups DEF Prepared, Note, Make, NotedFirst, MadeBeforeNoted
    <3>4. f[v] = s \o t
      BY DEF StartRemote
    <3> HIDE DEF s, t, f
    <3> QED
      BY <3>2, <3>3, <3>4, JoinsSame
  <2>2. f \in [Vm -> Setups(Ips, start)]
    BY <2>1
  <2> HIDE DEF f
  <2> QED
    BY <2>2, EachSetups
<1>4. gs \in Setups(Ips, start)
  <2>1. ASSUME NEW v \in Vm PROVE g[v] \in Setups(Ips, start)
    <3>1. Make("containers", v) \in StepOf(start) /\ Note("ip", v) \in Ips
      BY VmSteps DEF VmKind, GuestKind, ProcessKind, MadeKind, Ips
    <3> QED
      BY <3>1, OneSetups DEF Prepared, Make, NotedFirst, MadeBeforeNoted
  <2>2. g \in [Vm -> Setups(Ips, start)]
    BY <2>1
  <2> HIDE DEF g
  <2> QED
    BY <2>2, EachSetups
<1>5. hs \in Setups(Ips, start)
  <2>1. ASSUME NEW v \in Vm PROVE h[v] \in Setups(Ips, start)
    <3>1. <<"end", "containers", v>> \in StepOf(start)
      BY DEF StepOf
    <3> QED
      BY <3>1, OneSetups DEF Prepared
  <2>2. h \in [Vm -> Setups(Ips, start)]
    BY <2>1
  <2> HIDE DEF h
  <2> QED
    BY <2>2, EachSetups
<1> HIDE DEF fs, gs, hs
<1>6. StartCore \o fs \in Setups(Ips, start)
  BY <1>2, <1>3, JoinsSame
<1>7. (StartCore \o fs) \o gs \in Setups(Ips, start)
  BY <1>4, <1>6, JoinsSame
<1> QED
  BY <1>1, <1>5, <1>7, JoinsSame

\* A phase after others that hold what the phase needs.
LEMMA Continues ==
  ASSUME NEW A, NEW B, NEW start, NEW s \in Setups(A, start), NEW t \in Setups(B, start),
         B \subseteq Range(s)
  PROVE  /\ s \o t \in Setups(A, start)
         /\ Range(s) \subseteq Range(s \o t) /\ Range(t) \subseteq Range(s \o t)
<1>1. B \subseteq A \union Range(s)
  OBVIOUS
<1> QED
  BY <1>1, Joins

\* So the whole setup makes nothing before what the cleanup needs to know of it,
\* but the three artefacts it notes right after.
LEMMA SetupIsOrdered ==
  ASSUME NEW start, NEW A, A = {} PROVE Setup(start) \in Setups(A, start)
<1> DEFINE a == Preflight \o EnsureVms(start)
           b == a \o GenerateGitKey
           c == b \o SetupSsh
           d == c \o StartDb
           e == d \o SyncWorkers
           f == e \o StartTunnels
<1>1. Setup(start) = f \o RunJobs
  BY DEF Setup
<1>2. a \in Setups(A, start) /\ Range(EnsureVms(start)) \subseteq Range(a)
  BY PreflightSetups, EnsureVmsSetups, Continues
<1>3. a \in Setups(A, start) /\ Ips \subseteq Range(a)
  BY <1>2, EnsureVmsSetups
<1> HIDE DEF a
<1>4. b \in Setups(A, start) /\ Ips \subseteq Range(b)
  BY <1>3, GenerateGitKeySetups, Continues
<1> HIDE DEF b
<1>5. c \in Setups(A, start) /\ Ips \subseteq Range(c)
  BY <1>4, SetupSshSetups, Continues
<1> HIDE DEF c
<1>6. d \in Setups(A, start) /\ Ips \subseteq Range(d)
  BY <1>5, StartDbSetups, Continues
<1> HIDE DEF d
<1>7. e \in Setups(A, start) /\ Ips \subseteq Range(e)
  BY <1>6, SyncWorkersSetups, Continues
<1> HIDE DEF e
<1>8. f \in Setups(A, start) /\ Ips \subseteq Range(f)
  BY <1>7, StartTunnelsSetups, Continues
<1> HIDE DEF f
<1> QED
  BY <1>1, <1>8, RunJobsSetups, Continues

-----------------------------------------------------------------------------
(* Steps of the setup *)

\* What a step may be.
LEMMA StepIs ==
  ASSUME NEW start, NEW x \in StepOf(start)
  PROVE  /\ x[1] \in {"note", "make", "adopt", "pool", "end"}
         /\ x[1] \in {"note", "make"} => <<x[2], x[3]>> \in Artefact
         /\ x[1] = "note" => /\ x = Note(x[2], x[3])
                             /\ x[2] \in {"volume", "domain", "owned"} => start[x[3]] = "absent"
         /\ x[1] = "make" => /\ x = Make(x[2], x[3]) /\ x[2] \in MadeKind \ {"root", "guest_image"}
                             /\ x[2] \in {"volume", "domain"} => start[x[3]] = "absent"
                             /\ x[2] = "running" => start[x[3]] \in {"absent", "off"}
         /\ x[1] = "adopt" => x[2] = "owned" /\ x[3] \in Vm
         /\ x[1] = "pool" => x[2] \in {"root", "guest_image"}
         /\ x[1] = "end" => x[2] = "containers" /\ x[3] \in Vm
<1>1. CASE \E a \in Artefact : /\ x = Note(a[1], a[2])
                               /\ a[1] \in {"volume", "domain", "owned"} => start[a[2]] = "absent"
  <2>1. PICK a \in Artefact : /\ x = Note(a[1], a[2])
                              /\ a[1] \in {"volume", "domain", "owned"} => start[a[2]] = "absent"
    BY <1>1
  <2>2. a = <<a[1], a[2]>>
    BY DEF Artefact
  <2> QED
    BY <2>1, <2>2 DEF Note
<1>2. CASE \E a \in Artefact : /\ x = Make(a[1], a[2])
                               /\ a[1] \in MadeKind \ {"root", "guest_image"}
                               /\ a[1] \in {"volume", "domain"} => start[a[2]] = "absent"
                               /\ a[1] = "running" => start[a[2]] \in {"absent", "off"}
  <2>1. PICK a \in Artefact : /\ x = Make(a[1], a[2])
                              /\ a[1] \in MadeKind \ {"root", "guest_image"}
                              /\ a[1] \in {"volume", "domain"} => start[a[2]] = "absent"
                              /\ a[1] = "running" => start[a[2]] \in {"absent", "off"}
    BY <1>2
  <2>2. a = <<a[1], a[2]>>
    BY DEF Artefact
  <2> QED
    BY <2>1, <2>2 DEF Make
<1>3. CASE \E v \in Vm : x = <<"adopt", "owned", v>> \/ x = <<"end", "containers", v>>
  BY <1>3
<1>4. CASE \E k \in {"root", "guest_image"} : x = <<"pool", k, Host>>
  BY <1>4
<1> QED
  BY <1>1, <1>2, <1>3, <1>4 DEF StepOf

\* Which artefacts there are.
LEMMA ArtefactIs ==
  ASSUME NEW a \in Artefact
  PROVE  a = <<a[1], a[2]>> /\ (a[1] \in VmKind => a[2] \in Vm)
BY DEF Artefact, HostKind, VmKind, GuestKind, ProcessKind

\* The first step of a setup is prepared.
LEMMA FirstIsPrepared ==
  ASSUME NEW A, NEW start, NEW s \in Setups(A, start), s # <<>>
  PROVE  s[1] \in StepOf(start) /\ Prepared(A, start, s[1])
<1>1. s \in Seq(StepOf(start)) /\ 1 \in DOMAIN s /\ Ordered(s, A, start)
  BY EmptySeq, LenProperties DEF Setups
<1>2. Prepared(A \union {s[j] : j \in 1..(1 - 1)}, start, s[1])
  BY <1>1 DEF Ordered
<1>3. A \union {s[j] : j \in 1..(1 - 1)} = A
  OBVIOUS
<1> QED
  BY <1>1, <1>2, <1>3, ElementOfSeq, LenProperties

\* When its effect is there, the rest is a setup.
LEMMA RestIsSetup ==
  ASSUME NEW A, NEW B, NEW start, NEW s \in Setups(A, start), s # <<>>, A \subseteq B, s[1] \in B
  PROVE  Tail(s) \in Setups(B, start)
<1> DEFINE S == StepOf(start)
           t == Tail(s)
<1>1. s \in Seq(S) /\ Ordered(s, A, start) /\ Followed(s)
  BY DEF Setups
<1> HIDE DEF S
<1>2. t \in Seq(S) /\ Len(t) = Len(s) - 1 /\ \A i \in 1..Len(t) : t[i] = s[i + 1]
  BY <1>1, HeadTailProperties
<1>3. Len(s) \in Nat /\ DOMAIN s = 1..Len(s) /\ DOMAIN t = 1..Len(t) /\ Len(t) \in Nat
  BY <1>1, <1>2, LenProperties
<1> HIDE DEF t
<1>4. ASSUME NEW i \in 1..Len(t) PROVE Prepared(B \union {t[j] : j \in 1..(i - 1)}, start, t[i])
  <2>1. i + 1 \in DOMAIN s /\ t[i] = s[i + 1] /\ i \in Nat
    BY <1>2, <1>3
  <2>2. Prepared(A \union {s[j] : j \in 1..((i + 1) - 1)}, start, s[i + 1])
    BY <1>1, <2>1 DEF Ordered
  <2>3. ASSUME NEW j \in 1..((i + 1) - 1) PROVE s[j] \in B \union {t[l] : l \in 1..(i - 1)}
    <3>1. CASE j = 1
      BY <3>1
    <3>2. CASE j # 1
      <4>1. j - 1 \in 1..(i - 1) /\ j - 1 \in 1..Len(t) /\ (j - 1) + 1 = j
        BY <1>3, <2>1, <3>2
      <4> QED
        BY <1>2, <4>1
    <3> QED
      BY <3>1, <3>2
  <2>4. A \union {s[j] : j \in 1..((i + 1) - 1)} \subseteq B \union {t[j] : j \in 1..(i - 1)}
    BY <2>3
  <2> QED
    BY <2>1, <2>2, <2>4, PreparedByMore
<1>5. ASSUME NEW i \in 1..Len(t), t[i][1] = "make", t[i][2] \in MadeBeforeNoted
      PROVE  \E j \in 1..Len(t) : i < j /\ t[j] = Note(t[i][2], t[i][3])
  <2>1. i + 1 \in DOMAIN s /\ t[i] = s[i + 1] /\ i \in Nat
    BY <1>2, <1>3
  <2>2. PICK j \in DOMAIN s : i + 1 < j /\ s[j] = Note(t[i][2], t[i][3])
    BY <1>1, <1>5, <2>1 DEF Followed
  <2>3. j - 1 \in 1..Len(t) /\ i < j - 1 /\ (j - 1) + 1 = j
    BY <1>2, <1>3, <2>1, <2>2
  <2> QED
    BY <1>2, <2>2, <2>3
<1> QED
  BY <1>2, <1>3, <1>4, <1>5 DEF Setups, Ordered, Followed, S, t

\* The first step of a setup under way: what is known of it.
LEMMA Now ==
  ASSUME VInv, pc = "setup", todo # <<>>
  PROVE  /\ todo[1] \in StepOf(initial) /\ Prepared(Done, initial, todo[1])
         /\ Tail(todo) \in Seq(StepOf(initial))
<1>1. todo \in Setups(Done, initial) /\ todo \in Seq(StepOf(initial))
  BY DEF VInv, SetupInv
<1> QED
  BY <1>1, FirstIsPrepared, HeadTailProperties

\* A machine is made after its volume, and whatever is made has its reason.
LEMMA MadeIsBacked ==
  ASSUME VInv, pc = "setup", todo # <<>>, Op = "make"
  PROVE  /\ Item \in Artefact /\ Item[1] = todo[1][2] /\ Item[2] = todo[1][3] /\ Backed(Item)
         /\ Item[1] \in {"running", "domain"} => <<"volume", Item[2]>> \in present
<1> DEFINE x == todo[1]
<1>1. x \in StepOf(initial) /\ Prepared(Done, initial, x) /\ x[1] = "make"
  BY Now DEF Op
<1>2. /\ Item = <<x[2], x[3]>> /\ Item \in Artefact /\ Item[1] = x[2] /\ Item[2] = x[3]
      /\ x[2] \in MadeKind \ {"root", "guest_image"}
      /\ x[2] \in {"volume", "domain"} => initial[x[3]] = "absent"
      /\ x[2] = "running" => initial[x[3]] \in {"absent", "off"}
      /\ x[2] \in VmKind => x[3] \in Vm
  BY <1>1, StepIs, ArtefactIs DEF Item
<1> HIDE DEF x
<1>3. /\ \A k, v : Note(k, v) \in Done => <<k, v>> \in noted
      /\ \A v : Make("volume", v) \in Done => <<"volume", v>> \in present
      /\ \A v : <<"adopt", "owned", v>> \in Done =>
                  initial[v] = "absent" \/ <<"owned", v>> \in noted
  BY DEF Done, Note, Make
<1>4. \A v \in Vm : initial[v] = "off" => <<"volume", v>> \in present
  BY DEF VInv, SetupInv, Existing
<1>5. x[2] \in {"running", "domain", "containers"} => x[2] \in VmKind
  BY DEF VmKind, GuestKind, ProcessKind
<1>6. x[2] \in {"running", "domain"} => <<"volume", x[3]>> \in present
  BY <1>1, <1>2, <1>3, <1>4, <1>5 DEF Prepared
<1>7. Backed(Item)
  BY <1>1, <1>2, <1>3, <1>5 DEF Prepared, Backed, NotedFirst, Reached
<1> QED
  BY <1>2, <1>6, <1>7 DEF x

\* More is noted than before, and more is there: what was right stays right.
LEMMA MoreKeeps ==
  ASSUME VInv, present \subseteq present', noted \subseteq noted', UNCHANGED initial
  PROVE  /\ Done \subseteq Done'
         /\ \A a \in present : Backed(a)'
         /\ Reached \subseteq Reached'
         /\ Existing(initial) \subseteq present => Existing(initial)' \subseteq present'
<1>1. Done \subseteq Done'
  BY DEF Done
<1>2. Reached \subseteq Reached'
  BY DEF Reached
<1>3. Existing(initial)' = Existing(initial)
  BY DEF Existing
<1>4. ASSUME NEW a \in present PROVE Backed(a)'
  <2>1. Backed(a)
    BY DEF VInv
  <2> QED
    BY <1>2, <1>3, <2>1 DEF Backed
<1> QED
  BY <1>1, <1>2, <1>3, <1>4

\* A note is of the run's own making.
LEMMA NoteStepInv == ASSUME VInv, NoteStep PROVE VInv'
<1> DEFINE x == todo[1]
<1>1. /\ pc = "setup" /\ todo # <<>> /\ pool = {} /\ x[1] = "note" /\ Item = <<x[2], x[3]>>
      /\ noted' = noted \union {Item} /\ todo' = Tail(todo)
      /\ UNCHANGED <<initial, keep, pool, pc, present, queried, raised, failed, faults>>
  BY DEF NoteStep, Running, Op, Item
<1>2. /\ x \in StepOf(initial) /\ Tail(todo) \in Seq(StepOf(initial))
      /\ todo \in Setups(Done, initial)
      /\ Item \in Artefact
      /\ Item[1] \in {"volume", "domain", "owned"} => initial[Item[2]] = "absent"
  BY <1>1, Now, StepIs DEF VInv, SetupInv
<1> HIDE DEF x
<1>3. x \in Done' /\ Done \subseteq Done'
  BY <1>1, <1>2, MoreKeeps DEF Done
<1>4. VTypeOK'
  BY <1>1, <1>2 DEF VInv, VTypeOK
<1>5. SetupInv'
  <2>1. Tail(todo) \in Setups(Done', initial)
    BY <1>1, <1>2, <1>3, RestIsSetup DEF x
  <2> QED
    BY <1>1, <1>2, <2>1, MoreKeeps DEF VInv, SetupInv
<1>6. NotedInv'
  BY <1>1, <1>2 DEF VInv, NotedInv, Strange
<1>7. DisksInv'
  BY <1>1 DEF VInv, DisksInv
<1> QED
  BY <1>1, <1>4, <1>5, <1>6, <1>7, MoreKeeps DEF VInv

\* What is made has been prepared.
LEMMA MakeStepInv == ASSUME VInv, MakeStep PROVE VInv'
<1> DEFINE x == todo[1]
<1>1. /\ pc = "setup" /\ todo # <<>> /\ pool = {} /\ x[1] = "make" /\ Item = <<x[2], x[3]>>
      /\ present' = present \union {Item} /\ todo' = Tail(todo)
      /\ UNCHANGED <<initial, keep, pool, pc, noted, queried, raised, failed, faults>>
  BY DEF MakeStep, Running, Op, Item
<1>2. /\ x \in StepOf(initial) /\ Tail(todo) \in Seq(StepOf(initial))
      /\ todo \in Setups(Done, initial)
      /\ Item \in Artefact /\ Item[1] = x[2] /\ Item[2] = x[3] /\ Backed(Item)
      /\ Item[1] \in {"running", "domain"} => <<"volume", Item[2]>> \in present
  BY <1>1, Now, MadeIsBacked DEF VInv, SetupInv, Op
<1> HIDE DEF x
<1>3. x \in Done' /\ Done \subseteq Done'
  BY <1>1, <1>2, MoreKeeps DEF Done
<1>4. VTypeOK'
  BY <1>1, <1>2 DEF VInv, VTypeOK
<1>5. SetupInv'
  <2>1. Tail(todo) \in Setups(Done', initial)
    BY <1>1, <1>2, <1>3, RestIsSetup DEF x
  <2> QED
    BY <1>1, <1>2, <2>1, MoreKeeps DEF VInv, SetupInv
<1>6. NotedInv'
  BY <1>1 DEF VInv, NotedInv, Strange
<1>7. DisksInv'
  BY <1>1, <1>2 DEF VInv, DisksInv
<1>8. ASSUME NEW a, a = Item PROVE Backed(a)'
  BY <1>1, <1>2, <1>8 DEF Backed, Reached, Existing, Strange
<1> QED
  BY <1>1, <1>4, <1>5, <1>6, <1>7, <1>8, MoreKeeps DEF VInv

\* The reason for an artefact is in what is noted, which is not forgotten.
LEMMA BackedStays ==
  ASSUME noted \subseteq noted', UNCHANGED initial, NEW a, Backed(a) PROVE Backed(a)'
BY DEF Backed, Reached, Existing

\* The containers of jobs that ended are nobody's foundation.
LEMMA ContainersEndInv == ASSUME VInv, ContainersEnd PROVE VInv'
<1> DEFINE x == todo[1]
<1>1. /\ pc = "setup" /\ todo # <<>> /\ pool = {} /\ x[1] = "end" /\ Item = <<x[2], x[3]>>
      /\ present' = present \ {Item} /\ todo' = Tail(todo)
      /\ UNCHANGED <<initial, keep, pool, pc, noted, queried, raised, failed, faults>>
  BY DEF ContainersEnd, Running, Op, Item
<1>2. /\ x \in StepOf(initial) /\ Tail(todo) \in Seq(StepOf(initial))
      /\ todo \in Setups(Done, initial)
      /\ x[2] = "containers"
  BY <1>1, Now, StepIs DEF VInv, SetupInv
<1> HIDE DEF x
<1>3. \A a \in present : a[1] # "containers" => a \in present'
  BY <1>1, <1>2
<1>4. x \in Done' /\ Done \subseteq Done'
  <2>1. \A v : <<"volume", v>> \in present => <<"volume", v>> \in present'
    BY <1>3
  <2> QED
    BY <1>1, <1>2, <2>1 DEF Done
<1>5. VTypeOK'
  BY <1>1 DEF VInv, VTypeOK
<1>6. SetupInv'
  <2>1. Tail(todo) \in Setups(Done', initial)
    BY <1>1, <1>2, <1>4, RestIsSetup DEF x
  <2>2. Existing(initial) \subseteq present => Existing(initial) \subseteq present'
    BY <1>3 DEF Existing
  <2> QED
    BY <1>1, <1>2, <2>1, <2>2 DEF VInv, SetupInv, Reached
<1>7. NotedInv'
  BY <1>1 DEF VInv, NotedInv, Strange
<1>8. DisksInv'
  BY <1>1, <1>3 DEF VInv, DisksInv
<1>9. \A a \in present : Backed(a)'
  BY <1>1, BackedStays DEF VInv
<1> QED
  BY <1>1, <1>5, <1>6, <1>7, <1>8, <1>9 DEF VInv

\* Preflight takes a machine for the harness's own unless it is a Blocker.
LEMMA AdoptInv == ASSUME VInv, Adopt PROVE VInv'
<1> DEFINE x == todo[1]
<1>1. /\ pc = "setup" /\ todo # <<>> /\ pool = {} /\ x[1] = "adopt" /\ Item = <<x[2], x[3]>>
      /\ initial[Item[2]] \notin {"foreign", "stray"}
      /\ noted' = IF initial[Item[2]] # "absent" THEN noted \union {Item} ELSE noted
      /\ todo' = Tail(todo)
      /\ UNCHANGED <<initial, keep, pool, pc, present, queried, raised, failed, faults>>
  BY DEF Adopt, Running, Op, Item
<1>2. /\ x \in StepOf(initial) /\ Tail(todo) \in Seq(StepOf(initial))
      /\ todo \in Setups(Done, initial)
      /\ Item \in Artefact /\ Item[1] = "owned" /\ Item[2] = x[3] /\ x[2] = "owned"
  BY <1>1, Now, StepIs DEF VInv, SetupInv, Artefact, VmKind
<1> HIDE DEF x
<1>3. x \in Done' /\ Done \subseteq Done'
  BY <1>1, <1>2, MoreKeeps DEF Done
<1>4. VTypeOK'
  BY <1>1, <1>2 DEF VInv, VTypeOK
<1>5. SetupInv'
  <2>1. Tail(todo) \in Setups(Done', initial)
    BY <1>1, <1>2, <1>3, RestIsSetup DEF x
  <2> QED
    BY <1>1, <1>2, <2>1, MoreKeeps DEF VInv, SetupInv
<1>6. NotedInv'
  BY <1>1, <1>2 DEF VInv, NotedInv, Strange
<1>7. DisksInv'
  BY <1>1 DEF VInv, DisksInv
<1> QED
  BY <1>1, <1>4, <1>5, <1>6, <1>7, MoreKeeps DEF VInv

\* A pool starts when every machine can be reached.
LEMMA PoolStartsInv == ASSUME VInv, PoolStarts PROVE VInv'
<1>1. /\ pc = "setup" /\ todo # <<>> /\ todo[1][1] = "pool" /\ pool' = Vm
      /\ UNCHANGED <<initial, keep, todo, pc, present, noted, queried, raised, failed, faults>>
  BY DEF PoolStarts, Running, Op
<1>2. Vm \subseteq Reached
  <2>1. Prepared(Done, initial, todo[1])
    BY <1>1, Now
  <2> QED
    BY <1>1, <2>1 DEF Prepared, Done, Note, Reached
<1>3. VTypeOK'
  BY <1>1 DEF VInv, VTypeOK
<1>4. SetupInv'
  BY <1>1, <1>2 DEF VInv, SetupInv, Done, Reached
<1>5. NotedInv' /\ DisksInv'
  BY <1>1 DEF VInv, NotedInv, Strange, DisksInv
<1> QED
  BY <1>1, <1>3, <1>4, <1>5, MoreKeeps DEF VInv

\* A thread makes its artefact, or not.
LEMMA ThreadEndsInv == ASSUME VInv, NEW v \in Vm, ThreadEnds(v) PROVE VInv'
<1> DEFINE x == todo[1]
           a == <<x[2], v>>
<1>1. /\ v \in pool /\ pool' = pool \ {v}
      /\ present' \in {present, present \union {a}} /\ raised' \in {raised, TRUE}
      /\ todo' = IF pool = {v} THEN Tail(todo) ELSE todo
      /\ UNCHANGED <<initial, keep, pc, noted, queried, failed, faults>>
  BY DEF ThreadEnds
<1>2. /\ todo # <<>> /\ x[1] = "pool" /\ Vm \subseteq Reached /\ todo \in Seq(StepOf(initial))
  BY <1>1 DEF VInv, SetupInv
<1>3. x \in StepOf(initial) /\ Tail(todo) \in Seq(StepOf(initial))
  BY <1>2, ElementOfSeq, HeadTailProperties, EmptySeq
<1>4. x[2] \in {"root", "guest_image"}
  BY <1>2, <1>3, StepIs
<1>5. a \in Artefact /\ a[1] \in {"root", "guest_image"} /\ a[2] = v
  BY <1>4 DEF Artefact, VmKind, GuestKind
<1> HIDE DEF x, a
<1>6. /\ x \in Done' /\ Done \subseteq Done'
      /\ present \subseteq present' /\ present' \subseteq present \union {a}
  BY <1>1, <1>2, <1>3, MoreKeeps DEF Done
<1>7. VTypeOK'
  BY <1>1, <1>5 DEF VInv, VTypeOK
<1>8. SetupInv'
  <2>1. pc = "setup" => Tail(todo) \in Setups(Done', initial) /\ todo \in Setups(Done', initial)
    <3>1. pc = "setup" => todo \in Setups(Done, initial)
      BY DEF VInv, SetupInv
    <3>2. pc = "setup" => todo \in Setups(Done', initial)
      BY <1>6, <3>1, OrderedByMore DEF Setups
    <3> QED
      BY <1>2, <1>6, <3>1, <3>2, RestIsSetup DEF x
  <2>2. pc = "setup" => Existing(initial)' \subseteq present'
    BY <1>1, <1>6, MoreKeeps DEF VInv, SetupInv
  <2>3. pool' # {} => todo' = todo
    BY <1>1
  <2> QED
    BY <1>1, <1>2, <1>3, <2>1, <2>2, <2>3 DEF VInv, SetupInv, Reached, x
<1>9. NotedInv'
  BY <1>1 DEF VInv, NotedInv, Strange
<1>10. DisksInv'
  <2>1. \A k \in {"running", "domain"} : \A w : <<k, w>> # a
    BY <1>5
  <2> QED
    BY <1>1, <1>6, <2>1 DEF VInv, DisksInv
<1>11. ASSUME NEW b, b = a PROVE Backed(b)'
  <2>1. Backed(b)
    BY <1>2, <1>5, <1>11 DEF Backed, MadeKind
  <2> QED
    BY <1>1, <2>1, BackedStays
<1>12. \A b \in present : Backed(b)'
  BY <1>1, <1>6, MoreKeeps
<1> QED
  BY <1>6, <1>7, <1>8, <1>9, <1>10, <1>11, <1>12 DEF VInv

\* A step that fails has made its artefact, or not.
LEMMA RaiseInv == ASSUME VInv, Raise PROVE VInv'
<1>1. /\ pc = "setup" /\ todo # <<>> /\ raised' = TRUE
      /\ \/ present' = present
         \/ Op = "make" /\ present' = present \union {Item}
      /\ UNCHANGED <<initial, keep, todo, pool, pc, noted, queried, failed, faults>>
  BY DEF Raise, Running
<1>2. \A a \in present' \ present :
        /\ a \in Artefact /\ Backed(a)
        /\ a[1] \in {"running", "domain"} => <<"volume", a[2]>> \in present
  BY <1>1, MadeIsBacked
<1>3. present \subseteq present' /\ Done \subseteq Done' /\ \A a \in present : Backed(a)'
  BY <1>1, MoreKeeps
<1>4. VTypeOK'
  BY <1>1, <1>2 DEF VInv, VTypeOK
<1>5. SetupInv'
  <2>1. todo \in Setups(Done', initial)
    BY <1>1, <1>3, OrderedByMore DEF VInv, SetupInv, Setups
  <2> QED
    BY <1>1, <2>1, MoreKeeps DEF VInv, SetupInv, Reached
<1>6. NotedInv'
  BY <1>1 DEF VInv, NotedInv, Strange
<1>7. DisksInv'
  BY <1>1, <1>2 DEF VInv, DisksInv
<1>8. \A a \in present' \ present : Backed(a)'
  BY <1>1, <1>2, BackedStays
<1> QED
  BY <1>3, <1>4, <1>5, <1>6, <1>7, <1>8 DEF VInv

\* A signal, and the end of the try, change neither the world nor what is noted.
LEMMA LeaveInv ==
  ASSUME VInv, SignalInPool \/ LeaveTry \/ UNCHANGED vvars PROVE VInv'
<1>1. /\ pc' \in {pc, "finally"} /\ raised' \in {raised, TRUE}
      /\ UNCHANGED <<initial, keep, todo, pool, present, noted, queried, failed, faults>>
  BY DEF SignalInPool, LeaveTry, vvars
<1>2. VTypeOK'
  BY <1>1 DEF VInv, VTypeOK
<1>3. SetupInv'
  BY <1>1 DEF VInv, SetupInv, Done, Reached
<1>4. NotedInv' /\ DisksInv'
  BY <1>1 DEF VInv, NotedInv, Strange, DisksInv
<1> QED
  BY <1>1, <1>2, <1>3, <1>4, MoreKeeps DEF VInv

-----------------------------------------------------------------------------
(* Steps of the cleanup *)

\* A foreign disk or machine stays as it is.
Spared ==
  \A v \in Vm : Strange(v) =>
    \A k \in {"volume", "domain", "running"} : <<k, v>> \in present => <<k, v>> \in present'

\* What may be removed without harm: nothing foreign, no disk that is kept, and none
\* of a machine that runs.
Harmless(targets) ==
  \A v \in Vm :
    /\ <<"volume", v>> \in targets => <<"running", v>> \notin present /\ ~keep
    /\ Strange(v) => \A k \in {"volume", "domain", "running"} : <<k, v>> \notin targets

Place == DOMAIN Rank

\* What a step of the cleanup has to keep.
Kept == VInv' /\ Spared /\ (CleanInv => CleanInv')

\* The step did all it was to do, and reports so.
Whole(targets, verdicts) == present' = present \ targets /\ TRUE \in verdicts /\ ~failed

\* The places, one by one.
LEMMA PlaceIs ==
  /\ Place = {"stop_remote", "stop_host", "stop_tunnels", "copy_logs", "query", "containers",
              "key", "known", "runtime", "db", "images", "selinux", "verify",
              "guest_keys", "stop_vms", "retain", "state", "report", "done"}
  /\ Place = CleanupPc \union {"state", "report", "done"}
  /\ \A p \in Place : Rank[p] \in 1..19
BY DEF Place, Rank, CleanupPc

\* A function of the cleanup removes some of its targets and nothing else.
LEMMA StepMeans ==
  ASSUME VInv, NEW here, NEW next, NEW T, NEW V \in SUBSET BOOLEAN, Step(here, next, T, V)
  PROVE  /\ pc = here /\ pc' = next /\ present' \subseteq present /\ present \ T \subseteq present'
         /\ failed' \in BOOLEAN /\ faults' \in 0..MaxFaults
         /\ ~failed' => Whole(T, V)
         /\ UNCHANGED <<initial, keep, todo, pool, noted, raised>>
<1>1. failed \in BOOLEAN /\ faults \in 0..MaxFaults /\ MaxFaults \in Nat
  BY VmRunAssumption DEF VInv, VTypeOK, VmRunAssumption
<1>2. CASE /\ present' = present \ T
           /\ \E ok \in V : failed' = (failed \/ ~ok)
           /\ UNCHANGED faults
  <2>1. PICK ok \in V : failed' = (failed \/ ~ok)
    BY <1>2
  <2>2. ok \in BOOLEAN
    BY <2>1
  <2>3. failed' \in BOOLEAN /\ (~failed' => ~failed /\ ok = TRUE)
    BY <1>1, <2>1, <2>2, Zenon
  <2>4. ~failed' => Whole(T, V)
    BY <1>2, <2>1, <2>3 DEF Whole
  <2> QED
    BY <1>1, <1>2, <2>3, <2>4 DEF Step
<1>3. CASE /\ faults < MaxFaults /\ faults' = faults + 1
           /\ \E done \in SUBSET T : present' = present \ done
           /\ failed' = TRUE
  BY <1>1, <1>3 DEF Step
<1> QED
  BY <1>2, <1>3 DEF Step

\* A step that does no harm keeps the invariant, wherever it stands.
LEMMA StepIsSafe ==
  ASSUME VInv, NEW here, NEW next \in Place, NEW T, NEW V \in SUBSET BOOLEAN,
         Step(here, next, T, V), queried' \in BOOLEAN, Harmless(T)
  PROVE  VInv' /\ Spared
<1>1. /\ pc = here /\ pc' = next /\ present' \subseteq present
      /\ failed' \in BOOLEAN /\ faults' \in 0..MaxFaults
      /\ present \ T \subseteq present'
      /\ UNCHANGED <<initial, keep, todo, pool, noted, raised>>
  BY StepMeans
<1>2. pc' # "setup" /\ pc' \in {"state", "report", "done"} \union CleanupPc
  BY <1>1, PlaceIs
<1>3. VTypeOK'
  BY <1>1, <1>2 DEF VInv, VTypeOK
<1>4. SetupInv'
  BY <1>1, <1>2 DEF VInv, SetupInv, Reached
<1>5. NotedInv'
  BY <1>1 DEF VInv, NotedInv, Strange
<1>6. DisksInv'
  BY <1>1 DEF VInv, DisksInv, Harmless
<1>7. \A a \in present' : Backed(a)'
  BY <1>1, BackedStays DEF VInv
<1>8. Spared
  BY <1>1 DEF Spared, Harmless
<1> QED
  BY <1>3, <1>4, <1>5, <1>6, <1>7, <1>8 DEF VInv

\* What a function has to do for the whole to hold: no harm, and its own duty; the
\* duties before it are not undone, since nothing is made and nothing more noted.
LEMMA StepKeeps ==
  ASSUME VInv, NEW here \in Place, NEW next \in Place, Rank[next] = Rank[here] + 1,
         NEW T, NEW V \in SUBSET BOOLEAN,
         Step(here, next, T, V), queried' \in BOOLEAN, Harmless(T),
         here = "retain" \/ \A v \in Vm : <<"domain", v>> \notin T,
         CleanInv /\ Whole(T, V) => Duty(here)'
  PROVE  Kept
<1>1. /\ pc = here /\ pc' = next /\ present' \subseteq present /\ present \ T \subseteq present'
      /\ ~failed' => Whole(T, V)
      /\ UNCHANGED <<initial, keep, todo, pool, noted, raised>>
  BY StepMeans
<1>2. VInv' /\ Spared
  BY StepIsSafe
<1>3. pc' # "skipped"
  BY <1>1, PlaceIs
<1>4. ASSUME CleanInv, ~failed', NEW p \in Place, Past(p)' PROVE Duty(p)'
  <2>1. CASE p = here
    BY <1>1, <1>4, <2>1
  <2>2. CASE p # here
    <3>1. Rank[p] < Rank[next] /\ Rank[p] \in 1..19 /\ Rank[here] \in 1..19
      BY <1>1, <1>4, PlaceIs DEF Past, Place
    <3>2. Rank[p] # Rank[here]
      BY <2>2 DEF Place, Rank
    <3>3. Past(p)
      BY <1>1, <3>1, <3>2 DEF Past, Place
    <3>4. Duty(p)
      BY <1>1, <1>4, <3>3 DEF CleanInv, Place, Whole
    <3>5. p = "retain" /\ keep => \A v \in Vm : <<"domain", v>> \in present'
      BY <1>1, <2>2, <3>4 DEF Duty
    <3> QED
      BY <1>1, <3>4, <3>5 DEF Duty, Gone, Unnoted, Managed, Untouched
  <2> QED
    BY <2>1, <2>2
<1>5. CleanInv => CleanInv'
  BY <1>3, <1>4 DEF CleanInv, Place
<1> QED
  BY <1>2, <1>5 DEF Kept

Disk == {"volume", "domain", "running"}

\* Most functions remove nothing of a machine's disk.
LEMMA OtherKeeps ==
  ASSUME VInv, NEW here \in Place, NEW next \in Place, Rank[next] = Rank[here] + 1,
         NEW T, NEW V \in SUBSET BOOLEAN,
         Step(here, next, T, V), queried' \in BOOLEAN, \A a \in T : a[1] \notin Disk,
         CleanInv /\ Whole(T, V) => Duty(here)'
  PROVE  Kept
<1>1. \A k \in Disk : \A v : <<k, v>> \notin T
  OBVIOUS
<1>2. Harmless(T)
  BY <1>1 DEF Harmless, Disk
<1>3. \A v \in Vm : <<"domain", v>> \notin T
  BY <1>1 DEF Disk
<1> QED
  BY <1>2, <1>3, StepKeeps

\* Function by function, what is removed and that it is what the duty names: the
\* processes that are there are all noted,
LEMMA StopRemoteProcessesKeeps == ASSUME VInv, StopRemoteProcesses PROVE Kept
<1> DEFINE T == Kinds({"fake", "worker"}) \intersect noted
           V == {TRUE}
<1>1. Step("stop_remote", "stop_host", T, V) /\ queried' \in BOOLEAN
  BY DEF StopRemoteProcesses, VInv, VTypeOK
<1>2. V \in SUBSET BOOLEAN
  OBVIOUS
<1>3. \A a \in T : a[1] \notin Disk
  BY DEF Kinds, Disk
<1>4. Whole(T, V) => Duty("stop_remote")'
  <2> SUFFICES ASSUME Whole(T, V) PROVE Duty("stop_remote")'
    OBVIOUS
  <2>1. noted' = noted /\ \A a \in present : Backed(a)
    BY DEF StopRemoteProcesses, Step, VInv
  <2> QED
    BY <2>1 DEF Whole, Duty, Gone, Kinds, Backed
<1>5. /\ "stop_remote" \in Place /\ "stop_host" \in Place
      /\ Rank["stop_host"] = Rank["stop_remote"] + 1
  BY DEF Place, Rank
<1> HIDE DEF T, V
<1> QED
  BY <1>1, <1>2, <1>3, <1>4, <1>5, OtherKeeps

\* a core that is noted and not identified is reported,
LEMMA StopHostProcessesKeeps == ASSUME VInv, StopHostProcesses PROVE Kept
<1> DEFINE T == (Kinds({"core"}) \intersect noted) \ Unproved("core", "core_id")
           V == ProcessVerdicts("core", "core_id")
<1>1. Step("stop_host", "stop_tunnels", T, V) /\ queried' \in BOOLEAN
  BY DEF StopHostProcesses, VInv, VTypeOK
<1>2. V \in SUBSET BOOLEAN
  BY DEF ProcessVerdicts
<1>3. \A a \in T : a[1] \notin Disk
  BY DEF Kinds, Disk
<1>4. Whole(T, V) => Duty("stop_host")'
  <2> SUFFICES ASSUME Whole(T, V) PROVE Duty("stop_host")'
    OBVIOUS
  <2>1. noted' = noted /\ \A a \in present : Backed(a)
    BY DEF StopHostProcesses, Step, VInv
  <2> QED
    BY <2>1 DEF Whole, Duty, Kinds, Unnoted, ProcessVerdicts, Unproved
<1>5. /\ "stop_host" \in Place /\ "stop_tunnels" \in Place
      /\ Rank["stop_tunnels"] = Rank["stop_host"] + 1
  BY DEF Place, Rank
<1> HIDE DEF T, V
<1> QED
  BY <1>1, <1>2, <1>3, <1>4, <1>5, OtherKeeps

\* and so is a tunnel,
LEMMA StopTunnelsKeeps == ASSUME VInv, StopTunnels PROVE Kept
<1> DEFINE T == (Kinds({"tunnel"}) \intersect noted) \ Unproved("tunnel", "tunnel_id")
           V == ProcessVerdicts("tunnel", "tunnel_id")
<1>1. Step("stop_tunnels", "copy_logs", T, V) /\ queried' \in BOOLEAN
  BY DEF StopTunnels, VInv, VTypeOK
<1>2. V \in SUBSET BOOLEAN
  BY DEF ProcessVerdicts
<1>3. \A a \in T : a[1] \notin Disk
  BY DEF Kinds, Disk
<1>4. Whole(T, V) => Duty("stop_tunnels")'
  <2> SUFFICES ASSUME Whole(T, V) PROVE Duty("stop_tunnels")'
    OBVIOUS
  <2>1. noted' = noted /\ \A a \in present : Backed(a)
    BY DEF StopTunnels, Step, VInv
  <2> QED
    BY <2>1 DEF Whole, Duty, Kinds, Unnoted, ProcessVerdicts, Unproved
<1>5. /\ "stop_tunnels" \in Place /\ "copy_logs" \in Place
      /\ Rank["copy_logs"] = Rank["stop_tunnels"] + 1
  BY DEF Place, Rank
<1> HIDE DEF T, V
<1> QED
  BY <1>1, <1>2, <1>3, <1>4, <1>5, OtherKeeps

\* containers are on machines that can be asked, if the database told which,
LEMMA RemoveContainersKeeps == ASSUME VInv, RemoveContainers PROVE Kept
<1> DEFINE T == IF queried THEN Labelled ELSE {}
           V == {queried \/ Reached = {}}
<1>1. Step("containers", "key", T, V) /\ queried' \in BOOLEAN
  BY DEF RemoveContainers, VInv, VTypeOK
<1>2. V \in SUBSET BOOLEAN
  OBVIOUS
<1>3. \A a \in T : a[1] \notin Disk
  BY DEF Kinds, Disk, Labelled
<1>4. Whole(T, V) => Duty("containers")'
  <2> SUFFICES ASSUME Whole(T, V) PROVE Duty("containers")'
    OBVIOUS
  <2>1. noted' = noted /\ \A a \in present : Backed(a)
    BY DEF RemoveContainers, Step, VInv
  <2> QED
    BY <2>1 DEF Whole, Duty, Gone, Kinds, Backed, Labelled
<1>5. /\ "containers" \in Place /\ "key" \in Place
      /\ Rank["key"] = Rank["containers"] + 1
  BY DEF Place, Rank
<1> HIDE DEF T, V
<1> QED
  BY <1>1, <1>2, <1>3, <1>4, <1>5, OtherKeeps

\* the line that is noted is removed,
LEMMA RemoveAuthorizedKeyKeeps == ASSUME VInv, RemoveAuthorizedKey PROVE Kept
<1> DEFINE T == Kinds({"authkey"}) \intersect noted
           V == {TRUE}
<1>1. Step("key", "known", T, V) /\ queried' \in BOOLEAN
  BY DEF RemoveAuthorizedKey, VInv, VTypeOK
<1>2. V \in SUBSET BOOLEAN
  OBVIOUS
<1>3. \A a \in T : a[1] \notin Disk
  BY DEF Kinds, Disk
<1>4. Whole(T, V) => Duty("key")'
  <2> SUFFICES ASSUME Whole(T, V) PROVE Duty("key")'
    OBVIOUS
  <2>1. noted' = noted /\ \A a \in present : Backed(a)
    BY DEF RemoveAuthorizedKey, Step, VInv
  <2> QED
    BY <2>1 DEF Whole, Duty, Kinds, Unnoted
<1>5. /\ "key" \in Place /\ "known" \in Place
      /\ Rank["known"] = Rank["key"] + 1
  BY DEF Place, Rank
<1> HIDE DEF T, V
<1> QED
  BY <1>1, <1>2, <1>3, <1>4, <1>5, OtherKeeps

\* the guests' files that are changed are all noted,
LEMMA RestoreKnownHostsKeeps == ASSUME VInv, RestoreKnownHosts PROVE Kept
<1> DEFINE T == Kinds({"known"}) \intersect noted
           V == {TRUE}
<1>1. Step("known", "runtime", T, V) /\ queried' \in BOOLEAN
  BY DEF RestoreKnownHosts, VInv, VTypeOK
<1>2. V \in SUBSET BOOLEAN
  OBVIOUS
<1>3. \A a \in T : a[1] \notin Disk
  BY DEF Kinds, Disk
<1>4. Whole(T, V) => Duty("known")'
  <2> SUFFICES ASSUME Whole(T, V) PROVE Duty("known")'
    OBVIOUS
  <2>1. noted' = noted /\ \A a \in present : Backed(a)
    BY DEF RestoreKnownHosts, Step, VInv
  <2> QED
    BY <2>1 DEF Whole, Duty, Gone, Kinds, Backed
<1>5. /\ "known" \in Place /\ "runtime" \in Place
      /\ Rank["runtime"] = Rank["known"] + 1
  BY DEF Place, Rank
<1> HIDE DEF T, V
<1> QED
  BY <1>1, <1>2, <1>3, <1>4, <1>5, OtherKeeps

\* the directories are on machines that can be reached,
LEMMA RemoveRuntimeKeeps == ASSUME VInv, RemoveRuntime PROVE Kept
<1> DEFINE T == Kinds({"runtime"}) \union {a \in Kinds({"root"}) : a[2] \in Reached}
           V == {TRUE}
<1>1. Step("runtime", "db", T, V) /\ queried' \in BOOLEAN
  BY DEF RemoveRuntime, VInv, VTypeOK
<1>2. V \in SUBSET BOOLEAN
  OBVIOUS
<1>3. \A a \in T : a[1] \notin Disk
  BY DEF Kinds, Disk
<1>4. Whole(T, V) => Duty("runtime")'
  <2> SUFFICES ASSUME Whole(T, V) PROVE Duty("runtime")'
    OBVIOUS
  <2>1. noted' = noted /\ \A a \in present : Backed(a)
    BY DEF RemoveRuntime, Step, VInv
  <2> QED
    BY <2>1 DEF Whole, Duty, Gone, Kinds, Backed
<1>5. /\ "runtime" \in Place /\ "db" \in Place
      /\ Rank["db"] = Rank["runtime"] + 1
  BY DEF Place, Rank
<1> HIDE DEF T, V
<1> QED
  BY <1>1, <1>2, <1>3, <1>4, <1>5, OtherKeeps

\* the database is noted,
LEMMA RemoveDbKeeps == ASSUME VInv, RemoveDb PROVE Kept
<1> DEFINE T == Kinds({"db"}) \intersect noted
           V == {TRUE}
<1>1. Step("db", "images", T, V) /\ queried' \in BOOLEAN
  BY DEF RemoveDb, VInv, VTypeOK
<1>2. V \in SUBSET BOOLEAN
  OBVIOUS
<1>3. \A a \in T : a[1] \notin Disk
  BY DEF Kinds, Disk
<1>4. Whole(T, V) => Duty("db")'
  <2> SUFFICES ASSUME Whole(T, V) PROVE Duty("db")'
    OBVIOUS
  <2>1. noted' = noted /\ \A a \in present : Backed(a)
    BY DEF RemoveDb, Step, VInv
  <2> QED
    BY <2>1 DEF Whole, Duty, Gone, Kinds, Backed
<1>5. /\ "db" \in Place /\ "images" \in Place
      /\ Rank["images"] = Rank["db"] + 1
  BY DEF Place, Rank
<1> HIDE DEF T, V
<1> QED
  BY <1>1, <1>2, <1>3, <1>4, <1>5, OtherKeeps

\* the images are on machines that can be reached,
LEMMA RemoveImagesKeeps == ASSUME VInv, RemoveImages PROVE Kept
<1> DEFINE T == Kinds({"image"}) \union {a \in Kinds({"guest_image"}) : a[2] \in Reached}
           V == {TRUE}
<1>1. Step("images", "selinux", T, V) /\ queried' \in BOOLEAN
  BY DEF RemoveImages, VInv, VTypeOK
<1>2. V \in SUBSET BOOLEAN
  OBVIOUS
<1>3. \A a \in T : a[1] \notin Disk
  BY DEF Kinds, Disk
<1>4. Whole(T, V) => Duty("images")'
  <2> SUFFICES ASSUME Whole(T, V) PROVE Duty("images")'
    OBVIOUS
  <2>1. noted' = noted /\ \A a \in present : Backed(a)
    BY DEF RemoveImages, Step, VInv
  <2> QED
    BY <2>1 DEF Whole, Duty, Gone, Kinds, Backed
<1>5. /\ "images" \in Place /\ "selinux" \in Place
      /\ Rank["selinux"] = Rank["images"] + 1
  BY DEF Place, Rank
<1> HIDE DEF T, V
<1> QED
  BY <1>1, <1>2, <1>3, <1>4, <1>5, OtherKeeps

\* a machine is permissive only if what it was before is noted,
LEMMA RestoreSelinuxKeeps == ASSUME VInv, RestoreSelinux PROVE Kept
<1> DEFINE T == Kinds({"selinux"}) \intersect noted
           V == {\A a \in Kinds({"selinux"}) \ (Kinds({"selinux"}) \intersect noted) :
             <<"enforcing", a[2]>> \notin noted}
<1>1. Step("selinux", "verify", T, V) /\ queried' \in BOOLEAN
  BY DEF RestoreSelinux, VInv, VTypeOK
<1>2. V \in SUBSET BOOLEAN
  OBVIOUS
<1>3. \A a \in T : a[1] \notin Disk
  BY DEF Kinds, Disk
<1>4. Whole(T, V) => Duty("selinux")'
  <2> SUFFICES ASSUME Whole(T, V) PROVE Duty("selinux")'
    OBVIOUS
  <2>1. noted' = noted /\ \A a \in present : Backed(a)
    BY DEF RestoreSelinux, Step, VInv
  <2> QED
    BY <2>1 DEF Whole, Duty, Gone, Kinds, Backed
<1>5. /\ "selinux" \in Place /\ "verify" \in Place
      /\ Rank["verify"] = Rank["selinux"] + 1
  BY DEF Place, Rank
<1> HIDE DEF T, V
<1> QED
  BY <1>1, <1>2, <1>3, <1>4, <1>5, OtherKeeps

\* and the state is the host's own, also when the rest of the cleanup was skipped.
LEMMA RemoveStateKeeps == ASSUME VInv, RemoveState PROVE Kept
<1> DEFINE T == Kinds({"state"})
           V == {TRUE}
<1>1. queried' \in BOOLEAN /\ (Step("state", "report", T, V) \/ Step("skipped", "report", T, V))
  BY DEF RemoveState, VInv, VTypeOK
<1>2. V \in SUBSET BOOLEAN
  OBVIOUS
<1>3. \A a \in T : a[1] \notin Disk
  BY DEF Kinds, Disk
<1>4. Whole(T, V) => Duty("state")'
  <2> SUFFICES ASSUME Whole(T, V) PROVE Duty("state")'
    OBVIOUS
  <2>1. noted' = noted /\ \A a \in present : Backed(a)
    BY DEF RemoveState, Step, VInv
  <2> QED
    BY <2>1 DEF Whole, Duty, Gone, Kinds
<1>5. /\ "state" \in Place /\ "report" \in Place
      /\ Rank["report"] = Rank["state"] + 1
  BY DEF Place, Rank
<1>6. CASE Step("skipped", "report", T, V)
  <2> HIDE DEF T, V
  <2>1. Harmless(T)
    <3>1. \A k \in Disk : \A v : <<k, v>> \notin T
      BY <1>3
    <3> QED
      BY <3>1 DEF Harmless, Disk
  <2>2. VInv' /\ Spared
    BY <1>1, <1>2, <1>5, <1>6, <2>1, StepIsSafe
  <2>3. pc = "skipped" /\ pc' = "report" /\ (~failed' => ~failed)
    BY <1>2, <1>6, StepMeans DEF Whole
  <2>4. CleanInv => CleanInv'
    BY <2>3 DEF CleanInv
  <2> QED
    BY <2>2, <2>4 DEF Kept
<1> HIDE DEF T, V
<1> QED
  BY <1>1, <1>2, <1>3, <1>4, <1>5, <1>6, OtherKeeps

\* Functions that only look.
LEMMA LookingKeeps ==
  ASSUME VInv, CopyLogs \/ QueryAttempts \/ VerifyNoContainers \/ RestoreGuestKeys
  PROVE  Kept
<1>1. ASSUME NEW here \in Place, NEW next \in Place, Rank[next] = Rank[here] + 1,
             here \in {"copy_logs", "query", "verify", "guest_keys"},
             NEW V \in SUBSET BOOLEAN, Step(here, next, {}, V), queried' \in BOOLEAN
      PROVE  Kept
  <2>1. Duty(here)'
    BY <1>1 DEF Duty
  <2> DEFINE T == {}
  <2>2. Step(here, next, T, V) /\ \A a \in T : a[1] \notin Disk
    BY <1>1
  <2> HIDE DEF T
  <2> QED
    BY <1>1, <2>1, <2>2, OtherKeeps
<1>2. queried \in BOOLEAN
  BY DEF VInv, VTypeOK
<1>3. /\ {"copy_logs", "query", "containers", "verify", "guest_keys", "stop_vms"} \subseteq Place
      /\ Rank["query"] = Rank["copy_logs"] + 1 /\ Rank["containers"] = Rank["query"] + 1
      /\ Rank["guest_keys"] = Rank["verify"] + 1 /\ Rank["stop_vms"] = Rank["guest_keys"] + 1
  BY DEF Place, Rank
<1>4. CASE CopyLogs
  <2>1. \E V \in SUBSET BOOLEAN : Step("copy_logs", "query", {}, V) /\ queried' = queried
    BY <1>4 DEF CopyLogs
  <2> QED
    BY <1>1, <1>2, <1>3, <2>1
<1>5. CASE QueryAttempts
  <2>1. (\E V \in SUBSET BOOLEAN : Step("query", "containers", {}, V)) /\ queried' \in BOOLEAN
    BY <1>5 DEF QueryAttempts
  <2> QED
    BY <1>1, <1>3, <2>1
<1>6. CASE VerifyNoContainers
  <2>1. \E V \in SUBSET BOOLEAN : Step("verify", "guest_keys", {}, V) /\ queried' = queried
    BY <1>6 DEF VerifyNoContainers
  <2> QED
    BY <1>1, <1>2, <1>3, <2>1
<1>7. CASE RestoreGuestKeys
  <2>1. Step("guest_keys", "stop_vms", {}, {TRUE}) /\ queried' = queried
    BY <1>7 DEF RestoreGuestKeys
  <2>2. {TRUE} \in SUBSET BOOLEAN
    OBVIOUS
  <2> QED
    BY <1>1, <1>2, <1>3, <2>1, <2>2
<1> QED
  BY <1>4, <1>5, <1>6, <1>7

\* Kept machines are looked for, and a kept volume goes with its machine.
LEMMA VerifyPersistedVmsKeeps == ASSUME VInv, VerifyPersistedVms PROVE Kept
<1> DEFINE T == {}
           V == {\A v \in Vm : <<"domain", v>> \in present /\ IsOff(v)}
<1>1. Step("retain", "state", T, V) /\ queried' \in BOOLEAN /\ keep
  BY DEF VerifyPersistedVms, VInv, VTypeOK
<1>2. V \in SUBSET BOOLEAN
  OBVIOUS
<1>3. \A a \in T : a[1] \notin Disk
  OBVIOUS
<1>4. Whole(T, V) => Duty("retain")'
  <2> SUFFICES ASSUME Whole(T, V) PROVE Duty("retain")'
    OBVIOUS
  <2>1. keep' = keep
    BY <1>1 DEF Step
  <2> QED
    BY <1>1, <2>1 DEF Whole, Duty
<1>5. "retain" \in Place /\ "state" \in Place /\ Rank["state"] = Rank["retain"] + 1
  BY DEF Place, Rank
<1> HIDE DEF T, V
<1> QED
  BY <1>1, <1>2, <1>3, <1>4, <1>5, OtherKeeps

\* A machine the run manages was not there before, or is the harness's own.
LEMMA ManagedIsOwn == ASSUME VInv, NEW v \in Managed PROVE v \in Vm /\ ~Strange(v)
BY DEF VInv, NotedInv, Managed, Strange

\* A machine is stopped with its processes, its volume stays.
LEMMA StopOwnedVmsKeeps == ASSUME VInv, StopOwnedVms PROVE Kept
<1> DEFINE T == {a \in Kinds({"running", "fake", "worker", "tunnel", "selinux"}) :
                   a[2] \in Managed /\ (a[1] = "tunnel" => a \in noted)}
           V == {TRUE}
<1>1. Step("stop_vms", "retain", T, V) /\ queried' \in BOOLEAN
  BY DEF StopOwnedVms, VInv, VTypeOK
<1>2. V \in SUBSET BOOLEAN
  OBVIOUS
<1>3. \A k, v : <<k, v>> \in T => k \notin {"volume", "domain"} /\ v \in Managed
  BY DEF Kinds
<1>4. Whole(T, V) => Duty("stop_vms")'
  <2> SUFFICES ASSUME Whole(T, V) PROVE Duty("stop_vms")'
    OBVIOUS
  <2>1. noted' = noted
    BY <1>1 DEF Step
  <2> QED
    BY <2>1 DEF Whole, Duty, Kinds, Managed
<1>5. "stop_vms" \in Place /\ "retain" \in Place /\ Rank["retain"] = Rank["stop_vms"] + 1
  BY DEF Place, Rank
<1> HIDE DEF T, V
<1>6. Harmless(T)
  BY <1>3, ManagedIsOwn DEF Harmless
<1> QED
  BY <1>1, <1>2, <1>3, <1>4, <1>5, <1>6, StepKeeps

\* A disk that the removal does not take is one the run never touched.
LEMMA RemoveOwnedVmsKeeps == ASSUME VInv, RemoveOwnedVms PROVE Kept
<1>1. PICK vs \in IF Managed \subseteq Removable THEN {Removable} ELSE SUBSET Removable :
        Step("retain", "state", UNION {OnDisk(v) : v \in vs}, {Managed \subseteq Removable})
  BY DEF RemoveOwnedVms
<1> DEFINE T == UNION {OnDisk(v) : v \in vs}
           V == {Managed \subseteq Removable}
<1>2. Step("retain", "state", T, V) /\ queried' \in BOOLEAN /\ ~keep /\ vs \subseteq Removable
  BY <1>1 DEF RemoveOwnedVms, VInv, VTypeOK
<1>3. V \in SUBSET BOOLEAN
  OBVIOUS
<1>4. \A k, v : <<k, v>> \in T => v \in Removable /\ k # "running"
  BY <1>2 DEF OnDisk, Kinds, GuestKind, ProcessKind
<1>5. \A v \in Removable : v \in Vm /\ <<"running", v>> \notin present /\ ~Strange(v)
  BY ManagedIsOwn DEF Removable, IsOff, VInv, NotedInv, Strange
<1>6. Harmless(T)
  <2> HIDE DEF T
  <2> QED
    BY <1>2, <1>4, <1>5 DEF Harmless
<1>7. ASSUME CleanInv, Whole(T, V) PROVE Duty("retain")'
  <2>1. pc = "retain" /\ keep' = keep /\ noted' = noted /\ initial' = initial
    BY <1>2 DEF Step
  <2>2. Managed \subseteq Removable /\ vs = Removable /\ present' = present \ T /\ ~failed
    BY <1>1, <1>7 DEF Whole
  <2>3. ASSUME NEW a \in present', a[1] \in {"volume", "domain"} PROVE Untouched(a[2])'
    <3>1. a \in present /\ a = <<a[1], a[2]>> /\ a[2] \in Vm /\ Backed(a)
      <4>1. a[1] \in VmKind
        BY <2>3 DEF VmKind
      <4> QED
        BY <2>2, <4>1, ArtefactIs DEF VInv, VTypeOK
    <3>2. a[2] \notin Removable
      <4>1. a \in Kinds(GuestKind \union {"volume", "domain"})
        BY <2>3, <3>1 DEF Kinds
      <4>2. a \in OnDisk(a[2])
        BY <4>1 DEF OnDisk
      <4> QED
        BY <2>2, <4>2
    <3>3. a[2] \notin Managed
      BY <2>2, <3>2
    <3>4. <<"owned", a[2]>> \notin noted /\ <<"domain", a[2]>> \notin noted
      BY <3>1, <3>3 DEF Managed
    <3>5. initial[a[2]] # "absent"
      <4>1. CASE <<"running", a[2]>> \in present
        <5>1. Backed(<<"running", a[2]>>)
          BY <4>1 DEF VInv
        <5> QED
          BY <3>4, <5>1 DEF Backed
      <4>2. CASE <<"running", a[2]>> \notin present
        <5>1. <<"volume", a[2]>> \notin noted
          BY <3>1, <3>2, <4>2 DEF Removable, IsOff
        <5>2. a \notin noted
          BY <2>3, <3>1, <3>4, <5>1
        <5>3. a \in Existing(initial)
          BY <2>3, <3>1, <5>2 DEF Backed
        <5> QED
          BY <3>1, <5>3 DEF Existing
      <4> QED
        BY <4>1, <4>2
    <3> QED
      BY <2>1, <3>4, <3>5 DEF Untouched
  <2> QED
    BY <1>2, <2>1, <2>3 DEF Duty
<1>8. "retain" \in Place /\ "state" \in Place /\ Rank["state"] = Rank["retain"] + 1
  BY DEF Place, Rank
<1> HIDE DEF T, V
<1> QED
  BY <1>2, <1>3, <1>6, <1>7, <1>8, StepKeeps

\* Before the first function nothing has been promised; and a cleanup that is left by
\* a signal is not complete.
LEMMA EntryKeeps == ASSUME VInv, EnterCleanup \/ CleanupSkipped PROVE Kept
<1>1. /\ pc = "finally"
      /\ \/ pc' = "stop_remote" /\ failed' = failed
         \/ pc' = "skipped" /\ failed' = TRUE
      /\ UNCHANGED <<initial, keep, todo, pool, present, noted, queried, raised, faults>>
  BY DEF EnterCleanup, CleanupSkipped
<1>2. VTypeOK'
  BY <1>1 DEF VInv, VTypeOK, CleanupPc
<1>3. SetupInv'
  BY <1>1 DEF VInv, SetupInv, Reached
<1>4. NotedInv' /\ DisksInv'
  BY <1>1 DEF VInv, NotedInv, Strange, DisksInv
<1>5. \A a \in present' : Backed(a)'
  BY <1>1, BackedStays DEF VInv
<1>6. ASSUME ~failed', NEW p \in Place PROVE ~Past(p)'
  <2>1. pc' = "stop_remote" /\ Rank["stop_remote"] = 1 /\ Rank[p] \in 1..19
    BY <1>1, <1>6, PlaceIs DEF Rank
  <2> QED
    BY <2>1 DEF Past
<1>7. CleanInv'
  BY <1>1, <1>6 DEF CleanInv, Place
<1> QED
  BY <1>1, <1>2, <1>3, <1>4, <1>5, <1>7 DEF VInv, Kept, Spared

\* Nothing is left to do when the verdict is given, or promised when a signal comes out.
LEMMA EndKeeps == ASSUME VInv, Report \/ Escape PROVE Kept
<1>1. /\ \/ pc = "report" /\ pc' = "done"
         \/ pc' = "escaped"
      /\ pc # "setup"
      /\ UNCHANGED <<initial, keep, todo, pool, present, noted, queried, raised, failed, faults>>
  BY DEF Report, Escape
<1>2. VTypeOK'
  BY <1>1 DEF VInv, VTypeOK
<1>3. SetupInv'
  BY <1>1 DEF VInv, SetupInv, Reached
<1>4. NotedInv' /\ DisksInv'
  BY <1>1 DEF VInv, NotedInv, Strange, DisksInv
<1>5. \A a \in present' : Backed(a)'
  BY <1>1, BackedStays DEF VInv
<1>6. ASSUME CleanInv, ~failed', NEW p \in Place, Past(p)' PROVE Duty(p)'
  <2>1. pc = "report" /\ pc' = "done"
    <3>1. "escaped" \notin Place
      BY PlaceIs
    <3> QED
      BY <1>1, <1>6, <3>1 DEF Past, Place
  <2>2. p = "report" \/ Past(p)
    BY <1>6, <2>1, PlaceIs DEF Past, Place, Rank
  <2>3. p # "report" => Duty(p)
    BY <1>1, <1>6, <2>2 DEF CleanInv, Place
  <2> QED
    BY <1>1, <2>3 DEF Duty, Gone, Unnoted, Managed, Untouched
<1>7. CleanInv => CleanInv'
  BY <1>1, <1>6 DEF CleanInv, Place
<1> QED
  BY <1>1, <1>2, <1>3, <1>4, <1>5, <1>7 DEF VInv, Kept, Spared

\* Every step of the cleanup keeps what it has to.
LEMMA CleanupKeeps == ASSUME VInv, Cleanup \/ Escape PROVE Kept
BY EntryKeeps, EndKeeps, StopRemoteProcessesKeeps, StopHostProcessesKeeps, StopTunnelsKeeps,
   RemoveContainersKeeps, RemoveAuthorizedKeyKeeps, RestoreKnownHostsKeeps, RemoveRuntimeKeeps,
   RemoveDbKeeps, RemoveImagesKeeps, RestoreSelinuxKeeps, RemoveStateKeeps, LookingKeeps,
   VerifyPersistedVmsKeeps, StopOwnedVmsKeeps, RemoveOwnedVmsKeeps
   DEF Cleanup

\* The cleanup only takes away.
LEMMA CleanupOnlyRemoves ==
  ASSUME Cleanup \/ Escape
  PROVE  /\ pc # "setup" /\ pc' # "setup" /\ present' \subseteq present
         /\ UNCHANGED <<todo, pool, noted, raised>>
<1>1. ASSUME NEW here, here # "setup", NEW next, next # "setup", NEW T, NEW V,
             Step(here, next, T, V)
      PROVE  /\ pc # "setup" /\ pc' # "setup" /\ present' \subseteq present
             /\ UNCHANGED <<todo, pool, noted, raised>>
  BY <1>1 DEF Step
<1>2. CASE EnterCleanup \/ CleanupSkipped \/ Report \/ Escape
  BY <1>2 DEF EnterCleanup, CleanupSkipped, Report, Escape
<1>3. CASE StopRemoteProcesses \/ StopHostProcesses \/ StopTunnels \/ CopyLogs \/ QueryAttempts
  BY <1>1, <1>3 DEF StopRemoteProcesses, StopHostProcesses, StopTunnels, CopyLogs, QueryAttempts
<1>4. CASE RemoveContainers \/ RemoveAuthorizedKey \/ RestoreKnownHosts \/ RemoveRuntime \/ RemoveDb
  BY <1>1, <1>4
     DEF RemoveContainers, RemoveAuthorizedKey, RestoreKnownHosts, RemoveRuntime, RemoveDb
<1>5. CASE RemoveImages \/ RestoreSelinux \/ VerifyNoContainers \/ RestoreGuestKeys \/ StopOwnedVms
  BY <1>1, <1>5 DEF RemoveImages, RestoreSelinux, VerifyNoContainers, RestoreGuestKeys, StopOwnedVms
<1>6. CASE RemoveOwnedVms \/ VerifyPersistedVms \/ RemoveState
  BY <1>1, <1>6 DEF RemoveOwnedVms, VerifyPersistedVms, RemoveState
<1> QED
  BY <1>2, <1>3, <1>4, <1>5, <1>6 DEF Cleanup

-----------------------------------------------------------------------------
(* The run *)

\* Preflight's machines are there, and nothing else.
LEMMA VInitInv == ASSUME VInit PROVE CInv
<1>1. /\ initial \in InitialState /\ keep \in BOOLEAN /\ todo = Setup(initial)
      /\ pool = {} /\ pc = "setup" /\ present = Existing(initial) /\ noted = {}
      /\ queried = FALSE /\ raised = FALSE /\ failed = FALSE /\ faults = 0
  BY DEF VInit
<1>2. \A a \in present : /\ a = <<a[1], a[2]>> /\ a[2] \in Vm
                         /\ a[1] \in {"volume", "domain", "running"}
                         /\ a[1] = "running" => initial[a[2]] = "on"
  BY <1>1 DEF Existing
<1>3. VTypeOK
  <2>1. present \subseteq Artefact
    BY <1>2 DEF Artefact, VmKind
  <2>2. 0 \in 0..MaxFaults
    BY VmRunAssumption DEF VmRunAssumption
  <2>3. {queried, raised, failed} \subseteq BOOLEAN
    BY <1>1
  <2> QED
    BY <1>1, <2>1, <2>2, <2>3 DEF VTypeOK
<1>4. SetupInv
  <2>1. todo \in Setups({}, initial)
    BY <1>1, SetupIsOrdered
  <2>2. todo \in Setups(Done, initial)
    BY <2>1, OrderedByMore DEF Setups
  <2> QED
    BY <1>1, <2>2 DEF SetupInv, Setups
<1>5. NotedInv
  BY <1>1 DEF NotedInv
<1>6. DisksInv
  BY <1>1 DEF DisksInv, Existing
<1>7. \A a \in present : Backed(a)
  BY <1>1, <1>2 DEF Backed, MadeKind
<1>8. CleanInv
  BY <1>1 DEF CleanInv, Past, Rank
<1>9. Registered
  BY <1>2 DEF Registered, MadeBeforeNoted
<1> QED
  BY <1>1, <1>3, <1>4, <1>5, <1>6, <1>7, <1>8, <1>9 DEF VInv, CInv

\* The setup takes away containers only.
LEMMA SetupSpares ==
  ASSUME VInv, \/ Advance \/ Raise \/ LeaveTry \/ UNCHANGED vvars
               \/ \E v \in Vm : ThreadEnds(v)
  PROVE  Spared
<1>1. CASE ContainersEnd
  <2>1. /\ Op = "end" /\ present' = present \ {Item} /\ Item[1] = todo[1][2]
        /\ pc = "setup" /\ todo # <<>>
    BY <1>1 DEF ContainersEnd, Running, Item
  <2>2. todo[1] \in StepOf(initial) /\ todo[1][1] = "end"
    BY <2>1, Now DEF Op
  <2>3. Item[1] = "containers"
    BY <2>1, <2>2, StepIs
  <2> QED
    BY <2>1, <2>3 DEF Spared
<1>2. CASE ~ContainersEnd
  <2>1. present \subseteq present'
    BY <1>2 DEF Advance, Raise, LeaveTry, ThreadEnds, NoteStep, MakeStep, Adopt, PoolStarts,
                SignalInPool, vvars
  <2> QED
    BY <2>1 DEF Spared
<1> QED
  BY <1>1, <1>2

\* Every step of a run keeps the invariant, and harms nothing foreign.
LEMMA VNextInv == ASSUME VInv, [VNext]_vvars PROVE VInv' /\ Spared
<1>1. CASE Cleanup \/ Escape
  BY <1>1, CleanupKeeps DEF Kept
<1>2. CASE \/ Advance \/ Raise \/ LeaveTry \/ UNCHANGED vvars
           \/ \E v \in Vm : ThreadEnds(v)
  <2>1. VInv'
    BY <1>2, NoteStepInv, MakeStepInv, ContainersEndInv, AdoptInv, PoolStartsInv, LeaveInv,
       RaiseInv, ThreadEndsInv
       DEF Advance
  <2> QED
    BY <1>2, <2>1, SetupSpares
<1> QED
  BY <1>1, <1>2 DEF VNext

\* The invariant, for any machines and any faults, with or without a second signal.
THEOREM RunInvariant == VSpec => []VInv
<1>1. VInit => VInv
  BY VInitInv DEF CInv
<1>2. VInv /\ [VNext]_vvars => VInv'
  BY VNextInv
<1> QED
  BY <1>1, <1>2, PTL DEF VSpec

\* The state of a run has its type.
THEOREM VmRunTypes == VSpec => []VTypeOK
<1>1. VInv => VTypeOK
  BY DEF VInv
<1> QED
  BY <1>1, RunInvariant, PTL

\* No disk is deleted under a machine that runs, and what bears a machine's name
\* without being the harness's own stays as it is: vm/e2e.py's preflight and
\* remove_owned_vms, whatever fails between them, and with a second signal, too.
THEOREM NothingIsHarmed == VSpec => HarmsNothing
<1>1. VInv => \A v \in Vm : <<"running", v>> \in present => <<"volume", v>> \in present
  BY DEF VInv, DisksInv
<1>2. VInv /\ [VNext]_vvars =>
        [\A v \in Vm : Strange(v) =>
           \A k \in {"volume", "domain", "running"} :
             <<k, v>> \in present => <<k, v>> \in present']_vvars
  BY VNextInv DEF Spared
<1> QED
  BY <1>1, <1>2, RunInvariant, PTL DEF VSpec, HarmsNothing

-----------------------------------------------------------------------------
(* The verdict *)

\* What a sequence holds is its head and what its tail holds.
LEMMA TailRange ==
  ASSUME NEW S, NEW s \in Seq(S), s # <<>>
  PROVE  Range(s) = {s[1]} \union Range(Tail(s))
<1>1. /\ Len(s) \in Nat \ {0} /\ DOMAIN s = 1..Len(s)
      /\ Len(Tail(s)) = Len(s) - 1 /\ DOMAIN Tail(s) = 1..Len(Tail(s))
      /\ \A i \in 1..Len(Tail(s)) : Tail(s)[i] = s[i + 1]
  BY EmptySeq, LenProperties, HeadTailProperties
<1>2. ASSUME NEW i \in 1..Len(s), i # 1 PROVE s[i] \in Range(Tail(s))
  <2>1. i - 1 \in 1..Len(Tail(s)) /\ (i - 1) + 1 = i
    BY <1>1, <1>2
  <2> QED
    BY <1>1, <2>1 DEF Range
<1>3. \A i \in 1..Len(Tail(s)) : i + 1 \in 1..Len(s)
  BY <1>1
<1>4. Range(Tail(s)) \subseteq Range(s)
  BY <1>1, <1>3 DEF Range
<1> QED
  BY <1>1, <1>2, <1>4 DEF Range

\* A note on the list stays on it while other steps are taken from it.
LEMMA NotesStay ==
  ASSUME todo \in Seq(StepOf(initial)), todo # <<>>, todo[1][1] # "note",
         todo' \in {todo, Tail(todo)}
  PROVE  \A k, v : Note(k, v) \in Range(todo) => Note(k, v) \in Range(todo')
<1>1. ASSUME NEW k, NEW v, Note(k, v) \in Range(todo), todo' = Tail(todo)
      PROVE  Note(k, v) \in Range(todo')
  <2>1. Note(k, v)[1] = "note"
    BY DEF Note
  <2>2. Note(k, v) # todo[1]
    BY <2>1
  <2>3. Range(todo) = {todo[1]} \union Range(Tail(todo))
    BY TailRange
  <2> HIDE DEF Range
  <2> QED
    BY <1>1, <2>2, <2>3
<1> QED
  BY <1>1

\* What has been made and is not yet written down is next on the list.
LEMMA SetupRegisters ==
  ASSUME VInv, Registered, Advance \/ Raise \/ (\E v \in Vm : pc = "setup" /\ ThreadEnds(v))
  PROVE  Registered'
<1> DEFINE x == todo[1]
<1>0. present \subseteq Artefact /\ todo \in Seq(StepOf(initial))
  BY DEF VInv, VTypeOK, SetupInv
<1>1. ASSUME NEW N, todo # <<>>, \A n \in N : n # x
      PROVE  \A n \in N : n \in Range(todo) => n \in Range(Tail(todo))
  BY <1>0, <1>1, TailRange
<1>2. CASE NoteStep
  <2>1. /\ todo # <<>> /\ x[1] = "note" /\ Item = <<x[2], x[3]>> /\ pc = "setup"
        /\ noted' = noted \union {Item} /\ todo' = Tail(todo) /\ UNCHANGED <<present, raised>>
    BY <1>2 DEF NoteStep, Running, Op, Item
  <2>2. x = Note(x[2], x[3])
    BY <2>1, Now, StepIs
  <2> HIDE DEF x
  <2>3. ASSUME NEW a \in present, Note(a[1], a[2]) \in Range(todo)
        PROVE  a \in noted' \/ Note(a[1], a[2]) \in Range(todo')
    <3>1. CASE Note(a[1], a[2]) = x
      <4>1. a[1] = x[2] /\ a[2] = x[3]
        BY <2>2, <3>1 DEF Note
      <4> QED
        BY <1>0, <2>1, <4>1, ArtefactIs
    <3>2. CASE Note(a[1], a[2]) # x
      BY <1>1, <2>1, <2>3, <3>2
    <3> QED
      BY <3>1, <3>2
  <2> QED
    BY <2>1, <2>3 DEF Registered
<1>3. CASE MakeStep
  <2>1. /\ todo # <<>> /\ x[1] = "make" /\ Item = <<x[2], x[3]>> /\ pc = "setup"
        /\ present' = present \union {Item} /\ todo' = Tail(todo) /\ UNCHANGED <<noted, raised>>
    BY <1>3 DEF MakeStep, Running, Op, Item
  <2>3. x[2] \in MadeBeforeNoted => Note(x[2], x[3]) \in Range(todo)
    <3>1. Followed(todo) /\ DOMAIN todo = 1..Len(todo) /\ 1 \in DOMAIN todo
      BY <1>0, <2>1, EmptySeq, LenProperties DEF VInv, SetupInv, Setups
    <3> QED
      BY <2>1, <3>1 DEF Followed, Range
  <2>4. \A k, v : Note(k, v) \in Range(todo) => Note(k, v) \in Range(todo')
    BY <1>0, <2>1, NotesStay
  <2> HIDE DEF x
  <2> QED
    BY <2>1, <2>3, <2>4 DEF Registered
<1>4. CASE ContainersEnd \/ Adopt \/ PoolStarts
  <2>1. /\ todo # <<>> /\ x[1] # "note" /\ pc = "setup"
        /\ present' \subseteq present /\ noted \subseteq noted'
        /\ todo' \in {todo, Tail(todo)} /\ UNCHANGED raised
    BY <1>4 DEF ContainersEnd, Adopt, PoolStarts, Running, Op
  <2>2. \A k, v : Note(k, v) \in Range(todo) => Note(k, v) \in Range(todo')
    BY <1>0, <2>1, NotesStay
  <2> QED
    BY <2>1, <2>2 DEF Registered
<1>5. CASE Raise \/ SignalInPool
  <2>1. raised' = TRUE
    BY <1>5 DEF Raise, SignalInPool
  <2> QED
    BY <2>1 DEF Registered
<1>6. ASSUME NEW v \in Vm, ThreadEnds(v) PROVE Registered'
  <2>1. /\ v \in pool /\ present' \in {present, present \union {<<x[2], v>>}}
        /\ raised' \in {raised, TRUE} /\ todo' \in {todo, Tail(todo)} /\ UNCHANGED noted
    BY <1>6 DEF ThreadEnds
  <2>2. todo # <<>> /\ x[1] = "pool"
    BY <2>1 DEF VInv, SetupInv
  <2>3. x \in StepOf(initial)
    BY <1>0, <2>2, EmptySeq, ElementOfSeq
  <2>4. x[2] \notin MadeBeforeNoted
    <3>1. x[2] \in {"root", "guest_image"}
      BY <2>2, <2>3, StepIs
    <3> QED
      BY <3>1 DEF MadeBeforeNoted
  <2>5. \A k, w : Note(k, w) \in Range(todo) => Note(k, w) \in Range(todo')
    BY <1>0, <2>1, <2>2, NotesStay
  <2> HIDE DEF x
  <2>6. ASSUME ~raised' PROVE ~raised
    <3>1. raised \in BOOLEAN
      BY DEF VInv, VTypeOK
    <3> QED
      BY <2>1, <2>6, <3>1
  <2> QED
    BY <2>1, <2>4, <2>5, <2>6 DEF Registered
<1> QED
  BY <1>2, <1>3, <1>4, <1>5, <1>6 DEF Advance

\* With one signal at most no thread works during the cleanup, and the invariant is
\* kept by every step.
LEMMA CNextInv == ASSUME ~SecondSignal, CInv, [VNext]_vvars PROVE CInv'
<1>0. VInv /\ VInv'
  BY VNextInv DEF CInv
<1>1. CASE Cleanup \/ Escape
  <2>1. /\ pc # "setup" /\ pc' # "setup" /\ present' \subseteq present
        /\ UNCHANGED <<todo, pool, noted, raised>>
    BY <1>1, CleanupOnlyRemoves
  <2>2. CleanInv'
    BY <1>0, <1>1, CleanupKeeps DEF Kept, CInv
  <2>3. Registered'
    BY <2>1 DEF CInv, Registered
  <2> QED
    BY <1>0, <2>1, <2>2, <2>3 DEF CInv
<1>2. CASE Advance \/ Raise \/ \E v \in Vm : ThreadEnds(v)
  <2>1. pc = "setup"
    BY <1>2 DEF Advance, Raise, NoteStep, MakeStep, ContainersEnd, Adopt, PoolStarts, SignalInPool,
                Running, ThreadEnds, CInv
  <2>2. pc' = "setup"
    BY <1>2, <2>1 DEF Advance, Raise, NoteStep, MakeStep, ContainersEnd, Adopt, PoolStarts,
                      SignalInPool, ThreadEnds
  <2>3. CleanInv'
    BY <2>2 DEF CleanInv, Past, Rank
  <2>4. Registered'
    BY <1>0, <1>2, <2>1, SetupRegisters DEF CInv
  <2> QED
    BY <1>0, <2>2, <2>3, <2>4 DEF CInv
<1>3. CASE LeaveTry
  <2>1. /\ pc = "setup" /\ pc' = "finally" /\ (raised \/ todo = <<>>) /\ pool = {}
        /\ UNCHANGED <<todo, pool, present, noted, raised>>
    BY <1>3 DEF LeaveTry
  <2>2. CleanInv'
    BY <2>1 DEF CleanInv, Past, Rank
  <2>3. Registered'
    BY <2>1 DEF CInv, Registered
  <2> QED
    BY <1>0, <2>1, <2>2, <2>3 DEF CInv
<1>4. CASE UNCHANGED vvars
  <2>1. CleanInv' /\ Registered'
    BY <1>4 DEF vvars, CInv, CleanInv, Past, Duty, Gone, Unnoted, Managed, Untouched, Registered
  <2> QED
    BY <1>0, <1>4, <2>1 DEF CInv, vvars
<1> QED
  BY <1>1, <1>2, <1>3, <1>4 DEF VNext

\* A cleanup that got to its end without a failure has done all its duties.
LEMMA VerdictFollows == ASSUME CInv PROVE VerdictIsTrue
<1>1. ASSUME Complete, NEW p \in Place, p # "done" PROVE Duty(p)
  <2>1. pc = "done" /\ ~failed
    BY <1>1 DEF Complete
  <2>2. Rank[p] < Rank["done"] /\ "done" \in Place
    BY <1>1 DEF Rank, Place
  <2> QED
    BY <2>1, <2>2 DEF Past, CInv, CleanInv, Place
<1>2. ASSUME Complete
      PROVE  /\ Gone({"fake", "worker"}) /\ Unnoted("core") /\ Unnoted("tunnel")
             /\ Gone({"containers"}) /\ Unnoted("authkey") /\ Gone({"known"})
             /\ Gone({"runtime", "root"}) /\ Gone({"db"}) /\ Gone({"image", "guest_image"})
             /\ Gone({"selinux"}) /\ Gone({"state"})
             /\ \A a \in present : a[1] = "running" => a[2] \notin Managed
             /\ ~keep => \A a \in present : a[1] \in {"volume", "domain"} => Untouched(a[2])
             /\ keep => \A v \in Vm : <<"domain", v>> \in present
  BY <1>1, <1>2, PlaceIs DEF Duty
<1>3. ASSUME Complete, NEW a \in present, a[1] \notin MadeBeforeNoted PROVE MayStay(a)
  <2>1. Backed(a) /\ a \in Artefact
    BY DEF CInv, VInv, VTypeOK
  <2>2. a[1] \in {"volume", "domain", "running"}
    BY <1>2, <1>3, <2>1 DEF Backed, MadeKind, Gone, MadeBeforeNoted
  <2>3. CASE a[1] \in {"volume", "domain"}
    BY <1>2, <1>3, <2>3 DEF MayStay
  <2>4. CASE a[1] = "running"
    <3>1. a[2] \in Vm /\ a[2] \notin Managed
      BY <1>2, <1>3, <2>1, <2>4, ArtefactIs DEF VmKind
    <3>2. <<"owned", a[2]>> \notin noted /\ <<"domain", a[2]>> \notin noted
      BY <3>1 DEF Managed
    <3> QED
      BY <2>1, <2>4, <3>2 DEF Backed, MayStay, Untouched
  <2> QED
    BY <2>2, <2>3, <2>4
<1>4. ASSUME Complete, NEW a \in present, a[1] \in MadeBeforeNoted PROVE a \notin noted
  BY <1>2, <1>4 DEF Unnoted, MadeBeforeNoted
<1>5. ASSUME Success, NEW a \in present PROVE a[1] \notin MadeBeforeNoted
  <2>1. Complete /\ ~raised /\ pc # "setup"
    BY <1>5 DEF Success, Complete
  <2>2. todo = <<>>
    BY <2>1 DEF CInv
  <2>3. Range(todo) = {}
    BY <2>2 DEF Range
  <2> QED
    BY <1>4, <2>1, <2>3 DEF CInv, Registered
<1>6. ASSUME Success, keep, NEW v \in Vm PROVE {<<"volume", v>>, <<"domain", v>>} \subseteq present
  BY <1>2, <1>6 DEF Success, CInv, VInv, DisksInv
<1> QED
  BY <1>3, <1>4, <1>5, <1>6 DEF VerdictIsTrue, Success

\* cleanup["complete"] and the exit code of vm/e2e.py say what is so, whatever failed:
\* for any machines, any steps that fail and one signal.  After a second one threads of
\* the setup may outlive it, and then they make what the cleanup has already looked for.
THEOREM VerdictsAreTrue == ASSUME ~SecondSignal PROVE VSpec => []VerdictIsTrue
<1>1. VInit => CInv
  BY VInitInv
<1>2. CInv /\ [VNext]_vvars => CInv'
  BY CNextInv
<1>3. CInv => VerdictIsTrue
  BY VerdictFollows
<1> QED
  BY <1>1, <1>2, <1>3, PTL DEF VSpec

=============================================================================
