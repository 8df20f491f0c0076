---------------------------- MODULE StratumProofs ----------------------------
(***************************************************************************)
(* What holds of the mining pool for any miners, addresses, number of jobs *)
(* kept, calls under way and length of the chain: nobody mines on old work *)
(* and the blocks the pool's miners find are accounted for.                *)
(***************************************************************************)
EXTENDS Stratum, SumLemmas, TLAPS

Payee == AnyAddress \cup {None}
Block == [by : Miners \cup {None}, pays : Payee]
Job == [prev : Tips, pays : [Miners -> Payee]]

(* g[i] are the recent jobs among the first i.                             *)
Keeps(g, all, prev) ==
  g = [i \in 0..Len(all) |->
         IF i = 0 THEN <<>>
         ELSE IF all[i].prev + 1 >= prev THEN Append(g[i - 1], all[i]) ELSE g[i - 1]]
KeepsTo(g, all, prev, n) ==
  g = [i \in 0..n |->
         IF i = 0 THEN <<>>
         ELSE IF all[i].prev + 1 >= prev THEN Append(g[i - 1], all[i]) ELSE g[i - 1]]

(* Jobs of all, i of them at most.                                         *)
FineJobs(h, all, i) ==
  /\ h \in Seq(Job) /\ Len(h) <= i
  /\ \A j \in DOMAIN h : \E k \in DOMAIN all : h[j] = all[k]

(* The function by which Recent is computed exists, for any list of jobs.  *)
LEMMA KeptJobsExist ==
  ASSUME NEW all \in Seq(Job), NEW prev PROVE \E g : Keeps(g, all, prev)
<1> DEFINE Bad == {n \in Nat : n <= Len(all) /\ ~\E g : KeepsTo(g, all, prev, n)}
<1>1. Bad = {}
  <2> SUFFICES ASSUME Bad # {} PROVE FALSE
    OBVIOUS
  <2>1. PICK n \in Bad : \A k \in Bad : n <= k
    BY LeastMember
  <2>2. CASE n = 0
    <3>1. PICK g : g = [i \in 0..0 |-> <<>>]
      OBVIOUS
    <3>2. KeepsTo(g, all, prev, 0)
      BY <3>1 DEF KeepsTo
    <3> QED
      BY <2>1, <2>2, <3>2
  <2>3. CASE n # 0
    <3>1. n - 1 \in Nat /\ n \in Nat /\ ~(n <= n - 1) /\ n - 1 <= Len(all)
      BY <2>1, <2>3
    <3>2. PICK h : KeepsTo(h, all, prev, n - 1)
      BY <2>1, <3>1
    <3>3. PICK g : g = [i \in 0..n |->
                          IF i = 0 THEN <<>>
                          ELSE IF all[i].prev + 1 >= prev THEN Append(h[i - 1], all[i]) ELSE h[i - 1]]
      OBVIOUS
    <3>4. ASSUME NEW i \in 0..n, i # 0 PROVE g[i - 1] = h[i - 1]
      <4>1. i - 1 \in 0..(n - 1) /\ i - 1 \in 0..n
        BY <3>1, <3>4
      <4> QED
        BY <3>2, <3>3, <4>1 DEF KeepsTo
    <3>5. KeepsTo(g, all, prev, n)
      BY <3>3, <3>4 DEF KeepsTo
    <3> QED
      BY <2>1, <3>5
  <2> QED
    BY <2>2, <2>3
<1>2. Len(all) \in Nat
  OBVIOUS
<1> HIDE DEF Bad
<1>3. \E g : KeepsTo(g, all, prev, Len(all))
  BY <1>1, <1>2 DEF Bad
<1> QED
  BY <1>3 DEF Keeps, KeepsTo

(* The recent jobs are jobs of the sequence, no more of them, and the last *)
(* of them is its last, if that one is recent.                             *)
LEMMA RecentJobs ==
  ASSUME NEW all \in Seq(Job), NEW prev \in Nat, all # <<>>, Last(all).prev = prev
  PROVE  /\ Recent(all, prev) \in Seq(Job) /\ Recent(all, prev) # <<>>
         /\ Len(Recent(all, prev)) <= Len(all)
         /\ Last(Recent(all, prev)) = Last(all)
         /\ \A i \in DOMAIN Recent(all, prev) : \E k \in DOMAIN all : Recent(all, prev)[i] = all[k]
<1>1. PICK g : g = CHOOSE h : Keeps(h, all, prev)
  OBVIOUS
<1>2. Keeps(g, all, prev)
  BY <1>1, KeptJobsExist
<1>3. Recent(all, prev) = g[Len(all)]
  BY <1>1 DEF Recent, Keeps
<1>4. Len(all) \in Nat /\ Len(all) # 0
  OBVIOUS
<1>5. g[0] = <<>>
  BY <1>2, <1>4 DEF Keeps
<1>6. \A i \in 1..Len(all) :
        g[i] = IF all[i].prev + 1 >= prev THEN Append(g[i - 1], all[i]) ELSE g[i - 1]
  <2>1. \A i \in 0..Len(all) :
          g[i] = IF i = 0 THEN <<>>
                 ELSE IF all[i].prev + 1 >= prev THEN Append(g[i - 1], all[i]) ELSE g[i - 1]
    BY <1>2 DEF Keeps
  <2>2. \A i \in 1..Len(all) : i \in 0..Len(all) /\ i # 0
    BY <1>4
  <2> QED
    BY <2>1, <2>2
<1> DEFINE Fine(i) == FineJobs(g[i], all, i)
           Bad == {n \in Nat : n <= Len(all) /\ ~Fine(n)}
<1>7. Bad = {}
  <2> SUFFICES ASSUME Bad # {} PROVE FALSE
    OBVIOUS
  <2>1. PICK n \in Bad : \A k \in Bad : n <= k
    BY LeastMember
  <2>2. CASE n = 0
    <3>1. Fine(0)
      BY <1>5 DEF FineJobs
    <3> QED
      BY <2>1, <2>2, <3>1
  <2>3. CASE n # 0
    <3>1. n \in 1..Len(all) /\ n - 1 \in Nat /\ n - 1 <= Len(all) /\ ~(n <= n - 1)
      BY <1>4, <2>1, <2>3
    <3>2. Fine(n - 1)
      BY <2>1, <3>1
    <3>3. PICK h : h = g[n - 1]
      OBVIOUS
    <3>4. h \in Seq(Job) /\ Len(h) <= n - 1 /\ \A j \in DOMAIN h : \E k \in DOMAIN all : h[j] = all[k]
      BY <3>2, <3>3 DEF FineJobs
    <3>5. all[n] \in Job /\ n \in DOMAIN all
      BY <3>1
    <3>6. CASE g[n] = h
      <4>1. Fine(n)
        BY <3>1, <3>4, <3>6 DEF FineJobs
      <4> QED
        BY <2>1, <4>1
    <3>7. CASE g[n] = Append(h, all[n])
      <4>1. g[n] \in Seq(Job) /\ Len(g[n]) = Len(h) + 1
        BY <3>4, <3>5, <3>7
      <4>2. ASSUME NEW j \in DOMAIN g[n] PROVE \E k \in DOMAIN all : g[n][j] = all[k]
        <5>1. CASE j = Len(h) + 1
          BY <3>4, <3>5, <3>7, <5>1
        <5>2. CASE j # Len(h) + 1
          <6>1. j \in DOMAIN h /\ g[n][j] = h[j]
            BY <3>4, <3>5, <3>7, <4>1, <5>2
          <6> QED
            BY <3>4, <6>1
        <5> QED
          BY <5>1, <5>2
      <4>3. Len(g[n]) <= n
        BY <3>1, <3>4, <4>1
      <4>4. Fine(n)
        BY <4>1, <4>2, <4>3 DEF FineJobs
      <4> QED
        BY <2>1, <4>4
    <3> QED
      BY <1>6, <3>1, <3>3, <3>6, <3>7
  <2> QED
    BY <2>2, <2>3
<1>8. Fine(Len(all)) /\ Fine(Len(all) - 1)
  <2>1. Len(all) - 1 \in Nat /\ Len(all) - 1 <= Len(all)
    BY <1>4
  <2> HIDE DEF Fine
  <2> QED
    BY <1>4, <1>7, <2>1
<1>9. PICK h : h = g[Len(all) - 1]
  OBVIOUS
<1>10. PICK last : last = all[Len(all)]
  OBVIOUS
<1>11. last \in Job /\ last.prev = prev /\ h \in Seq(Job)
  BY <1>4, <1>8, <1>9, <1>10 DEF Last, FineJobs
<1>12. g[Len(all)] = Append(h, last)
  <2>1. Len(all) \in 1..Len(all) /\ all[Len(all)].prev + 1 >= prev
    BY <1>4, <1>10, <1>11
  <2> QED
    BY <1>6, <1>9, <1>10, <2>1
<1>13. PICK r : r = Append(h, last)
  OBVIOUS
<1>14. r # <<>> /\ r[Len(r)] = last
  BY <1>11, <1>13
<1>15. FineJobs(r, all, Len(all)) /\ Recent(all, prev) = r
  BY <1>3, <1>8, <1>12, <1>13
<1> QED
  BY <1>10, <1>14, <1>15 DEF Last, FineJobs
-----------------------------------------------------------------------------
(* Dropping the oldest job keeps the last, as Window is not 0.             *)
LEMMA KeptJobs ==
  ASSUME NEW all \in Seq(Job), NEW prev \in Nat, all # <<>>, Last(all).prev = prev,
         Len(all) <= Window + 1
  PROVE  /\ Kept(all, prev) \in Seq(Job) /\ Kept(all, prev) # <<>>
         /\ Len(Kept(all, prev)) <= Window
         /\ Last(Kept(all, prev)) = Last(all)
         /\ \A i \in DOMAIN Kept(all, prev) : \E k \in DOMAIN all : Kept(all, prev)[i] = all[k]
<1>1. PICK r : r = Recent(all, prev)
  OBVIOUS
<1>2. /\ r \in Seq(Job) /\ r # <<>> /\ Len(r) <= Len(all) /\ r[Len(r)] = Last(all)
      /\ \A i \in DOMAIN r : \E k \in DOMAIN all : r[i] = all[k]
  BY <1>1, RecentJobs DEF Last
<1>3. Window \in Nat \ {0} /\ Len(all) \in Nat /\ Len(r) \in Nat
  BY <1>2, StratumAssumption
<1>4. CASE Len(r) > Window
  <2>1. PICK t : t = Tail(r)
    OBVIOUS
  <2>2. t \in Seq(Job) /\ Len(t) = Len(r) - 1 /\ \A i \in 1..Len(t) : t[i] = r[i + 1]
    BY <1>2, <2>1
  <2>3. Len(t) <= Window /\ Len(t) # 0 /\ t # <<>>
    BY <1>2, <1>3, <1>4, <2>2
  <2>4. t[Len(t)] = Last(all)
    BY <1>2, <1>3, <2>2, <2>3
  <2>5. ASSUME NEW i \in DOMAIN t PROVE \E k \in DOMAIN all : t[i] = all[k]
    <3>1. i + 1 \in DOMAIN r /\ t[i] = r[i + 1]
      BY <1>2, <1>3, <2>2
    <3> QED
      BY <1>2, <3>1
  <2>6. Kept(all, prev) = t
    BY <1>1, <1>4, <2>1 DEF Kept
  <2> QED
    BY <2>2, <2>3, <2>4, <2>5, <2>6 DEF Last
<1>5. CASE ~(Len(r) > Window)
  <2>1. Kept(all, prev) = r
    BY <1>1, <1>5 DEF Kept
  <2> QED
    BY <1>2, <1>3, <1>5, <2>1 DEF Last
<1> QED
  BY <1>4, <1>5
-----------------------------------------------------------------------------
(* The types, as functions on the connections.                             *)
Candidates == [state : {"none", "sent", "accepted"}, prev : Tips, pays : Payee]
Records == [height : Nat, by : Miners, pays : Payee, payout : Payee]
Typed ==
  /\ chain \in Seq(Block) /\ Tip \in Tips
  /\ call \in [Calls -> {Idle, Asked} \cup Tips] /\ poll \in [Polls -> {Idle} \cup Tips]
  /\ jobs \in Seq(Job) /\ Len(jobs) <= Window
  /\ lastPrev \in Tips /\ due \in BOOLEAN /\ faults \in 0..MaxFaults
  /\ conn \in [Miners -> {"open", "closed"}]
  /\ checking \in [Miners -> SUBSET AnyAddress] /\ logins \in [Miners -> SUBSET AnyAddress]
  /\ payout \in [Miners -> Payee] /\ work \in [Miners -> SUBSET Tips]
  /\ found \in [Miners -> Candidates] /\ log \subseteq Records
  /\ \A m \in Miners : /\ checking[m] \subseteq Addresses[m] /\ logins[m] \subseteq Addresses[m]
                       /\ payout[m] \in Addresses[m] \cup {None}

LEMMA TypedAtFirst == Init => Typed
<1> SUFFICES ASSUME Init PROVE Typed
  OBVIOUS
<1>1. 1 \in Tips /\ 0 \in Tips /\ 0 \in 0..MaxFaults /\ 0 <= Window
  BY StratumAssumption DEF Tips
<1>2. Other \in Block /\ NoBlock \in Candidates
  BY <1>1 DEF Other, NoBlock, Block, Candidates, Payee
<1>3. chain \in Seq(Block) /\ Tip \in Tips
  BY <1>1, <1>2 DEF Init, Tip
<1>4. call \in [Calls -> {Idle, Asked} \cup Tips] /\ poll \in [Polls -> {Idle} \cup Tips]
  BY DEF Init
<1>5. jobs \in Seq(Job) /\ Len(jobs) <= Window
  BY <1>1 DEF Init
<1>6. found \in [Miners -> Candidates]
  BY <1>2 DEF Init
<1>7. /\ checking \in [Miners -> SUBSET AnyAddress] /\ logins \in [Miners -> SUBSET AnyAddress]
      /\ payout \in [Miners -> Payee] /\ work \in [Miners -> SUBSET Tips]
      /\ conn \in [Miners -> {"open", "closed"}]
  BY DEF Init, Payee
<1> QED
  BY <1>1, <1>3, <1>4, <1>5, <1>6, <1>7 DEF Init, Typed

(* The job a template makes: every authorised connection has its coinbase. *)
NewJob(c) ==
  [prev |-> call[c], pays |-> [m \in Miners |-> IF Authorised(m) THEN Coinbase(m) ELSE None]]

(* After newTemplate the last job is the one it made, and the others were   *)
(* there before.                                                           *)
LEMMA JobsAfterTemplate ==
  ASSUME Typed, NEW c \in Calls, NewTemplate(c)
  PROVE  /\ jobs' \in Seq(Job) /\ jobs' # <<>> /\ Len(jobs') <= Window
         /\ Last(jobs').prev = call[c] /\ call[c] \in Tips
         /\ \A i \in DOMAIN jobs' : jobs'[i] = NewJob(c) \/ \E k \in DOMAIN jobs : jobs'[i] = jobs[k]
<1>1. PICK job : job = NewJob(c)
  OBVIOUS
<1>2. job \in Job /\ job.prev = call[c] /\ call[c] \in Nat
  BY <1>1 DEF NewTemplate, NewJob, Job, Tips, Typed, Payee, Coinbase
<1>3. PICK all : all = Append(jobs, job)
  OBVIOUS
<1>4. /\ all \in Seq(Job) /\ all # <<>> /\ all[Len(all)] = job /\ Len(all) = Len(jobs) + 1
      /\ \A k \in DOMAIN all : all[k] = job \/ \E n \in DOMAIN jobs : all[k] = jobs[n]
  BY <1>2, <1>3 DEF Typed
<1>5. Len(all) <= Window + 1
  BY <1>4, StratumAssumption DEF Typed
<1>6. Last(all).prev = call[c]
  BY <1>2, <1>4 DEF Last
<1>7. PICK k : k = Kept(all, call[c])
  OBVIOUS
<1>8. jobs' = k
  BY <1>1, <1>3, <1>7 DEF NewTemplate, NewJob
<1>9. /\ k \in Seq(Job) /\ k # <<>> /\ Len(k) <= Window /\ Last(k) = Last(all)
      /\ \A i \in DOMAIN k : \E n \in DOMAIN all : k[i] = all[n]
  BY <1>2, <1>4, <1>5, <1>6, <1>7, KeptJobs
<1>10. \A i \in DOMAIN k : k[i] = job \/ \E n \in DOMAIN jobs : k[i] = jobs[n]
  BY <1>4, <1>9
<1> QED
  BY <1>1, <1>6, <1>8, <1>9, <1>10 DEF NewTemplate

(* A login gives the last job a coinbase for its connection, no more.      *)
LEMMA JobsAfterLogin ==
  ASSUME Typed, NEW m \in Miners, NEW a \in Addresses[m], AddressValid(m, a), jobs # <<>>
  PROVE  /\ jobs' \in Seq(Job) /\ Len(jobs') = Len(jobs)
         /\ jobs' # <<>> /\ Last(jobs').prev = Last(jobs).prev
         /\ \A i \in DOMAIN jobs' : \A n \in Miners :
              jobs'[i].pays[n] = jobs[i].pays[n] \/ (n = m /\ jobs'[i].pays[n] = a)
<1>1. PICK p : p = CoinbaseFor(m, Last(jobs))
  OBVIOUS
<1>2. PICK job : job = Last(jobs)
  OBVIOUS
<1>3. Len(jobs) \in DOMAIN jobs /\ Len(jobs) \in Nat /\ job = jobs[Len(jobs)] /\ job \in Job /\ jobs \in Seq(Job)
  BY <1>2 DEF Typed, Last
<1>4. payout'[m] = a /\ a \in Payee
  BY DEF AddressValid, Typed, AnyAddress, Payee
<1>5. p \in Payee /\ (p = a \/ p = job.pays[m])
  BY <1>1, <1>2, <1>3, <1>4 DEF CoinbaseFor, Coinbase, Job
<1>6. PICK new : new = [job EXCEPT !.pays[m] = p]
  OBVIOUS
<1>7. /\ new \in Job /\ new.prev = job.prev
      /\ \A n \in Miners : new.pays[n] = job.pays[n] \/ (n = m /\ new.pays[n] = a)
  BY <1>3, <1>5, <1>6 DEF Job
<1>8. jobs' = [jobs EXCEPT ![Len(jobs)] = new]
  BY <1>1, <1>3, <1>6 DEF AddressValid
<1>9. jobs' \in Seq(Job) /\ Len(jobs') = Len(jobs) /\ jobs'[Len(jobs)] = new
  BY <1>3, <1>7, <1>8
<1>10. \A i \in DOMAIN jobs' : i # Len(jobs) => jobs'[i] = jobs[i]
  BY <1>3, <1>8
<1>11. jobs' # <<>> /\ Last(jobs').prev = Last(jobs).prev
  BY <1>2, <1>3, <1>7, <1>9 DEF Last
<1> QED
  BY <1>3, <1>7, <1>9, <1>10, <1>11
-----------------------------------------------------------------------------
LEMMA AskTyped == ASSUME Typed, Ask PROVE call' \in [Calls -> {Idle, Asked} \cup Tips]
BY DEF Ask, Typed

LEMMA NodeTyped == ASSUME Typed, Node PROVE Typed'
<1>1. CASE OthersFind
  <2>1. Other \in Block
    BY DEF Other, Block, Payee
  <2>2. chain' \in Seq(Block) /\ Len(chain') = Len(chain) + 1
    BY <1>1, <2>1 DEF OthersFind, Typed
  <2>3. Len(chain') \in Tips
    BY <1>1, <2>2, StratumAssumption DEF OthersFind, Typed, Tip, Tips
  <2> QED
    BY <1>1, <2>2, <2>3 DEF OthersFind, Typed, Tip, poolVars, minerVars
<1>2. CASE HalfAMinute
  BY <1>2 DEF HalfAMinute, Typed, Tip, minerVars
<1>3. ASSUME NEW c \in Calls, Template(c) PROVE Typed'
  BY <1>3 DEF Template, Typed, Tip, minerVars
<1>4. ASSUME NEW c \in Calls, TemplateFails(c) PROVE Typed'
  <2>1. faults' \in 0..MaxFaults
    BY <1>4, StratumAssumption DEF TemplateFails, Typed
  <2> QED
    BY <1>4, <2>1 DEF TemplateFails, Typed, Tip, minerVars
<1>5. ASSUME NEW p \in Polls, BestBlock(p) PROVE Typed'
  BY <1>5 DEF BestBlock, Typed, Tip, minerVars
<1> QED
  BY <1>1, <1>2, <1>3, <1>4, <1>5 DEF Node

LEMMA PoolTyped == ASSUME Typed, Pool PROVE Typed'
<1>1. ASSUME NEW c \in Calls, NewTemplate(c) PROVE Typed'
  <2>1. jobs' \in Seq(Job) /\ Len(jobs') <= Window /\ call[c] \in Tips
    BY <1>1, JobsAfterTemplate
  <2>2. work' \in [Miners -> SUBSET Tips]
    BY <1>1, <2>1 DEF NewTemplate, Typed
  <2>3. call' \in [Calls -> {Idle, Asked} \cup Tips] /\ lastPrev' \in Tips /\ due' \in BOOLEAN
    BY <1>1, <2>1 DEF NewTemplate, Typed
  <2> QED
    BY <1>1, <2>1, <2>2, <2>3 DEF NewTemplate, Typed, Tip
<1>2. ASSUME NEW p \in Polls, PollTip(p) PROVE Typed'
  <2>1. call' \in [Calls -> {Idle, Asked} \cup Tips]
    BY <1>2, AskTyped DEF PollTip, Typed
  <2>2. poll' \in [Polls -> {Idle} \cup Tips] /\ lastPrev' \in Tips /\ due' \in BOOLEAN
    BY <1>2 DEF PollTip, Typed
  <2> QED
    BY <1>2, <2>1, <2>2 DEF PollTip, Typed, Tip, minerVars
<1> QED
  BY <1>1, <1>2 DEF Pool

(* Logging in: the sets of addresses under way and of those accepted.      *)
LEMMA LoginTyped ==
  ASSUME Typed, NEW m \in Miners, NEW a \in Addresses[m],
         Authorise(m, a) \/ AddressRefused(m, a) \/ AddressValid(m, a)
  PROVE  Typed'
<1>1. a \in AnyAddress /\ a \in Payee
  BY DEF AnyAddress, Payee
<1>2. CASE Authorise(m, a)
  BY <1>1, <1>2 DEF Authorise, Typed, Tip, poolVars
<1>3. CASE AddressRefused(m, a)
  BY <1>3 DEF AddressRefused, Typed, Tip, poolVars
<1>4. CASE AddressValid(m, a)
  <2>1. jobs' \in Seq(Job) /\ Len(jobs') <= Window
    <3>1. CASE jobs = <<>>
      BY <1>4, <3>1 DEF AddressValid, Typed
    <3>2. CASE jobs # <<>>
      BY <1>4, <3>2, JobsAfterLogin DEF Typed
    <3> QED
      BY <3>1, <3>2
  <2>2. work' \in [Miners -> SUBSET Tips]
    <3>1. CASE jobs = <<>>
      BY <1>4, <3>1 DEF AddressValid, Typed
    <3>2. CASE jobs # <<>>
      <4>1. jobs[Len(jobs)] \in Job
        BY <3>2 DEF Typed
      <4>2. Last(jobs).prev \in Tips
        BY <4>1 DEF Job, Last
      <4> QED
        BY <1>4, <3>2, <4>2 DEF AddressValid, Typed
    <3> QED
      BY <3>1, <3>2
  <2>3. /\ checking' = [checking EXCEPT ![m] = @ \ {a}] /\ payout' = [payout EXCEPT ![m] = a]
        /\ logins' = [logins EXCEPT ![m] = @ \cup {a}]
    BY <1>4 DEF AddressValid
  <2>4. /\ checking' \in [Miners -> SUBSET AnyAddress] /\ logins' \in [Miners -> SUBSET AnyAddress]
        /\ payout' \in [Miners -> Payee]
        /\ \A n \in Miners : /\ checking'[n] \subseteq Addresses[n] /\ logins'[n] \subseteq Addresses[n]
                             /\ payout'[n] \in Addresses[n] \cup {None}
    BY <1>1, <2>3 DEF Typed
  <2> QED
    BY <1>4, <2>1, <2>2, <2>4 DEF AddressValid, Typed, Tip
<1> QED
  BY <1>2, <1>3, <1>4

LEMMA MiningTyped == ASSUME Typed, Mining PROVE Typed'
<1>1. ASSUME NEW m \in Miners, Disconnect(m) PROVE Typed'
  BY <1>1 DEF Disconnect, Typed, Tip, poolVars
<1>2. ASSUME NEW m \in Miners, Candidate(m) PROVE Typed'
  <2>1. PICK i \in DOMAIN jobs :
          found' = [found EXCEPT ![m] = [state |-> "sent", prev |-> jobs[i].prev, pays |-> jobs[i].pays[m]]]
    BY <1>2 DEF Candidate
  <2>2. jobs[i] \in Job
    BY DEF Typed
  <2>3. PICK b : b = [state |-> "sent", prev |-> jobs[i].prev, pays |-> jobs[i].pays[m]]
    OBVIOUS
  <2>4. b \in Candidates
    BY <2>2, <2>3 DEF Job, Candidates
  <2>5. found' \in [Miners -> Candidates]
    BY <2>1, <2>3, <2>4 DEF Typed
  <2> QED
    BY <1>2, <2>5 DEF Candidate, Typed, Tip, poolVars, minerVars
<1>3. ASSUME NEW m \in Miners, SubmitBlock(m) PROVE Typed'
  <2>1. NoBlock \in Candidates
    BY StratumAssumption DEF NoBlock, Candidates, Tips, Payee
  <2>2. found' \in [Miners -> Candidates]
    <3>1. found' = [found EXCEPT ![m].state = "accepted"] \/ found' = [found EXCEPT ![m] = NoBlock]
      BY <1>3 DEF SubmitBlock
    <3>2. [found[m] EXCEPT !.state = "accepted"] \in Candidates
      BY DEF Typed, Candidates
    <3>3. found' = [found EXCEPT ![m] = [found[m] EXCEPT !.state = "accepted"]] \/ found' = [found EXCEPT ![m] = NoBlock]
      BY <3>1
    <3> QED
      BY <2>1, <3>2, <3>3 DEF Typed
  <2>3. faults' \in 0..MaxFaults
    BY <1>3, StratumAssumption DEF SubmitBlock, Typed
  <2>4. chain' \in Seq(Block) /\ Len(chain') \in Tips
    <3>1. CASE chain' = chain
      BY <3>1 DEF Typed, Tip
    <3>2. CASE chain' # chain
      <4>1. PICK b : b = [by |-> m, pays |-> found[m].pays]
        OBVIOUS
      <4>2. b \in Block
        BY <4>1 DEF Block, Typed, Candidates
      <4>3. chain' = Append(chain, b) /\ Tip < MaxTip
        BY <1>3, <3>2, <4>1 DEF SubmitBlock
      <4>4. chain' \in Seq(Block) /\ Len(chain') = Len(chain) + 1
        BY <4>2, <4>3 DEF Typed
      <4> QED
        BY <4>3, <4>4, StratumAssumption DEF Typed, Tip, Tips
    <3> QED
      BY <3>1, <3>2
  <2> QED
    BY <1>3, <2>2, <2>3, <2>4 DEF SubmitBlock, Typed, Tip, poolVars, minerVars
<1>4. ASSUME NEW m \in Miners, BlockAccepted(m) PROVE Typed'
  <2>1. NoBlock \in Candidates
    BY StratumAssumption DEF NoBlock, Candidates, Tips, Payee
  <2>2. found' \in [Miners -> Candidates] /\ call' \in [Calls -> {Idle, Asked} \cup Tips]
    BY <1>4, <2>1, AskTyped DEF BlockAccepted, Typed
  <2>3. Record(m) \in Records
    <3>1. found[m] \in Candidates /\ payout[m] \in Payee
      BY DEF Typed
    <3>2. found[m].prev + 1 \in Nat
      BY <3>1 DEF Candidates, Tips
    <3> QED
      BY <3>1, <3>2 DEF Record, Records, Candidates
  <2> QED
    BY <1>4, <2>2, <2>3 DEF BlockAccepted, Typed, Tip, minerVars
<1> QED
  BY <1>1, <1>2, <1>3, <1>4, LoginTyped DEF Mining

LEMMA TypedStep == Typed /\ [Next]_vars => Typed'
<1>1. ASSUME Typed, UNCHANGED vars PROVE Typed'
  BY <1>1 DEF vars, Typed, Tip
<1> QED
  BY <1>1, NodeTyped, PoolTyped, MiningTyped DEF Next
-----------------------------------------------------------------------------
(* Whoever is authorised was told the current job, and when its parent is  *)
(* another than that of the job before, to drop the others: `clean' is     *)
(* decided by the job before, whatever lastPrev is.                        *)
LEMMA OldWorkStep ==
  Typed /\ NobodyOnOldWork /\ [Next]_vars => NobodyOnOldWork'
<1> SUFFICES ASSUME Typed, NobodyOnOldWork, [Next]_vars PROVE NobodyOnOldWork'
  OBVIOUS
<1>1. ASSUME jobs' = jobs, work' = work, conn' = conn, payout' = payout PROVE NobodyOnOldWork'
  BY <1>1 DEF NobodyOnOldWork, Authorised
<1>2. ASSUME NEW c \in Calls, NewTemplate(c) PROVE NobodyOnOldWork'
  <2>1. jobs' # <<>> /\ Last(jobs').prev = call[c]
    BY <1>2, JobsAfterTemplate
  <2>2. conn' = conn /\ payout' = payout
    BY <1>2 DEF NewTemplate
  <2>3. ASSUME NEW m \in Miners, Authorised(m) PROVE work'[m] = {call[c]}
    <3>1. work'[m] = {call[c]} \cup (IF Clean(call[c]) THEN {} ELSE work[m])
      BY <1>2, <2>3 DEF NewTemplate
    <3>2. ~Clean(call[c]) => work[m] = {call[c]}
      BY <2>3 DEF Clean, NobodyOnOldWork
    <3> QED
      BY <3>1, <3>2
  <2>4. \A m \in Miners : Authorised(m)' => Authorised(m)
    BY <2>2 DEF Authorised
  <2> QED
    BY <2>1, <2>3, <2>4 DEF NobodyOnOldWork
<1>3. ASSUME NEW m \in Miners, Disconnect(m) PROVE NobodyOnOldWork'
  <2>1. conn'[m] = "closed" /\ \A n \in Miners : n # m => conn'[n] = conn[n] /\ work'[n] = work[n]
    BY <1>3 DEF Disconnect, Typed
  <2>2. jobs' = jobs /\ payout' = payout
    BY <1>3 DEF Disconnect, poolVars
  <2> QED
    BY <2>1, <2>2 DEF NobodyOnOldWork, Authorised
<1>4. ASSUME NEW m \in Miners, NEW a \in Addresses[m], AddressValid(m, a) PROVE NobodyOnOldWork'
  <2>1. CASE jobs = <<>>
    BY <1>4, <2>1 DEF AddressValid, NobodyOnOldWork
  <2>2. CASE jobs # <<>>
    <3>1. Last(jobs').prev = Last(jobs).prev
      BY <1>4, <2>2, JobsAfterLogin
    <3>2. work'[m] = {Last(jobs).prev} /\ \A n \in Miners : n # m => work'[n] = work[n] /\ payout'[n] = payout[n]
      BY <1>4, <2>2 DEF AddressValid, Typed
    <3>3. conn' = conn
      BY <1>4 DEF AddressValid
    <3> QED
      BY <2>2, <3>1, <3>2, <3>3 DEF NobodyOnOldWork, Authorised
  <2> QED
    BY <2>1, <2>2
<1>5. CASE Node
  BY <1>1, <1>5 DEF Node, OthersFind, HalfAMinute, Template, TemplateFails, BestBlock, poolVars, minerVars
<1>6. ASSUME NEW p \in Polls, PollTip(p) PROVE NobodyOnOldWork'
  BY <1>1, <1>6 DEF PollTip, minerVars
<1>7. ASSUME NEW m \in Miners, Candidate(m) \/ SubmitBlock(m) \/ BlockAccepted(m) PROVE NobodyOnOldWork'
  BY <1>1, <1>7 DEF Candidate, SubmitBlock, BlockAccepted, poolVars, minerVars
<1>8. ASSUME NEW m \in Miners, NEW a \in Addresses[m], Authorise(m, a) \/ AddressRefused(m, a)
      PROVE  NobodyOnOldWork'
  BY <1>1, <1>8 DEF Authorise, AddressRefused, poolVars
<1>9. CASE UNCHANGED vars
  BY <1>1, <1>9 DEF vars
<1> QED
  BY <1>2, <1>3, <1>4, <1>5, <1>6, <1>7, <1>8, <1>9 DEF Next, Pool, Mining
-----------------------------------------------------------------------------
(* Whom a coinbase of m may pay: an address m logged in with.              *)
OfItsLogins(m, p) == p \in logins[m] \cup {None}
PayeesKnown ==
  \A m \in Miners : /\ OfItsLogins(m, payout[m])
                   /\ \A i \in DOMAIN jobs : OfItsLogins(m, jobs[i].pays[m])
InTheChain(h, m, p) == h \in DOMAIN chain /\ chain[h] = [by |-> m, pays |-> p]
CandidatePays(m) ==
  /\ found[m].state # "none" => found[m].pays \in logins[m]
  /\ found[m].state = "accepted" => InTheChain(found[m].prev + 1, m, found[m].pays)
CandidatesPay == \A m \in Miners : CandidatePays(m)
Logged == \A r \in log : InTheChain(r.height, r.by, r.pays)
Accounts == PayeesKnown /\ CandidatesPay /\ BlocksPayTheirMiner /\ Logged

(* Logins are kept, and so are the blocks of the chain.                    *)
Grown ==
  /\ \A m \in Miners : logins[m] \subseteq logins'[m]
  /\ Len(chain) <= Len(chain') /\ \A h \in DOMAIN chain : h \in DOMAIN chain' /\ chain'[h] = chain[h]

LEMMA StepsGrow == ASSUME Typed, [Next]_vars PROVE Grown
<1>1. ASSUME logins' = logins \/ \E m \in Miners : \E a : logins' = [logins EXCEPT ![m] = @ \cup {a}]
      PROVE  \A m \in Miners : logins[m] \subseteq logins'[m]
  BY <1>1 DEF Typed
<1>2. ASSUME chain' = chain \/ \E b : chain' = Append(chain, b)
      PROVE  Len(chain) <= Len(chain') /\ \A h \in DOMAIN chain : h \in DOMAIN chain' /\ chain'[h] = chain[h]
  <2>1. CASE chain' = chain
    BY <2>1 DEF Typed
  <2>2. ASSUME NEW b, chain' = Append(chain, b)
        PROVE  Len(chain) <= Len(chain') /\ \A h \in DOMAIN chain : h \in DOMAIN chain' /\ chain'[h] = chain[h]
    <3>1. chain \in Seq(Block \cup {b}) /\ b \in Block \cup {b}
      BY DEF Typed
    <3> QED
      BY <2>2, <3>1
  <2> QED
    BY <1>2, <2>1, <2>2
<1>3. CASE Node
  <2>1. logins' = logins
    BY <1>3 DEF Node, OthersFind, HalfAMinute, Template, TemplateFails, BestBlock, minerVars
  <2>2. chain' = chain \/ \E b : chain' = Append(chain, b)
    BY <1>3 DEF Node, OthersFind, HalfAMinute, Template, TemplateFails, BestBlock
  <2> QED
    BY <1>1, <1>2, <2>1, <2>2 DEF Grown
<1>4. CASE Pool
  BY <1>1, <1>2, <1>4 DEF Pool, NewTemplate, PollTip, minerVars, Grown
<1>5. ASSUME NEW m \in Miners, Disconnect(m) \/ Candidate(m) \/ SubmitBlock(m) \/ BlockAccepted(m)
      PROVE  Grown
  <2>1. logins' = logins
    BY <1>5 DEF Disconnect, Candidate, SubmitBlock, BlockAccepted, minerVars
  <2>2. chain' = chain \/ \E b : chain' = Append(chain, b)
    BY <1>5 DEF Disconnect, Candidate, SubmitBlock, BlockAccepted
  <2> QED
    BY <1>1, <1>2, <2>1, <2>2 DEF Grown
<1>6. ASSUME NEW m \in Miners, NEW a \in Addresses[m],
             Authorise(m, a) \/ AddressRefused(m, a) \/ AddressValid(m, a)
      PROVE  Grown
  BY <1>1, <1>2, <1>6 DEF Authorise, AddressRefused, AddressValid, Grown
<1>7. CASE UNCHANGED vars
  BY <1>1, <1>2, <1>7 DEF vars, Grown
<1> QED
  BY <1>3, <1>4, <1>5, <1>6, <1>7 DEF Next, Mining

(* What is in the chain stays there.                                       *)
LEMMA StillInTheChain ==
  ASSUME Grown, NEW h, NEW m, NEW p, InTheChain(h, m, p) PROVE InTheChain(h, m, p)'
BY DEF Grown, InTheChain
-----------------------------------------------------------------------------
(* Every part of the accounts stays true when what it reads stays, and the *)
(* logins and the chain grow.                                              *)
LEMMA PayeesStay ==
  ASSUME Typed, Grown, PayeesKnown, payout' = payout, jobs' = jobs PROVE PayeesKnown'
BY DEF PayeesKnown, OfItsLogins, Grown

LEMMA CandidateStays ==
  ASSUME Grown, CandidatesPay, NEW m \in Miners, found'[m] = found[m] PROVE CandidatePays(m)'
<1>1. found'[m].state # "none" => found'[m].pays \in logins'[m]
  BY DEF CandidatesPay, CandidatePays, Grown
<1>2. PICK b : b = found[m]
  OBVIOUS
<1>3. ASSUME b.state = "accepted" PROVE InTheChain(b.prev + 1, m, b.pays)'
  BY <1>2, <1>3, StillInTheChain DEF CandidatesPay, CandidatePays
<1> QED
  BY <1>1, <1>2, <1>3 DEF CandidatePays, InTheChain

LEMMA CandidatesStay == ASSUME Grown, CandidatesPay, found' = found PROVE CandidatesPay'
BY CandidateStays DEF CandidatesPay

(* One candidate changes: what becomes of it decides.                      *)
LEMMA OneCandidate ==
  ASSUME Grown, CandidatesPay, NEW m \in Miners, \A n \in Miners : n # m => found'[n] = found[n],
         CandidatePays(m)'
  PROVE  CandidatesPay'
<1>1. ASSUME NEW n \in Miners PROVE CandidatePays(n)'
  <2>1. CASE n = m
    BY <2>1
  <2>2. CASE n # m
    BY <2>2, CandidateStays
  <2> QED
    BY <2>1, <2>2
<1> QED
  BY <1>1 DEF CandidatesPay

LEMMA LogStays == ASSUME Grown, Logged, log' = log PROVE Logged'
<1>1. ASSUME NEW r \in log PROVE InTheChain(r.height, r.by, r.pays)'
  BY <1>1, StillInTheChain DEF Logged
<1> QED
  BY <1>1 DEF Logged, InTheChain

LEMMA BlocksStay ==
  ASSUME Typed, Grown, BlocksPayTheirMiner, chain' = chain PROVE BlocksPayTheirMiner'
<1>1. ASSUME NEW h \in DOMAIN chain, chain[h].by # None PROVE chain[h].pays \in logins'[chain[h].by]
  <2>1. chain[h] \in Block
    BY DEF Typed
  <2>2. chain[h].by \in Miners
    BY <1>1, <2>1 DEF Block
  <2> QED
    BY <1>1, <2>2 DEF BlocksPayTheirMiner, Grown
<1> QED
  BY <1>1 DEF BlocksPayTheirMiner

(* A block is added that pays its miner, or nobody's.                      *)
LEMMA BlockAdded ==
  ASSUME Typed, Grown, BlocksPayTheirMiner, NEW b \in Block, chain' = Append(chain, b),
         b.by # None => b.pays \in logins'[b.by]
  PROVE  BlocksPayTheirMiner' /\ Len(chain') = Len(chain) + 1 /\ chain'[Len(chain) + 1] = b
<1>1. /\ chain' \in Seq(Block) /\ Len(chain') = Len(chain) + 1 /\ chain'[Len(chain) + 1] = b
      /\ \A h \in 1..Len(chain) : chain'[h] = chain[h]
  BY DEF Typed
<1>2. ASSUME NEW h \in DOMAIN chain', chain'[h].by # None PROVE chain'[h].pays \in logins'[chain'[h].by]
  <2>1. CASE h = Len(chain) + 1
    BY <1>1, <1>2, <2>1
  <2>2. CASE h # Len(chain) + 1
    <3>1. h \in DOMAIN chain /\ chain'[h] = chain[h]
      BY <1>1, <2>2 DEF Typed
    <3>2. chain[h] \in Block /\ chain[h].by # None
      BY <1>2, <3>1 DEF Typed
    <3>3. chain[h].by \in Miners
      BY <3>2 DEF Block
    <3> QED
      BY <3>1, <3>2, <3>3 DEF BlocksPayTheirMiner, Grown
  <2> QED
    BY <2>1, <2>2
<1> QED
  BY <1>1, <1>2 DEF BlocksPayTheirMiner

(* The coinbases: of a template, of a login.                               *)
LEMMA TemplatePayees ==
  ASSUME Typed, Accounts, NEW c \in Calls, NewTemplate(c) PROVE PayeesKnown'
<1>1. /\ payout' = payout /\ logins' = logins
  BY DEF NewTemplate
<1>2. ASSUME NEW i \in DOMAIN jobs', NEW m \in Miners PROVE jobs'[i].pays[m] \in logins[m] \cup {None}
  <2>1. CASE jobs'[i] = NewJob(c)
    <3>1. jobs'[i].pays[m] = IF Authorised(m) THEN Coinbase(m) ELSE None
      BY <2>1 DEF NewJob
    <3> QED
      BY <3>1 DEF Coinbase, Accounts, PayeesKnown, OfItsLogins
  <2>2. CASE \E k \in DOMAIN jobs : jobs'[i] = jobs[k]
    BY <2>2 DEF Accounts, PayeesKnown, OfItsLogins
  <2> QED
    BY <2>1, <2>2, JobsAfterTemplate
<1> QED
  BY <1>1, <1>2 DEF PayeesKnown, OfItsLogins, Accounts

LEMMA LoginPayees ==
  ASSUME Typed, Accounts, NEW m \in Miners, NEW a \in Addresses[m], AddressValid(m, a) PROVE PayeesKnown'
<1>1. payout' = [payout EXCEPT ![m] = a] /\ logins' = [logins EXCEPT ![m] = @ \cup {a}]
  BY DEF AddressValid
<1>2. /\ a \in logins'[m] /\ \A n \in Miners : logins[n] \subseteq logins'[n]
      /\ \A n \in Miners : payout'[n] = payout[n] \/ (n = m /\ payout'[n] = a)
  BY <1>1 DEF Typed
<1>3. ASSUME NEW i \in DOMAIN jobs', NEW n \in Miners PROVE jobs'[i].pays[n] \in logins'[n] \cup {None}
  <2>1. CASE jobs = <<>>
    BY <1>2, <2>1 DEF AddressValid, Accounts, PayeesKnown, OfItsLogins
  <2>2. CASE jobs # <<>>
    <3>1. Len(jobs') = Len(jobs) /\ jobs \in Seq(Job) /\ jobs' \in Seq(Job)
      BY <2>2, JobsAfterLogin DEF Typed
    <3>2. i \in DOMAIN jobs
      BY <3>1
    <3>3. jobs'[i].pays[n] = jobs[i].pays[n] \/ (n = m /\ jobs'[i].pays[n] = a)
      BY <2>2, JobsAfterLogin
    <3> QED
      BY <1>2, <3>2, <3>3 DEF Accounts, PayeesKnown, OfItsLogins
  <2> QED
    BY <2>1, <2>2
<1> QED
  BY <1>2, <1>3 DEF PayeesKnown, OfItsLogins, Accounts

(* The steps, one by one: a candidate takes its payee from a job, a block  *)
(* from its candidate, a record from its block.                            *)
LEMMA AccountsStep == Typed /\ Accounts /\ [Next]_vars => Accounts'
<1> SUFFICES ASSUME Typed, Accounts, [Next]_vars PROVE Accounts'
  OBVIOUS
<1> Grown /\ PayeesKnown /\ CandidatesPay /\ BlocksPayTheirMiner /\ Logged
  BY StepsGrow DEF Accounts
<1>1. ASSUME chain' = chain, found' = found, log' = log, PayeesKnown' PROVE Accounts'
  BY <1>1, CandidatesStay, BlocksStay, LogStays DEF Accounts
<1>2. ASSUME chain' = chain, found' = found, log' = log, payout' = payout, jobs' = jobs PROVE Accounts'
  BY <1>1, <1>2, PayeesStay
<1>3. CASE OthersFind
  <2>1. Other \in Block /\ Other.by = None
    BY DEF Other, Block, Payee
  <2>2. BlocksPayTheirMiner'
    BY <1>3, <2>1, BlockAdded DEF OthersFind
  <2>3. PayeesKnown' /\ CandidatesPay' /\ Logged'
    BY <1>3, PayeesStay, CandidatesStay, LogStays DEF OthersFind, poolVars, minerVars
  <2> QED
    BY <2>2, <2>3 DEF Accounts
<1>4. CASE Node /\ ~OthersFind
  BY <1>2, <1>4 DEF Node, HalfAMinute, Template, TemplateFails, BestBlock, minerVars
<1>5. ASSUME NEW c \in Calls, NewTemplate(c) PROVE Accounts'
  BY <1>1, <1>5, TemplatePayees DEF NewTemplate
<1>6. ASSUME NEW p \in Polls, PollTip(p) PROVE Accounts'
  BY <1>2, <1>6 DEF PollTip, minerVars
<1>7. ASSUME NEW m \in Miners, Disconnect(m) PROVE Accounts'
  BY <1>2, <1>7 DEF Disconnect, poolVars
<1>8. ASSUME NEW m \in Miners, Candidate(m) PROVE Accounts'
  <2>1. PICK i \in DOMAIN jobs :
          /\ jobs[i].pays[m] # None
          /\ found' = [found EXCEPT ![m] = [state |-> "sent", prev |-> jobs[i].prev, pays |-> jobs[i].pays[m]]]
    BY <1>8 DEF Candidate
  <2>2. jobs[i].pays[m] \in logins[m]
    BY <2>1 DEF PayeesKnown, OfItsLogins
  <2>3. found'[m].state = "sent" /\ found'[m].pays \in logins'[m]
    BY <1>8, <2>1, <2>2 DEF Candidate, minerVars, Typed
  <2>4. CandidatePays(m)' /\ \A n \in Miners : n # m => found'[n] = found[n]
    BY <2>1, <2>3 DEF CandidatePays, Typed
  <2>5. CandidatesPay'
    BY <2>4, OneCandidate
  <2>6. PayeesKnown' /\ BlocksPayTheirMiner' /\ Logged'
    BY <1>8, PayeesStay, BlocksStay, LogStays DEF Candidate, poolVars, minerVars
  <2> QED
    BY <2>5, <2>6 DEF Accounts
<1>9. ASSUME NEW m \in Miners, SubmitBlock(m) PROVE Accounts'
  <2>1. PICK b : b = found[m]
    OBVIOUS
  <2>2. b.state = "sent" /\ b.pays \in logins[m] /\ b \in Candidates /\ logins' = logins
    BY <1>9, <2>1 DEF SubmitBlock, CandidatesPay, CandidatePays, minerVars, Typed
  <2>3. \A n \in Miners : n # m => found'[n] = found[n]
    BY <1>9 DEF SubmitBlock, Typed
  <2>4. CASE b.prev = Tip
    <3>1. PICK new : new = [by |-> m, pays |-> b.pays]
      OBVIOUS
    <3>2. new \in Block /\ new.by = m /\ new.pays = b.pays
      BY <2>2, <3>1 DEF Block, Candidates
    <3>3. chain' = Append(chain, new)
      BY <1>9, <2>1, <2>4, <3>1 DEF SubmitBlock
    <3>4. BlocksPayTheirMiner' /\ Len(chain') = Len(chain) + 1 /\ chain'[Len(chain) + 1] = new
      BY <2>2, <3>2, <3>3, BlockAdded
    <3>5. InTheChain(b.prev + 1, m, b.pays)'
      <4>1. Len(chain) + 1 \in DOMAIN chain'
        BY <3>2, <3>3 DEF Typed
      <4> QED
        BY <2>4, <3>1, <3>4, <4>1 DEF InTheChain, Tip
    <3>6. found'[m] = NoBlock \/ found'[m] = [b EXCEPT !.state = "accepted"]
      BY <1>9, <2>1, <2>4 DEF SubmitBlock, Typed
    <3>7. found'[m].state # "none" => found'[m].pays = b.pays /\ found'[m].prev = b.prev
      BY <2>2, <3>6 DEF NoBlock, Candidates
    <3>8. CandidatesPay'
      <4>1. CandidatePays(m)'
        BY <2>2, <3>5, <3>7 DEF CandidatePays, InTheChain
      <4> QED
        BY <2>3, <4>1, OneCandidate
    <3>9. PayeesKnown' /\ Logged'
      BY <1>9, PayeesStay, LogStays DEF SubmitBlock, poolVars, minerVars
    <3> QED
      BY <3>4, <3>8, <3>9 DEF Accounts
  <2>5. CASE b.prev # Tip
    <3>1. found'[m] = NoBlock /\ chain' = chain
      BY <1>9, <2>1, <2>5 DEF SubmitBlock, Typed
    <3>2. CandidatesPay'
      <4>1. CandidatePays(m)'
        BY <3>1 DEF CandidatePays, NoBlock
      <4> QED
        BY <2>3, <4>1, OneCandidate
    <3>3. PayeesKnown' /\ Logged' /\ BlocksPayTheirMiner'
      BY <1>9, <3>1, PayeesStay, LogStays, BlocksStay DEF SubmitBlock, poolVars, minerVars
    <3> QED
      BY <3>2, <3>3 DEF Accounts
  <2> QED
    BY <2>4, <2>5
<1>10. ASSUME NEW m \in Miners, BlockAccepted(m) PROVE Accounts'
  <2>1. PICK r : r = Record(m)
    OBVIOUS
  <2>2. InTheChain(r.height, r.by, r.pays)
    BY <1>10, <2>1 DEF BlockAccepted, Record, CandidatesPay, CandidatePays
  <2>3. log' = log \cup {r} /\ chain' = chain
    BY <1>10, <2>1 DEF BlockAccepted
  <2>4. Logged'
    BY <2>2, <2>3 DEF Logged, InTheChain
  <2>5. found'[m] = NoBlock /\ \A n \in Miners : n # m => found'[n] = found[n]
    BY <1>10 DEF BlockAccepted, Typed
  <2>6. CandidatesPay'
    <3>1. CandidatePays(m)'
      BY <2>5 DEF CandidatePays, NoBlock
    <3> QED
      BY <2>5, <3>1, OneCandidate
  <2>7. PayeesKnown' /\ BlocksPayTheirMiner'
    BY <1>10, PayeesStay, BlocksStay DEF BlockAccepted, minerVars
  <2> QED
    BY <2>4, <2>6, <2>7 DEF Accounts
<1>11. ASSUME NEW m \in Miners, NEW a \in Addresses[m], Authorise(m, a) \/ AddressRefused(m, a) PROVE Accounts'
  BY <1>2, <1>11 DEF Authorise, AddressRefused, poolVars
<1>12. ASSUME NEW m \in Miners, NEW a \in Addresses[m], AddressValid(m, a) PROVE Accounts'
  BY <1>1, <1>12, LoginPayees DEF AddressValid
<1>13. CASE UNCHANGED vars
  BY <1>2, <1>13 DEF vars
<1> QED
  BY <1>3, <1>4, <1>5, <1>6, <1>7, <1>8, <1>9, <1>10, <1>11, <1>12, <1>13 DEF Next, Pool, Mining
-----------------------------------------------------------------------------
(* What holds at first.                                                    *)
LEMMA AllAtFirst == Init => Typed /\ NobodyOnOldWork /\ Accounts
<1> SUFFICES ASSUME Init PROVE NobodyOnOldWork /\ Accounts
  BY TypedAtFirst
<1>1. NobodyOnOldWork
  BY DEF Init, NobodyOnOldWork
<1>2. PayeesKnown /\ CandidatesPay /\ Logged
  BY DEF Init, PayeesKnown, OfItsLogins, CandidatesPay, CandidatePays, NoBlock, Logged
<1>3. BlocksPayTheirMiner
  BY DEF Init, BlocksPayTheirMiner, Other
<1> QED
  BY <1>1, <1>2, <1>3 DEF Accounts

(* A record names the address that was paid, if its connection logged in   *)
(* with that one only: the block pays one of its logins.                   *)
LEMMA AccountsTrue == Typed /\ Accounts => BlocksAccounted
<1> SUFFICES ASSUME Typed, Accounts PROVE BlocksAccounted
  OBVIOUS
<1>1. ASSUME NEW r \in log
      PROVE  /\ r.height \in DOMAIN chain /\ chain[r.height] = [by |-> r.by, pays |-> r.pays]
             /\ logins[r.by] = {r.payout} => r.payout = r.pays
  <2>1. r.height \in DOMAIN chain /\ chain[r.height] = [by |-> r.by, pays |-> r.pays]
    BY DEF Accounts, Logged, InTheChain
  <2>2. r.by \in Miners /\ r.by # None
    BY StratumAssumption DEF Typed, Records
  <2>3. PICK b : b = chain[r.height]
    OBVIOUS
  <2>4. b.by = r.by /\ b.pays = r.pays
    BY <2>1, <2>3
  <2>5. r.pays \in logins[r.by]
    BY <2>1, <2>2, <2>3, <2>4 DEF Accounts, BlocksPayTheirMiner
  <2> QED
    BY <2>1, <2>5
<1>2. LogIsTrue
  BY <1>1 DEF LogIsTrue
<1>3. TypeOK
  <2>1. /\ chain \in Seq([by : Miners \cup {None}, pays : AnyAddress \cup {None}])
        /\ jobs \in Seq([prev : Tips, pays : [Miners -> AnyAddress \cup {None}]])
    BY DEF Typed, Block, Job, Payee
  <2>2. \A m \in Miners : found[m].state \in {"none", "sent", "accepted"}
    BY DEF Typed, Candidates
  <2>3. \A m \in Miners : conn[m] \in {"open", "closed"} /\ work[m] \subseteq Tips
    BY DEF Typed
  <2> QED
    BY <2>1, <2>2, <2>3 DEF Typed, TypeOK
<1> QED
  BY <1>2, <1>3 DEF Accounts, BlocksAccounted

(* An authorised miner mines on the parent of the current job and on       *)
(* nothing older, in whatever order the node answers newTemplate and the   *)
(* polls, whoever logs in or leaves between.                               *)
THEOREM NobodyMinesOldWork == Spec => []NobodyOnOldWork
<1>1. Typed /\ NobodyOnOldWork /\ [Next]_vars => (Typed /\ NobodyOnOldWork)'
  BY TypedStep, OldWorkStep
<1> QED
  BY <1>1, AllAtFirst, PTL DEF Spec

(* handleSubmit: the blocks of the pool's miners pay an address they logged*)
(* in with, and blocks_found.jsonl says of the chain what is so.           *)
THEOREM EveryBlockIsAccounted == Spec => []BlocksAccounted
<1>1. Typed /\ Accounts /\ [Next]_vars => (Typed /\ Accounts)'
  BY TypedStep, AccountsStep
<1> QED
  BY <1>1, AllAtFirst, AccountsTrue, PTL DEF Spec
=============================================================================
