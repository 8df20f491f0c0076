------------------------------ MODULE Stratum -------------------------------
(***************************************************************************)
(* The mining pool, pool/stratum/server.js: one process of callbacks       *)
(* between which everything may happen.  It asks its node for block        *)
(* templates, hands them to the connected miners as jobs whose coinbase    *)
(* pays the miner's own address, and submits the blocks they find.         *)
(* A block is named by its height: two tips never have one hash, and a     *)
(* template builds on a tip.  The merkle branch, the header and the witness*)
(* of a candidate are its parent and whom its coinbase pays; the           *)
(* statistics and the /pool-info page read the state and change nothing.   *)
(***************************************************************************)
EXTENDS Naturals, Sequences, SequencesExt

CONSTANTS
  Miners,     \* connections; a miner who reconnects is another one
  Addresses,  \* the addresses each of them may log in with
  None, Idle, Asked,  \* no address, no call under way, one not answered
  Window,     \* how many jobs are kept (12 in the code)
  Calls,      \* bound: getblocktemplate calls under way
  Polls,      \* bound: getbestblockhash calls under way
  MaxTip,     \* bound: blocks of the chain
  Leavers,    \* bound: the connections that may close
  MaxFaults   \* bound: calls to the node that fail

(* The chain begins with a block, some job is kept, and None is no miner.  *)
ASSUME StratumAssumption ==
  /\ Window \in Nat \ {0} /\ MaxTip \in Nat \ {0} /\ MaxFaults \in Nat
  /\ None \notin Miners

VARIABLES
  chain,      \* the node's chain: who found each block and whom it pays
  call,       \* every getblocktemplate: Idle, Asked, or the parent answered
  poll,       \* every getbestblockhash: Idle, or the tip answered
  jobs,       \* the Map of jobs, oldest first; the last is the current one
  lastPrev, due,   \* lastPrev, and whether lastTplTs is over 30 s ago
  conn,       \* every connection: open or closed
  checking,   \* its logins at validateaddress
  payout,     \* st.payout and st.payoutScript
  work,       \* what the miner mines on: the parents of the jobs not cleaned
  found,      \* its candidate: none, sent or accepted
  log,        \* blocks_found.jsonl
  logins,     \* the addresses a connection logged in with (history)
  faults

vars == <<chain, call, poll, jobs, lastPrev, due, conn, checking, payout, work, found, log, logins, faults>>
poolVars == <<call, poll, jobs, lastPrev, due>>
minerVars == <<conn, checking, payout, work, logins>>

Tip == Len(chain)
Tips == 0..MaxTip
Other == [by |-> None, pays |-> None]
NoBlock == [state |-> "none", prev |-> 0, pays |-> None]

Init ==
  /\ chain = <<Other>>
  /\ \E c \in Calls : call = [k \in Calls |-> IF k = c THEN Asked ELSE Idle]  \* server.listen
  /\ poll = [p \in Polls |-> Idle]
  /\ jobs = <<>> /\ lastPrev = 0 /\ due = TRUE
  /\ conn = [m \in Miners |-> "open"] /\ checking = [m \in Miners |-> {}]
  /\ payout = [m \in Miners |-> None]
  /\ work = [m \in Miners |-> {}] /\ found = [m \in Miners |-> NoBlock]
  /\ log = {} /\ logins = [m \in Miners |-> {}] /\ faults = 0
-----------------------------------------------------------------------------
Free == {c \in Calls : call[c] = Idle}
Ask == Free # {} /\ call' = [call EXCEPT ![CHOOSE c \in Free : TRUE] = Asked]

(* The node: blocks of others, and its answers to the pool, any of which   *)
(* may be slow or fail.                                                    *)
OthersFind ==
  /\ Tip < MaxTip
  /\ chain' = Append(chain, Other)
  /\ UNCHANGED <<poolVars, minerVars, found, log, faults>>

Template(c) ==
  /\ call[c] = Asked
  /\ call' = [call EXCEPT ![c] = Tip]
  /\ UNCHANGED <<chain, poll, jobs, lastPrev, due, minerVars, found, log, faults>>

TemplateFails(c) ==
  /\ call[c] = Asked /\ faults < MaxFaults
  /\ call' = [call EXCEPT ![c] = Idle] /\ faults' = faults + 1
  /\ UNCHANGED <<chain, poll, jobs, lastPrev, due, minerVars, found, log>>

BestBlock(p) ==
  /\ poll[p] = Idle
  /\ poll' = [poll EXCEPT ![p] = Tip]
  /\ UNCHANGED <<chain, call, jobs, lastPrev, due, minerVars, found, log, faults>>

HalfAMinute ==
  /\ ~due /\ due' = TRUE
  /\ UNCHANGED <<chain, call, poll, jobs, lastPrev, minerVars, found, log, faults>>
-----------------------------------------------------------------------------
(* buildCoinbaseParts: one output, the whole reward, to the script of the  *)
(* connection.                                                             *)
Coinbase(m) == payout[m]

(* Mutant: the coinbase is kept with the job and not with the connection.  *)
CoinbaseOfJob(m, job) ==
  LET built == {n \in Miners : job.pays[n] # None} IN
  IF built = {} THEN Coinbase(m)' ELSE job.pays[CHOOSE n \in built : TRUE]

(* notifyClient: the coinbase of a job is built once per connection, from  *)
(* the script it has then.                                                 *)
CoinbaseFor(m, job) == IF job.pays[m] = None THEN Coinbase(m)' ELSE job.pays[m]

Authorised(m) == conn[m] = "open" /\ payout[m] # None

(* Mutant: clean_jobs is decided by lastPrev, which the poll has set.      *)
CleanSinceLastPrev(prev) == prev # lastPrev
Clean(prev) == jobs = <<>> \/ Last(jobs).prev # prev

(* The jobs of the last two heights, a job after the other.                *)
Recent(all, prev) ==
  LET kept[i \in 0..Len(all)] ==
        IF i = 0 THEN <<>>
        ELSE IF all[i].prev + 1 >= prev THEN Append(kept[i - 1], all[i]) ELSE kept[i - 1]
  IN  kept[Len(all)]

(* Mutant: the Map has no limit. *)
KeptByHeight(all, prev) == Recent(all, prev)
(* Those stay, and at most Window of them.                                 *)
Kept(all, prev) ==
  IF Len(Recent(all, prev)) > Window THEN Tail(Recent(all, prev)) ELSE Recent(all, prev)

NewTemplate(c) ==
  LET prev == call[c]
      job == [prev |-> prev, pays |-> [m \in Miners |-> IF Authorised(m) THEN Coinbase(m) ELSE None]]
      clean == Clean(prev) IN
  /\ prev \in Tips
  /\ jobs' = Kept(Append(jobs, job), prev)
  /\ lastPrev' = prev /\ due' = FALSE
  /\ call' = [call EXCEPT ![c] = Idle]
  /\ work' = [m \in Miners |->
                IF Authorised(m) THEN {prev} \cup (IF clean THEN {} ELSE work[m]) ELSE work[m]]
  /\ UNCHANGED <<chain, poll, conn, checking, payout, found, log, logins, faults>>

(* Mutant: no refresh after half a minute. *)
NeedsOnlyOnChange(best) == best # lastPrev /\ (jobs = <<>> \/ Last(jobs).prev # best)

(* Every 500 ms, whatever an earlier poll is doing.  lastPrev is set before*)
(* the template is there.                                                  *)
NeedsTemplate(best) == (best # lastPrev /\ (jobs = <<>> \/ Last(jobs).prev # best)) \/ (best = lastPrev /\ due)

PollTip(p) ==
  LET best == poll[p] IN
  /\ best \in Tips
  /\ poll' = [poll EXCEPT ![p] = Idle]
  /\ lastPrev' = best /\ due' = FALSE
  /\ IF NeedsTemplate(best)
     THEN Ask
     ELSE UNCHANGED call
  /\ UNCHANGED <<chain, jobs, minerVars, found, log, faults>>
-----------------------------------------------------------------------------
(* A closed socket leaves `clients'; calls it made are still answered.      *)
Disconnect(m) ==
  /\ conn[m] = "open" /\ m \in Leavers
  /\ conn' = [conn EXCEPT ![m] = "closed"]
  /\ work' = [work EXCEPT ![m] = {}]
  /\ UNCHANGED <<chain, poolVars, checking, payout, found, log, logins, faults>>

(* mining.authorize: validateaddress is awaited, and the messages of other *)
(* chunks of the connection are handled meanwhile.  Bound: a connection   *)
(* logs in once for each of its addresses.                                 *)
Authorise(m, a) ==
  /\ conn[m] = "open" /\ a \notin logins[m] \cup checking[m]
  /\ checking' = [checking EXCEPT ![m] = @ \cup {a}]
  /\ UNCHANGED <<chain, poolVars, conn, payout, work, logins, found, log, faults>>

AddressRefused(m, a) ==
  /\ a \in checking[m]
  /\ checking' = [checking EXCEPT ![m] = @ \ {a}]
  /\ UNCHANGED <<chain, poolVars, conn, payout, work, found, log, logins, faults>>

AddressValid(m, a) ==
  /\ a \in checking[m]
  /\ checking' = [checking EXCEPT ![m] = @ \ {a}]
  /\ payout' = [payout EXCEPT ![m] = a] /\ logins' = [logins EXCEPT ![m] = @ \cup {a}]
  /\ IF jobs = <<>>
     THEN UNCHANGED <<jobs, work>>
     ELSE /\ jobs' = [jobs EXCEPT ![Len(jobs)].pays[m] = CoinbaseFor(m, Last(jobs))]
          /\ work' = [work EXCEPT ![m] = {Last(jobs).prev}]
  /\ UNCHANGED <<chain, call, poll, lastPrev, due, conn, found, log, faults>>

(* mining.submit of a hash that meets the network's target, for a job the  *)
(* miner was told of and that is still in the Map.  Any other submission   *)
(* changes nothing but counters and the share difficulty.                  *)
Candidate(m) ==
  /\ payout[m] # None /\ \A n \in Miners : found[n] = NoBlock
  /\ \E i \in DOMAIN jobs :
       /\ jobs[i].pays[m] # None
       /\ found' = [found EXCEPT ![m] = [state |-> "sent", prev |-> jobs[i].prev, pays |-> jobs[i].pays[m]]]
  /\ UNCHANGED <<chain, poolVars, minerVars, log, faults>>

(* submitblock at the node: refused unless the block extends the tip.  An  *)
(* error is answered to the miner, whatever the node made of the block.    *)
SubmitBlock(m) ==
  LET b == found[m] IN
  /\ b.state = "sent" /\ (b.prev = Tip => Tip < MaxTip)
  /\ IF b.prev = Tip
     THEN /\ chain' = Append(chain, [by |-> m, pays |-> b.pays])
          /\ \/ found' = [found EXCEPT ![m].state = "accepted"] /\ UNCHANGED faults
             \/ faults < MaxFaults /\ found' = [found EXCEPT ![m] = NoBlock] /\ faults' = faults + 1
     ELSE found' = [found EXCEPT ![m] = NoBlock] /\ UNCHANGED <<chain, faults>>
  /\ UNCHANGED <<poolVars, minerVars, log>>

(* Mutant: the record is made from the current job. *)
RecordOfCurrent(m) ==
  [height |-> Last(jobs).prev + 1, by |-> m, pays |-> found[m].pays, payout |-> payout[m]]
Record(m) ==
  [height |-> found[m].prev + 1, by |-> m, pays |-> found[m].pays, payout |-> payout[m]]

(* After the await: the block is logged with the payout st has now, and a  *)
(* template is asked for.                                                  *)
BlockAccepted(m) ==
  /\ found[m].state = "accepted"
  /\ found' = [found EXCEPT ![m] = NoBlock]
  /\ log' = log \cup {Record(m)}
  /\ Ask
  /\ UNCHANGED <<chain, poll, jobs, lastPrev, due, minerVars, faults>>
-----------------------------------------------------------------------------
Node == OthersFind \/ HalfAMinute
        \/ (\E c \in Calls : Template(c) \/ TemplateFails(c))
        \/ \E p \in Polls : BestBlock(p)
Pool == (\E c \in Calls : NewTemplate(c)) \/ \E p \in Polls : PollTip(p)
Mining == \E m \in Miners :
  \/ Disconnect(m) \/ Candidate(m) \/ SubmitBlock(m) \/ BlockAccepted(m)
  \/ \E a \in Addresses[m] : Authorise(m, a) \/ AddressRefused(m, a) \/ AddressValid(m, a)
Next == Node \/ Pool \/ Mining

(* The interval keeps firing, time passes, and what is asked is answered.  *)
Fairness ==
  /\ WF_vars(HalfAMinute)
  /\ \A c \in Calls : WF_vars(Template(c)) /\ WF_vars(NewTemplate(c))
  /\ \A p \in Polls : WF_vars(BestBlock(p)) /\ WF_vars(PollTip(p))
  /\ \A m \in Miners : WF_vars(SubmitBlock(m)) /\ WF_vars(BlockAccepted(m))
Spec == Init /\ [][Next]_vars
FairSpec == Spec /\ Fairness
-----------------------------------------------------------------------------
AnyAddress == UNION {Addresses[m] : m \in Miners}
TypeOK ==
  /\ chain \in Seq([by : Miners \cup {None}, pays : AnyAddress \cup {None}]) /\ Tip \in Tips
  /\ call \in [Calls -> {Idle, Asked} \cup Tips] /\ poll \in [Polls -> {Idle} \cup Tips]
  /\ jobs \in Seq([prev : Tips, pays : [Miners -> AnyAddress \cup {None}]]) /\ Len(jobs) <= Window
  /\ lastPrev \in Tips /\ due \in BOOLEAN /\ faults \in 0..MaxFaults
  /\ \A m \in Miners :
       /\ conn[m] \in {"open", "closed"} /\ checking[m] \subseteq Addresses[m]
       /\ payout[m] \in Addresses[m] \cup {None} /\ logins[m] \subseteq Addresses[m]
       /\ work[m] \subseteq Tips
       /\ found[m].state \in {"none", "sent", "accepted"}

(* An authorised miner mines on the parent of the current job and on       *)
(* nothing older: whatever order templates and polls are answered in, it   *)
(* was told the current job, and told to drop the work a new tip made      *)
(* worthless.                                                              *)
NobodyOnOldWork ==
  \A m \in Miners : Authorised(m) /\ jobs # <<>> => work[m] = {Last(jobs).prev}

(* server.js:2, "Coinbase pays the miner's address": a block found on a    *)
(* connection pays an address that this connection logged in with.         *)
BlocksPayTheirMiner ==
  \A h \in DOMAIN chain : chain[h].by # None => chain[h].pays \in logins[chain[h].by]

(* blocks_found.jsonl: what it records is in the chain, found by that      *)
(* connection; and of a connection that logged in once it names the        *)
(* address that was paid.                                                  *)
LogIsTrue ==
  \A r \in log :
    /\ r.height \in DOMAIN chain /\ chain[r.height] = [by |-> r.by, pays |-> r.pays]
    /\ logins[r.by] = {r.payout} => r.payout = r.pays

(* The blocks of the pool's miners, in the chain and in the log: whom they *)
(* pay, and that the record says so (handleSubmit).                        *)
BlocksAccounted == TypeOK /\ BlocksPayTheirMiner /\ LogIsTrue

(* Once the chain stands still the current job builds on its tip, also     *)
(* when the template after the last block failed.                          *)
JobsFollowTheTip == <>[](jobs # <<>> /\ Last(jobs).prev = Tip)
=============================================================================
