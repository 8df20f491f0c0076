------------------------------ MODULE Payloads ------------------------------
(***************************************************************************)
(* What the launchpad writes in OP_RETURN outputs and who reads it back:   *)
(*   client/gbx-curve.mjs    the builders, and the parsers with which a    *)
(*                           page verifies its own transaction;            *)
(*   token-index/scanner.js  the parsers that decide what the index says.  *)
(* A payload is a sequence of cells.  A field of fixed width (tag, version,*)
(* coin id, key, amount, hash) is one cell; a length is a cell that says   *)
(* how many cells follow; text, an address or a piece of a logo has one    *)
(* cell a byte, and a byte outside [A-Z0-9] is 0.  A script is how many    *)
(* cells it pushes, and the cells it has.  A builder that may throw and a  *)
(* parser that may answer null are the sets of their answers.              *)
(***************************************************************************)
EXTENDS Naturals, Sequences

CONSTANTS
  TickerMax, NameMax,     \* META_TICKER_MAX, META_NAME_MAX
  DescMax, LinksMax,      \* META2_DESC_MAX, META2_LINKS_MAX
  ChunkMax, TotalMax,     \* LOGO_CHUNK_MAX, LOGO_TOTAL_MAX
  PushMax                 \* what one OP_PUSHDATA1 holds

(* 10, 50, 150, 64, 197 and 21 bytes: a description and its links, or a    *)
(* piece of a logo, fill a push; a name does not.                          *)
ASSUME LimitsAssumption ==
  /\ {TickerMax, NameMax, DescMax, LinksMax, ChunkMax, TotalMax} \subseteq Nat
  /\ PushMax = 5 + DescMax + LinksMax /\ PushMax = 7 + ChunkMax
  /\ TickerMax + NameMax <= DescMax + LinksMax /\ 8 <= PushMax

Create == 3                                         \* 'C', 0x43
ChainA == 1
ChainB == 2
ChainS == 3
AddressLength(chain) == IF chain = ChainS THEN 2 ELSE 1   \* 32 and 20 bytes
Pushed(s) == SubSeq(s.body, 1, IF s.push > Len(s.body) THEN Len(s.body) ELSE s.push)
InAlphabet(t) == \A i \in DOMAIN t : t[i] # 0
Script(raw) == [push |-> Len(raw), body |-> raw]
(* opReturn: a payload that is too long throws.                            *)
OpReturn(raws) == {Script(r) : r \in {q \in raws : Len(q) <= PushMax}}
-----------------------------------------------------------------------------
(* The builders.                                                           *)
IntentPayload(op, cid, amount, out, pk, proof) ==
  {<<"C", op, cid, amount, out, pk>> \o (IF op = Create THEN <<proof>> ELSE <<>>)}
TransferPayload(cid, amount, to) == {r \in {<<"T", 1, cid, amount, to>>} : amount > 0}
MetaPayload(cid, ticker, name) ==
  {r \in {<<"M", 1, cid, Len(ticker)>> \o ticker \o <<Len(name)>> \o name} :
     Len(ticker) \in 1 .. TickerMax /\ InAlphabet(ticker) /\ Len(name) \in 1 .. NameMax}
MetaPayload2(cid, desc, links) ==
  {r \in {<<"M", 2, cid, Len(desc)>> \o desc \o <<Len(links)>> \o links} :
     Len(desc) <= DescMax /\ Len(links) <= LinksMax /\ Len(desc) + Len(links) > 0}
(* Mutant: a piece may have one byte more. *)
LongerChunks(cid, idx, total, hash, data) ==
  {r \in {<<"L", 1, cid, idx, total, hash, Len(data)>> \o data} :
     total \in 1 .. TotalMax /\ idx < total /\ Len(data) \in 1 .. ChunkMax + 1}

LogoChunkPayload(cid, idx, total, hash, data) ==
  {r \in {<<"L", 1, cid, idx, total, hash, Len(data)>> \o data} :
     total \in 1 .. TotalMax /\ idx < total /\ Len(data) \in 1 .. ChunkMax}
OfferPayload(chain, price, addr, nonce) ==
  {r \in {<<"O", 1, chain, price, Len(addr)>> \o addr \o <<nonce>>} :
     chain \in {ChainA, ChainB, ChainS} /\ Len(addr) = AddressLength(chain) /\ price > 0}
-----------------------------------------------------------------------------
(* The parsers of the pages: all but the intent's take every cell of the   *)
(* script, whatever it says it pushes.                                     *)
ParseIntentFromScript(s) ==
  LET d == Pushed(s) IN
  IF Len(d) >= 2 /\ d[1] = "C" /\ (Len(d) = 6 \/ (d[2] = Create /\ Len(d) = 7))
  THEN {[op |-> d[2], cid |-> d[3], amount |-> d[4], out |-> d[5], pk |-> d[6]]} ELSE {}
ParseMetaFromScript(s) ==
  LET d == s.body IN
  {[cid |-> d[3], ticker |-> SubSeq(d, 5, 4 + t), name |-> SubSeq(d, 6 + t, Len(d))] :
     t \in {n \in 1 .. TickerMax : /\ Len(d) >= 6 /\ d[1] = "M" /\ d[2] = 1 /\ d[4] = n /\ Len(d) >= 5 + n
                                   /\ InAlphabet(SubSeq(d, 5, 4 + n))
                                   /\ d[5 + n] \in 1 .. NameMax /\ Len(d) = 5 + n + d[5 + n]}}
ParseMeta2FromScript(s) ==
  LET d == s.body IN
  {[cid |-> d[3], desc |-> SubSeq(d, 5, 4 + n), links |-> SubSeq(d, 6 + n, Len(d))] :
     n \in {k \in 0 .. DescMax : /\ Len(d) >= 5 /\ d[1] = "M" /\ d[2] = 2 /\ d[4] = k /\ Len(d) >= 5 + k
                                 /\ d[5 + k] <= LinksMax /\ Len(d) = 5 + k + d[5 + k] /\ k + d[5 + k] > 0}}
ParseLogoChunkFromScript(s) ==
  LET d == s.body IN
  {[cid |-> d[3], idx |-> d[4], total |-> d[5], hash |-> d[6], data |-> SubSeq(d, 8, 7 + n)] :
     n \in {k \in 1 .. ChunkMax : /\ Len(d) >= 8 /\ d[1] = "L" /\ d[2] = 1 /\ d[5] \in 1 .. TotalMax /\ d[4] < d[5]
                                  /\ d[7] = k /\ Len(d) = 7 + k}}
ParseOfferFromScript(s) ==
  LET d == s.body IN
  IF /\ Len(d) >= 7 /\ d[1] = "O" /\ d[2] = 1 /\ d[3] \in {ChainA, ChainB, ChainS} /\ d[4] > 0
     /\ d[5] = AddressLength(d[3]) /\ Len(d) = 6 + d[5]
  THEN {[chain |-> d[3], price |-> d[4], addr |-> SubSeq(d, 6, 5 + d[5]), nonce |-> d[Len(d)]]} ELSE {}
-----------------------------------------------------------------------------
(* The scanner reads what a script pushes, and the first output of a       *)
(* transaction that parses.                                                *)
First(Parse(_), tx) ==
  LET good == {i \in DOMAIN tx : Parse(Pushed(tx[i])) # {}} IN
  IF good = {} THEN {} ELSE Parse(Pushed(tx[CHOOSE i \in good : \A j \in good : i <= j]))

Intent(d) ==
  IF Len(d) >= 1 /\ d[1] = "C" /\ (Len(d) = 6 \/ (Len(d) = 7 /\ d[2] = Create))
  THEN {[op |-> d[2], cid |-> d[3], amount |-> d[4], out |-> d[5], pk |-> d[6]]} ELSE {}
Transfer(d) ==
  IF Len(d) = 5 /\ d[1] = "T" /\ d[2] = 1 /\ d[4] > 0 THEN {[cid |-> d[3], amount |-> d[4], pk |-> d[5]]} ELSE {}
HtlcAnchor(d) ==
  IF Len(d) = 4 /\ d[1] = "H" /\ d[2] = 1 THEN {[hashlock |-> d[3], pk |-> d[4]]} ELSE {}
Offer(d) ==
  IF /\ Len(d) >= 7 /\ d[1] = "O" /\ d[2] = 1 /\ d[3] \in {ChainA, ChainB, ChainS} /\ d[4] > 0
     /\ d[5] = AddressLength(d[3]) /\ Len(d) = 6 + d[5]
  THEN {[chain |-> d[3], price |-> d[4], addr |-> SubSeq(d, 6, 5 + d[5]), nonce |-> d[Len(d)]]} ELSE {}
(* Mutant: the name is not measured. *)
MetaOfAnyName(d) ==
  IF Len(d) >= 6 /\ d[1] = "M" /\ d[2] = 1 /\ d[4] \in 1 .. TickerMax /\ Len(d) >= 5 + d[4]
  THEN {[cid |-> d[3], ticker |-> SubSeq(d, 5, 4 + d[4]), name |-> SubSeq(d, 6 + d[4], Len(d))]} ELSE {}

Meta(d) ==
  IF /\ Len(d) >= 6 /\ d[1] = "M" /\ d[2] = 1 /\ d[4] \in 1 .. TickerMax /\ Len(d) >= 5 + d[4]
     /\ InAlphabet(SubSeq(d, 5, 4 + d[4]))
     /\ d[5 + d[4]] \in 1 .. NameMax /\ Len(d) = 5 + d[4] + d[5 + d[4]]
  THEN {[cid |-> d[3], ticker |-> SubSeq(d, 5, 4 + d[4]), name |-> SubSeq(d, 6 + d[4], Len(d))]} ELSE {}
Meta2(d) ==
  IF /\ Len(d) >= 5 /\ d[1] = "M" /\ d[2] = 2 /\ d[4] <= DescMax /\ Len(d) >= 5 + d[4]
     /\ d[5 + d[4]] <= LinksMax /\ Len(d) = 5 + d[4] + d[5 + d[4]] /\ d[4] + d[5 + d[4]] > 0
  THEN {[cid |-> d[3], desc |-> SubSeq(d, 5, 4 + d[4]), links |-> SubSeq(d, 6 + d[4], Len(d))]} ELSE {}
LogoChunk(d) ==
  IF /\ Len(d) >= 8 /\ d[1] = "L" /\ d[2] = 1 /\ d[5] \in 1 .. TotalMax /\ d[4] < d[5]
     /\ d[7] \in 1 .. ChunkMax /\ Len(d) = 7 + d[7]
  THEN {[cid |-> d[3], idx |-> d[4], total |-> d[5], hash |-> d[6], data |-> SubSeq(d, 8, 7 + d[7])]} ELSE {}
Tagged(kind, answers) == {<<kind, r>> : r \in answers}
ReadByIndex(tx) ==
  Tagged("intent", First(Intent, tx)) \union Tagged("transfer", First(Transfer, tx)) \union Tagged("htlc", First(HtlcAnchor, tx))
  \union Tagged("offer", First(Offer, tx)) \union Tagged("meta", First(Meta, tx)) \union Tagged("meta2", First(Meta2, tx))
  \union Tagged("logo", First(LogoChunk, tx))
ReadByPage(s) ==
  Tagged("intent", ParseIntentFromScript(s)) \union Tagged("offer", ParseOfferFromScript(s))
  \union Tagged("meta", ParseMetaFromScript(s)) \union Tagged("meta2", ParseMeta2FromScript(s))
  \union Tagged("logo", ParseLogoChunkFromScript(s))
=============================================================================
