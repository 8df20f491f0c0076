--------------------------- MODULE PayloadReading ---------------------------
(***************************************************************************)
(* A script on its way from whoever wrote it to the two that read it: the  *)
(* page that made it verifies it before it is sent, and the index takes it *)
(* from a block.  It is one a page's builder made, or any cells after a    *)
(* tag, by whomever.                                                       *)
(***************************************************************************)
EXTENDS Payloads

CONSTANTS
  Fields,      \* what a field of fixed width may be
  Texts        \* texts, addresses and pieces of a logo

ASSUME WriterAssumption == Fields \subseteq Nat /\ Texts \subseteq Seq(Nat)

VARIABLES
  script,
  meant        \* the payload a page wrote with the record it stands for, or <<>>

payloadVars == <<script, meant>>

Tags == {"C", "T", "H", "O", "M", "L"}
Intents ==
  UNION {{<<r, <<"intent", [op |-> op, cid |-> c, amount |-> n, out |-> o, pk |-> k]>>>> :
            r \in UNION {IntentPayload(op, c, n, o, k, p) : p \in Fields}} :
           op \in Fields \union {Create}, c, n, o, k \in Fields}
Transfers ==
  UNION {{<<r, <<"transfer", [cid |-> c, amount |-> n, pk |-> k]>>>> : r \in TransferPayload(c, n, k)} : c, n, k \in Fields}
Names ==
  UNION {{<<r, <<"meta", [cid |-> c, ticker |-> t, name |-> n]>>>> : r \in MetaPayload(c, t, n)} : c \in Fields, t, n \in Texts}
Descriptions ==
  UNION {{<<r, <<"meta2", [cid |-> c, desc |-> d, links |-> l]>>>> : r \in MetaPayload2(c, d, l)} : c \in Fields, d, l \in Texts}
Pieces ==
  UNION {{<<r, <<"logo", [cid |-> c, idx |-> i, total |-> n, hash |-> h, data |-> d]>>>> : r \in LogoChunkPayload(c, i, n, h, d)} :
           c, i, n, h \in Fields, d \in Texts}
Offered ==
  UNION {{<<r, <<"offer", [chain |-> c, price |-> p, addr |-> a, nonce |-> n]>>>> : r \in OfferPayload(c, p, a, n)} :
           c \in Fields \union {ChainS}, p, n \in Fields, a \in Texts}
(* Every payload with the record it stands for.                            *)
Written == Intents \union Transfers \union Names \union Descriptions \union Pieces \union Offered

PayloadInit ==
  \/ \E w \in Written : script = Script(w[1]) /\ meant = w
  \/ \E tag \in Tags : script = Script(<<tag>>) /\ meant = <<>>
(* One more cell, which the script says it pushes or does not.             *)
Grow ==
  /\ Len(script.body) < PushMax /\ meant' = <<>>
  /\ \E c \in Fields, pushed \in BOOLEAN :
       script' = [push |-> script.push + (IF pushed THEN 1 ELSE 0), body |-> Append(script.body, c)]
PayloadSpec == PayloadInit /\ [][Grow]_payloadVars
-----------------------------------------------------------------------------
(* A page that verifies its own output reads in it what the index will     *)
(* read, and nothing else ("exactly like the indexer"), for every script   *)
(* that pushes all it has.                                                 *)
ReadsAlike(s) ==
  s.push = Len(s.body) => ReadByPage(s) = {a \in ReadByIndex(<<s>>) : a[1] \notin {"transfer", "htlc"}}

(* What a builder made of these fields fits in one push, and the index     *)
(* reads these fields from it, as this kind of record and no other.        *)
ReadsBack(raw, what) == OpReturn({raw}) # {} /\ ReadByIndex(<<Script(raw)>>) = {what}

(* The client's writer, the client's reader and the index's reader of a    *)
(* payload agree (gbx-curve.mjs, scanner.js).                              *)
PayloadsAgree == ReadsAlike(script) /\ (meant # <<>> => ReadsBack(meant[1], meant[2]))
=============================================================================
