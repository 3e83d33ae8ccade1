------------------------------- MODULE Pricing -------------------------------
(***************************************************************************)
(* The arithmetic of a checkout, in minor units and basis points: rates,   *)
(* the choice of a commission rule, and how an amount is shared out.       *)
(***************************************************************************)
EXTENDS Integers, Sequences, FiniteSets, FiniteSetsExt

Anything  == "any"    \* a rule that names no vendor, or no category
NoneKnown == "none"   \* a product without a category
NoRule    == [vendor |-> Anything, category |-> Anything, rateBps |-> 0, priority |-> 0, createdAt |-> 0]

(* The division of BigInt, on the naturals it is used with: it rounds down. *)
rateAmount(base, rateBps) == (base * rateBps) \div 10000

specificity(rule, vendor, category) ==
  CASE rule.vendor = vendor   /\ category # NoneKnown /\ rule.category = category -> 4
    [] rule.vendor = vendor   /\ rule.category = Anything                         -> 3
    [] rule.vendor = Anything /\ category # NoneKnown /\ rule.category = category -> 2
    [] rule.vendor = Anything /\ rule.category = Anything                         -> 1
    [] OTHER                                                                      -> 0

Precedes(left, right, vendor, category) ==
  LET l == specificity(left, vendor, category)
      r == specificity(right, vendor, category)
  IN \/ l > r
     \/ l = r /\ left.priority > right.priority
     \/ l = r /\ left.priority = right.priority /\ left.createdAt > right.createdAt

(* The first of the rules that fit, as they are sorted. *)
chooseRule(rules, vendor, category) ==
  LET fitting == {r \in rules : specificity(r, vendor, category) > 0} IN
  IF fitting = {} THEN NoRule
  ELSE CHOOSE r \in fitting : \A q \in fitting : ~Precedes(q, r, vendor, category)

Total(amount, S) == MapThenSumSet(LAMBDA x : amount[x], S)

(* The last of the parts, in the order in which they are listed.            *)
LastIn(parts, order) ==
  CHOOSE x \in parts :
    \E i \in DOMAIN order : order[i] = x /\ \A j \in DOMAIN order : j > i => order[j] \notin parts

EveryoneRounds(total, base, parts, last) ==  \* mutation of allocateAmount
  [x \in parts |-> (total * base[x]) \div Total(base, parts)]

(* Each part's share is rounded down; the last one takes what remains. *)
Share(total, base, parts) == [x \in parts |-> (total * base[x]) \div Total(base, parts)]
allocateAmount(total, base, parts, last) ==
  IF total = 0 \/ Total(base, parts) = 0 THEN [x \in parts |-> 0]
  ELSE LET share == Share(total, base, parts) IN
       [share EXCEPT ![last] = total - Total(share, parts \ {last})]

(* The same, of no more than there is, and no store gets more than it sells. *)
allocateFixedDiscount(amount, subtotal, stores, last) ==
  LET all   == Total(subtotal, stores)
      share == allocateAmount(IF amount > all THEN all ELSE amount, subtotal, stores, last)
  IN [s \in stores |-> IF share[s] > subtotal[s] THEN subtotal[s] ELSE share[s]]
=============================================================================
