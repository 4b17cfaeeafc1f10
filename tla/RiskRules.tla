----------------------------- MODULE RiskRules ------------------------------
(***************************************************************************)
(* The system's default risk rules under patch_risk_rules, for requests    *)
(* that name no account: the others are refused (RiskMonitorPage), so      *)
(* every account reads these rules.  The row that holds them is there.  A  *)
(* change reads it without a lock, judges on what it read whether it       *)
(* loosens the rules, and writes after others may have committed theirs.   *)
(*                                                                         *)
(* Rules keep one ratio limit and one cooldown of the six fields: a change *)
(* loosens when it raises the one or lowers the other.                     *)
(***************************************************************************)
EXTENDS Integers

CONSTANTS
  RuleSets,      \* the rules that are stored first or asked for: [limit, cooldown]
  RuleChanges    \* bound on changes

VARIABLE
  db   \* the rules stored, the changes open and how many were begun, and the
       \* loosest value of each field that some operator acknowledged

Loosens(from, to) == to.limit > from.limit \/ to.cooldown < from.cooldown

\* The looser of both in each field.
Loosest(r, s) ==
  [limit |-> IF r.limit > s.limit THEN r.limit ELSE s.limit,
   cooldown |-> IF r.cooldown < s.cooldown THEN r.cooldown ELSE s.cooldown]

RulesInit ==
  \E rules \in RuleSets : db = [rules |-> rules, granted |-> rules, open |-> {}, begun |-> 0]

\* Mutant: the API trusts its client's judgement of the change.
PatchTrusted(before, rules, confirm) == TRUE

\* A change that loosens the rules it read is refused unless it is confirmed.
PatchAccepted(before, rules, confirm) == Loosens(before, rules) => confirm

BeginChange(rules, confirm) ==
  /\ db.begun < RuleChanges
  /\ PatchAccepted(db.rules, rules, confirm)
  /\ db' = [db EXCEPT !.begun = @ + 1,
                      !.open = @ \cup {[id |-> db.begun, before |-> db.rules, rules |-> rules]},
                      !.granted = IF confirm THEN Loosest(@, rules) ELSE @]

\* The UPDATE writes the fields that differ from those read, over whatever others
\* have committed since.
Merged(read, write, stored) == IF write = read THEN stored ELSE write

Written(change) ==
  [limit |-> Merged(change.before.limit, change.rules.limit, db.rules.limit),
   cooldown |-> Merged(change.before.cooldown, change.rules.cooldown, db.rules.cooldown)]

\* The change is committed, or fails and is rolled back.
EndChange(change) ==
  \E rules \in {Written(change), db.rules} :
    db' = [db EXCEPT !.rules = rules, !.open = @ \ {change}]

RulesNext ==
  \/ \E rules \in RuleSets, confirm \in BOOLEAN : BeginChange(rules, confirm)
  \/ \E change \in db.open : EndChange(change)

----------------------------------------------------------------------------
(* Properties. *)

\* No field of the stored rules is looser than where it started and than what some
\* operator acknowledged for it, however changes overlap: each is judged on rules
\* that others may replace before it is written (confirm_loosening).
RulesWithinAcknowledged == ~Loosens(db.granted, db.rules)

\* What is stored is loosened only by a change that loosens the rules it read, and was
\* therefore confirmed.  No run lists this: a change that tightens the rules it read may
\* loosen those it is written over, and TLC refutes it.
LooseningStep ==
  Loosens(db.rules, db'.rules) =>
    \E change \in db.open \ db'.open : Loosens(change.before, change.rules)
=============================================================================
