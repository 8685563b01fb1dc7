------------------------------ MODULE MCServices ------------------------------
(***************************************************************************)
(* The services that share no table with one another: the base schedule,   *)
(* the entry graph, the alerts, a conversation.  A behaviour runs one of   *)
(* them while the others stay at their start; as they have no variable in  *)
(* common, that reaches every state of each.                               *)
(***************************************************************************)
EXTENDS BaseRelease, EntryLinking, EntryAudit, AgentTurn, TLC

VARIABLE running

servicesVars == <<running, baseVars, linkVars, auditVars, turnVars>>

\* Documents of the entry graph: a 7501 that names one invoice and came in one
\* packet with another, and a second one of the same order; a third that files
\* the first again and prints its bill of lading twice; a release, a sheet and a
\* refund report that print the first one's number in their way; shipment
\* papers that print its bill of lading in theirs; two requests that create one
\* part.
CONSTANTS e1, e2, e3, r1, t1, i1, i2, s1, q1, q2, l1, c1, n1, n2, n1x, bol, bolx, inv, inv2, po, sku, packet

Says(kind, number, bols, orders, invoices, part, from) ==
  [kind |-> kind, number |-> number, bols |-> bols, orders |-> orders,
   invoices |-> invoices, sku |-> part, packet |-> from]

MCContent == [d \in Documents |->
  CASE d = e1 -> Says("port_entry", n1, {bol}, {po}, {inv}, sku, packet)
    [] d = e2 -> Says("port_entry", n2, {}, {po}, {}, sku, Nothing)
    [] d = e3 -> Says("port_entry", n1, {bol, bolx}, {}, {}, Nothing, Nothing)
    [] d = r1 -> Says("cargo_release", n1x, {bolx}, {}, {}, Nothing, Nothing)
    [] d = t1 -> Says("tariff_code_sheet", n1x, {}, {}, {}, Nothing, Nothing)
    [] d = i1 -> Says("commercial_invoice", Nothing, {}, {po}, {inv}, Nothing, Nothing)
    [] d = i2 -> Says("commercial_invoice", Nothing, {}, {}, {inv2}, Nothing, packet)
    [] d = s1 -> Says("shipment", Nothing, {bolx}, {po}, {}, Nothing, Nothing)
    [] d = q1 -> Says("new_part", Nothing, {}, {}, {}, sku, Nothing)
    [] d = q2 -> Says("quote_sheet", Nothing, {}, {}, {}, sku, Nothing)
    [] d = l1 -> Says("packing_list", Nothing, {bol}, {}, {}, Nothing, Nothing)
    [] d = c1 -> Says("refund_report", n1x, {}, {}, {}, Nothing, Nothing)]

MCDigits == [n \in Numbers |-> IF n = n2 THEN 2 ELSE 1]
MCBolKey == [b \in Bols |-> 1]

\* An alert that the tariff, the filing and the catalog can each raise, change
\* and clear.
CONSTANTS f1, f2, k1, k2, v1, v2, text1, text2

MCRaises == [x \in Filings \X Catalogs \X References |->
  IF x[1] = f1 /\ x[2] = k1 THEN (IF x[3] = v1 THEN text1 ELSE text2)
  ELSE IF x = <<f2, k2, v2>> THEN text2 ELSE NoText]

ServicesInit ==
  /\ running \in {"base", "links", "alerts", "chat"}
  /\ BaseInit /\ LinkInit /\ AuditInit /\ TurnInit
  /\ running # "base" => windows = {}
  /\ running # "alerts" => /\ filing = [e \in Audited |-> f1]
                           /\ catalog = [e \in Audited |-> k1] /\ reference = v1

ServicesNext ==
  \/ running = "base" /\ BaseNext /\ UNCHANGED <<running, linkVars, auditVars, turnVars>>
  \/ running = "links" /\ LinkNext /\ UNCHANGED <<running, baseVars, auditVars, turnVars>>
  \/ running = "alerts" /\ AuditNext /\ UNCHANGED <<running, baseVars, linkVars, turnVars>>
  \/ running = "chat" /\ TurnNext /\ UNCHANGED <<running, baseVars, linkVars, auditVars>>

ServicesSpec == ServicesInit /\ [][ServicesNext]_servicesVars

\* Every table and every process of the four stays in its type, checked where
\* its component runs.
ServicesTypeOK ==
  /\ running = "base" => BaseTypeOK
  /\ running = "links" => LinkTypeOK
  /\ running = "alerts" => AuditTypeOK
  /\ running = "chat" => TurnTypeOK

CONSTANTS u1, u2, u3, call1, call2

CONSTANTS codeA, codeB, lo, hi, d1, d2

Symmetry == Permutations({codeA, codeB}) \cup Permutations({lo, hi}) \cup Permutations({d1, d2})
=============================================================================
