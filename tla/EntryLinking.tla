---------------------------- MODULE EntryLinking ----------------------------
(***************************************************************************)
(* The entry graph (processing/linker.ts): what linking a document makes   *)
(* of the business records it names.  A 7501 owns its entry; invoices,     *)
(* shipments and purchase orders own their rows, which others may create   *)
(* as stubs; releases, sheets, packing lists and refund reports attach to  *)
(* what exists; a part picks up the entry lines that declare its SKU.      *)
(*                                                                         *)
(* Linking is one READ COMMITTED transaction: MatchDocument looks up what  *)
(* exists, CommitLink writes.  processDocumentRow persists the extraction  *)
(* afterwards, in a statement of its own (PersistExtraction).              *)
(***************************************************************************)
EXTENDS Integers, FiniteSets

CONSTANTS
  Documents,   \* documents, and requests that create a part
  Content,     \* what each of them says: kind, number, bols, orders, invoices, sku, packet
  Numbers,     \* entry numbers as printed
  Digits,      \* normalizeEntryNumber
  Bols,        \* bills of lading as printed
  BolKey,      \* normalizeBol
  Nothing,     \* no line, no sheet, no number
  MaxReruns,   \* bound: documents processed again
  MaxAtOnce,   \* bound: documents in process at a time
  MaxArrivals  \* bound: arrivals and documents processed again, together

Kinds == {"port_entry", "cargo_release", "tariff_code_sheet", "commercial_invoice", "shipment",
          "packing_list", "refund_report", "purchase_order", "quote_sheet", "new_part"}

\* An invoice prints one number; a quote line or a request without a SKU makes no
\* part.
ASSUME ContentAssumption == \A d \in Documents : LET c == Content[d] IN
  /\ c.kind \in Kinds /\ c.bols \subseteq Bols
  /\ c.kind \in {"port_entry", "cargo_release", "tariff_code_sheet", "refund_report"}
       => c.number \in Numbers
  /\ c.kind = "commercial_invoice" => \E i \in c.invoices : c.invoices = {i}
  /\ c.kind \in {"quote_sheet", "new_part"} => c.sku # Nothing
ASSUME LinkBoundsAssumption == {MaxReruns, MaxAtOnce, MaxArrivals} \subseteq Nat

VARIABLES
  graph,      \* the tables: rows, edges, links, line, sheet, filled
  extracted,  \* documents whose extracted_data is stored
  work,       \* documents: where their processing is and what it has read
  audited,    \* the facts an entry's alerts were computed from
  overlapped, \* ghost: pairs of them that have been in process at the same time
  reruns      \* bound counter

linkVars == <<graph, extracted, work, audited, overlapped, reruns>>

-----------------------------------------------------------------------------
(* The tables.                                                             *)

Entry(n) == <<"entry", n>>
Shipment(b) == <<"shipment", b>>
Order(p) == <<"order", p>>
Invoice(i) == <<"invoice", i>>
Claim(n) == <<"claim", n>>
Part(k) == <<"part", k>>

Is(x, type) == x[1] = type

\* Every row a document can name.
Entities == UNION {
  {Entry(n) : n \in Numbers}, {Claim(n) : n \in Numbers}, {Shipment(b) : b \in Bols},
  UNION {{Order(p) : p \in Content[d].orders} : d \in Documents},
  UNION {{Invoice(i) : i \in Content[d].invoices} : d \in Documents},
  {Part(Content[d].sku) : d \in Documents}}

\* filled: shipments with sailing dates and invoices with lines.
TablesOK(g) ==
  /\ g.rows \subseteq Entities
  /\ g.edges \subseteq g.rows \X g.rows
  /\ g.links \subseteq Documents \X g.rows
  /\ \A n \in Numbers : g.sheet[n] \in Documents \cup {Nothing}
  /\ \A n \in Numbers : g.line[n] # Nothing => Entry(n) \in g.rows
  /\ g.filled \subseteq g.rows

LinkTypeOK ==
  /\ TablesOK(graph)
  /\ extracted \subseteq Documents
  /\ \A d \in Documents :
       work[d].pc \in {"registered", "matched", "linked", "processed", "failed"}
  /\ DOMAIN audited = Numbers /\ overlapped \subseteq SUBSET Documents /\ reruns \in 0..MaxReruns

Resting(d) == work[d].pc \in {"registered", "processed", "failed"}
Arrived == {d \in Documents : work[d].pc # "registered"}
InProcess == {d \in Documents : ~Resting(d)}

\* What the audit of an entry reads: its line and the linked part, its
\* invoices with their lines, its shipments with their dates.
Facts(g, n) ==
  LET near == {e[2] : e \in {f \in g.edges : f[1] = Entry(n)}} IN
  [line |-> g.line[n], part |-> {x \in near : Is(x, "part")}, known |-> near \cap g.filled]

LinkInit ==
  /\ graph = [rows |-> {}, edges |-> {}, links |-> {}, filled |-> {},
              line |-> [n \in Numbers |-> Nothing], sheet |-> [n \in Numbers |-> Nothing]]
  /\ extracted = {}
  /\ work = [d \in Documents |-> [pc |-> "registered"]]
  /\ audited = [n \in Numbers |-> Nothing]
  /\ overlapped = {} /\ reruns = 0

-----------------------------------------------------------------------------
(* What a document finds.                                                  *)

\* Mutant: bills of lading are compared as printed.
SameBolPrinted(a, b) == a = b

SameBol(a, b) == BolKey[a] = BolKey[b]

\* findShipmentByBol, findOrCreateShipmentByBol: by the normalized number, the
\* row keeps the print it was created with. Of two prints in d of one number the
\* second finds the row of the first.
ShipmentFor(g, d, b) ==
  LET found == {x \in g.rows : Is(x, "shipment") /\ SameBol(x[2], b)}
  IN IF found = {} THEN Shipment(CHOOSE a \in Content[d].bols : BolKey[a] = BolKey[b])
     ELSE CHOOSE x \in found : TRUE

\* Mutant: the number is taken for the entry's without looking it up.
EntryForNumber(g, number) == {Entry(number)}

\* The entry a release, a sheet or a claim names, by its digits.
EntryFor(g, number) ==
  LET found == {x \in g.rows : Is(x, "entry") /\ Digits[x[2]] = Digits[number]}
  IN IF found = {} THEN {} ELSE {CHOOSE x \in found : TRUE}

\* Entities of a type that other parts of the same packet link to.
Siblings(g, d, type) ==
  {l[2] : l \in {m \in g.links : /\ m[1] # d /\ Is(m[2], type)
                                 /\ Content[d].packet # Nothing
                                 /\ Content[m[1]].packet = Content[d].packet}}

\* Releases and sheets of a 7501's number with an extraction on file.
Strays(stored, d, kind) ==
  {x \in stored \ {d} : /\ Content[x].kind = kind
                        /\ Digits[Content[x].number] = Digits[Content[d].number]}

\* Mutant: an invoice ignores the entries that already link to it.
TouchedBySiblings(g, d) == Siblings(g, d, "entry")

\* The entries of an invoice: those of its packet and those that link to it
\* already; only when there are none, those that share one of its orders.
Touched(g, d) ==
  LET direct == Siblings(g, d, "entry") \cup
        {e[1] : e \in {f \in g.edges : \E i \in Content[d].invoices : f[2] = Invoice(i)}}
      byOrder == {e[1] : e \in {f \in g.edges : Is(f[1], "entry") /\ 
                                  \E p \in Content[d].orders : f[2] = Order(p)}}
  IN IF direct = {} THEN byOrder ELSE direct

\* What one case of linkExtraction finds or creates, what it attaches to, and
\* the pairs it inserts in the join tables (the link of a line to its part among
\* them).
Effects(creates, attaches, joins) == [creates |-> creates, attaches |-> attaches, joins |-> joins]

Shipments(g, d) == {ShipmentFor(g, d, b) : b \in Content[d].bols}
Orders(d) == {Order(p) : p \in Content[d].orders}
Invoices(d) == {Invoice(i) : i \in Content[d].invoices}

PortEntry(g, d) ==
  LET entry == Entry(Content[d].number)
      near == Shipments(g, d) \cup Orders(d) \cup Invoices(d)
      siblings == Siblings(g, d, "invoice")
      known == {Part(Content[d].sku)} \cap g.rows
  IN Effects({entry} \cup near, siblings, {entry} \X (near \cup siblings \cup known))

CargoRelease(g, d) ==
  Effects({}, EntryFor(g, Content[d].number) \cup (Shipments(g, d) \cap g.rows), {})

TariffCodeSheet(g, d) == Effects({}, EntryFor(g, Content[d].number), {})

RefundReport(g, d) ==
  LET claim == {Claim(Content[d].number)}
      entry == EntryFor(g, Content[d].number)
  IN Effects(claim, entry, entry \X claim)

ShipmentPapers(g, d) ==
  Effects(Shipments(g, d) \cup Orders(d), {}, Shipments(g, d) \X Orders(d))

PurchaseOrder(g, d) == Effects(Orders(d), {}, {})

CommercialInvoice(g, d) ==
  Effects(Orders(d) \cup Invoices(d), Touched(g, d), Touched(g, d) \X Invoices(d))

\* The number is compared as printed.
PackingList(g, d) == Effects({}, {Shipment(b) : b \in Content[d].bols} \cap g.rows, {})

\* The entries whose lines a newly created part picks up.
Adopted(g, d) ==
  LET k == Content[d].sku IN
  IF Content[d].kind \in {"quote_sheet", "new_part"} /\ Part(k) \notin g.rows
  THEN {Entry(n) : n \in {m \in Numbers : g.line[m] = k}} ELSE {}

\* A quote sheet creates the part it quotes if it is not there, a request only
\* then.
QuotedPart(g, d) == Effects({Part(Content[d].sku)}, {}, Adopted(g, d) \X {Part(Content[d].sku)})

LinkEffects(g, d) ==
  LET kind == Content[d].kind IN
  CASE kind = "port_entry" -> PortEntry(g, d)
    [] kind = "cargo_release" -> CargoRelease(g, d)
    [] kind = "tariff_code_sheet" -> TariffCodeSheet(g, d)
    [] kind = "refund_report" -> RefundReport(g, d)
    [] kind = "shipment" -> ShipmentPapers(g, d)
    [] kind = "purchase_order" -> PurchaseOrder(g, d)
    [] kind = "commercial_invoice" -> CommercialInvoice(g, d)
    [] kind = "packing_list" -> PackingList(g, d)
    [] OTHER -> QuotedPart(g, d)

-----------------------------------------------------------------------------
(* Processing.                                                             *)

MatchDocument(d) ==
  /\ Resting(d)
  /\ IF work[d].pc = "registered"
     THEN UNCHANGED reruns
     ELSE Content[d].kind # "new_part" /\ reruns < MaxReruns /\ reruns' = reruns + 1
  /\ Cardinality(Arrived) + reruns < MaxArrivals
  /\ Content[d].kind = "new_part" => Part(Content[d].sku) \notin graph.rows
  /\ work' = [work EXCEPT ![d] = [pc |-> "matched", saw |-> graph, stored |-> extracted]]
  /\ Cardinality(InProcess) < MaxAtOnce
  /\ overlapped' = overlapped \cup {{d, x} : x \in InProcess}
  /\ UNCHANGED <<graph, extracted, audited>>

\* The entries whose audit the transaction runs last, on what it has written.
Reaudited(g, saw, d) ==
  LET c == Content[d]
      arrived == Shipments(saw, d) \ saw.filled
  IN CASE c.kind = "port_entry" -> {Entry(c.number)}
       [] c.kind = "commercial_invoice" -> Touched(saw, d)
       [] c.kind = "shipment" ->
            {e[1] : e \in {f \in g.edges : Is(f[1], "entry") /\ f[2] \in arrived}}
       [] OTHER -> Adopted(saw, d)

\* The tables after the transaction: a 7501 replaces its lines, adopts strays
\* and takes the rows of the last stray sheet, in no particular order.
LinkedGraph(g, saw, stored, d, sheet) ==
  LET c == Content[d]
      filing == c.kind = "port_entry"
      made == LinkEffects(saw, d)
      replaced == {e \in g.edges : filing /\ e[1] = Entry(c.number) /\ Is(e[2], "part")}
      strays == Strays(stored, d, "cargo_release") \cup Strays(stored, d, "tariff_code_sheet")
      adopted == IF filing THEN strays \X {Entry(c.number)} ELSE {}
      mine == IF c.kind = "new_part" THEN {} ELSE {d} \X (made.creates \cup made.attaches)
      own == IF c.kind = "commercial_invoice" THEN Invoices(d)
             ELSE IF c.kind = "shipment" THEN Shipments(saw, d) ELSE {}
      sheeted(n) == IF filing /\ n = c.number THEN sheet
                    ELSE IF c.kind = "tariff_code_sheet" /\ Entry(n) \in made.attaches THEN d
                    ELSE g.sheet[n]
  IN [rows |-> g.rows \cup made.creates,
      edges |-> (g.edges \ replaced) \cup made.joins,
      links |-> g.links \cup mine \cup adopted,
      filled |-> g.filled \cup own,
      line |-> [n \in Numbers |-> IF filing /\ n = c.number THEN c.sku ELSE g.line[n]],
      sheet |-> [n \in Numbers |-> sheeted(n)]]

\* The sheets whose rows a 7501 may end up with.
LastSheets(stored, d) ==
  LET strays == Strays(stored, d, "tariff_code_sheet") IN
  IF Content[d].kind # "port_entry" THEN {Nothing}
  ELSE IF strays = {} THEN {graph.sheet[Content[d].number]} ELSE strays

\* A row that somebody else has created meanwhile fails the transaction: every
\* business number has a unique index.
CommitLink(d) ==
  LET saw == work[d].saw IN
  /\ work[d].pc = "matched"
  /\ (LinkEffects(saw, d).creates \ saw.rows) \cap graph.rows = {}
  /\ \E sheet \in LastSheets(work[d].stored, d) :
       LET after == LinkedGraph(graph, saw, work[d].stored, d, sheet) IN
       /\ graph' = after
       /\ audited' = [n \in Numbers |->
            IF Entry(n) \in Reaudited(graph, saw, d) THEN Facts(after, n) ELSE audited[n]]
  /\ work' = [work EXCEPT ![d] =
       [pc |-> IF Content[d].kind = "new_part" THEN "processed" ELSE "linked"]]
  /\ UNCHANGED <<extracted, overlapped, reruns>>

PersistExtraction(d) ==
  /\ work[d].pc = "linked"
  /\ extracted' = extracted \cup {d}
  /\ work' = [work EXCEPT ![d] = [pc |-> "processed"]]
  /\ UNCHANGED <<graph, audited, overlapped, reruns>>

\* A statement throws: the transaction rolls back, or the document is linked
\* and marked failed without its extraction.
FailDocument(d) ==
  /\ ~Resting(d)
  /\ work' = [work EXCEPT ![d] = [pc |-> "failed"]]
  /\ UNCHANGED <<graph, extracted, audited, overlapped, reruns>>

LinkNext == \E d \in Documents :
  MatchDocument(d) \/ CommitLink(d) \/ PersistExtraction(d) \/ FailDocument(d)

LinkSpec == LinkInit /\ [][LinkNext]_linkVars

-----------------------------------------------------------------------------
(* Properties.                                                             *)

Done(kind) == {d \in Documents : Content[d].kind = kind /\ work[d].pc = "processed"}

SameEntry(x, y) == Digits[Content[x].number] = Digits[Content[y].number]

\* The 7501 names the invoice, or came in the same packet.
Direct(x, y) ==
  \/ Content[x].invoices \cap Content[y].invoices # {}
  \/ Content[x].packet # Nothing /\ Content[x].packet = Content[y].packet

Adopts(x, y) == <<y, Entry(Content[x].number)>> \in graph.links

\* A release or a sheet that has been processed, and its 7501, are linked:
\* "one that processes before its 7501 stays unlinked until the 7501's
\* stray-adoption pass picks it up".
StraysAdopted ==
  \A x \in Done("port_entry"), y \in Done("cargo_release") \cup Done("tariff_code_sheet") :
    SameEntry(x, y) => Adopts(x, y)

\* What a 7501 and an invoice, a shipment or a part owe each other.
Docked(x, y) ==
  LET near == {f[2] : f \in {g \in graph.edges : g[1] = Entry(Content[x].number)}} IN
  CASE Content[y].kind \in {"cargo_release", "tariff_code_sheet"} ->
         SameEntry(x, y) => Adopts(x, y)
    [] Content[y].kind = "commercial_invoice" ->
         Direct(x, y) => {Invoice(i) : i \in Content[y].invoices} \subseteq near \cap graph.filled
    [] Content[y].kind = "shipment" ->
         \A a \in Content[x].bols, b \in Content[y].bols : BolKey[a] = BolKey[b] =>
           \E r \in near \cap graph.filled : Is(r, "shipment") /\ BolKey[r[2]] = BolKey[b]
    [] Content[y].kind \in {"quote_sheet", "new_part"} ->
         Content[y].sku = graph.line[Content[x].number] => Part(Content[y].sku) \in near
    [] OTHER -> TRUE

\* Documents that create the part y is about, that may create the shipment of
\* y's bill of lading, and 7501s that replace the lines x wrote.
Quoting(y) ==
  {z \in Documents : Content[z].kind \in {"quote_sheet", "new_part"}
                       /\ Content[z].sku = Content[y].sku}
Carrying(y) ==
  {z \in Documents : /\ Content[z].kind \in {"port_entry", "shipment"}
                     /\ \E a \in Content[z].bols, b \in Content[y].bols : BolKey[a] = BolKey[b]}
Refiling(x) ==
  {z \in Documents : Content[z].kind = "port_entry" /\ Content[z].number = Content[x].number}

Apart(X, Y) == \A x \in X, y \in Y : {x, y} \notin overlapped

\* Nobody who writes what x and y meet at has been in process beside another,
\* and releases and sheets can tell x's entry from its digits.
Undisturbed(x, y) ==
  CASE Content[y].kind \in {"quote_sheet", "new_part"} -> Apart(Refiling(x), Quoting(y))
    [] Content[y].kind = "shipment" -> Apart(Carrying(y), Carrying(y))
    [] Content[y].kind \in {"cargo_release", "tariff_code_sheet"} ->
         /\ Apart({x}, {y})
         /\ \A z \in Documents : Content[z].kind = "port_entry" /\ SameEntry(x, z) =>
              Content[z].number = Content[x].number
    [] OTHER -> Apart({x}, {y})

\* "The entry graph ends up identical whichever side arrived first": a 7501 and
\* a document that was not in process at the same time dock, in every order
\* of arrival, whatever else overlaps, fails or is processed again.
WhicheverCameFirst ==
  \A x \in Done("port_entry"), y \in {d \in Documents : work[d].pc = "processed"} :
    Undisturbed(x, y) => Docked(x, y)

\* A 7501 of the entry and an invoice have been in process at the same time.
Raced(n) ==
  \E x, y \in Documents :
    /\ Content[x].kind = "port_entry" /\ Content[x].number = n
    /\ Content[y].kind = "commercial_invoice" /\ {x, y} \in overlapped

\* Every transaction that changes what the audit of an entry reads audits it
\* last: the alerts are those of the entry's facts, whatever overlaps, unless
\* its 7501 linked an invoice while that invoice was being read.
AlertsOfFacts ==
  \A n \in Numbers :
    Entry(n) \in graph.rows => Raced(n) \/ audited[n] = Facts(graph, n)

Filed == {x \in Documents : Content[x].kind = "port_entry" /\ Adopts(x, x)}

\* "PO-derived inference must not pollute direct links": an invoice that some
\* 7501 links directly is linked to no entry by a shared order only.
InferenceYields ==
  \A y \in Done("commercial_invoice") : (\E x \in Filed : Direct(x, y)) =>
    \A e \in graph.edges : e[2] \in {Invoice(i) : i \in Content[y].invoices} =>
      \E x \in Filed : Direct(x, y) /\ e[1] = Entry(Content[x].number)
=============================================================================
