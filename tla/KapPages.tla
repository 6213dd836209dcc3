-------------------------------- MODULE KapPages --------------------------------
(***************************************************************************)
(* What is read from a KAP page (ingestion/kap/public_adapter.py,          *)
(* api_adapter.py, pdr_pdf.py, parsing/kap_insider.py).  A page is a       *)
(* record of what the parsers look for in it; each of them tries one       *)
(* source of the numbers after the other and leaves a gap where none says  *)
(* anything.                                                               *)
(***************************************************************************)
EXTENDS Integers, Sequences, FiniteSets, FiniteSetsExt, SequencesExt

CONSTANTS Pages,    \* the pages read
          NoPage,   \* None
          NoPrice, NoRatio, NoName, NoIndex

VARIABLE page  \* the page at hand, or NoPage

\* A page: `index` its own, `subject` whether it is a share transaction filing at all, `relayed`
\* by MKK, `companies` and `member` the symbols, `correction` whether the template says so,
\* `related` the index its detail block names and `links` those of the correction fields.
\* `cells` are the table's rows [day, bought, sold, before, after], each with the `wide` number
\* of its cells and the `owner` whose trade it is, which no code sees; `prose` is a sequence of sentences
\* [days, trade, average, low, high, single]; `form` is the PDF: [kind, cells, prose, party,
\* correction, signatory, role], its kind "none", "broken" or "read"; `claims` are the
\* phrases that may name who traded; `title` is what the page calls its member; `parts` are the PDFs of a
\* report, each [legible, rows] with rows [symbol, figures].

KapInit == page \in Pages

-------------------------------------------------------------------------------
\* Rows.

Distinct(s) == FoldLeft(LAMBDA acc, c : IF Contains(acc, c) THEN acc ELSE Append(acc, c), <<>>, s)

Side(c, side, nominal) ==
    IF nominal = 0 THEN <<>>
    ELSE <<[day |-> c.day, side |-> side, nominal |-> nominal, before |-> c.before, after |-> c.after, owner |-> c.owner]>>

\* The Turkish and the English copy of the table are one; a day gives a purchase, a sale or both.
Sides(cells) == FlattenSeq([k \in DOMAIN cells |-> Side(cells[k], "ALIS", cells[k].bought) \o Side(cells[k], "SATIS", cells[k].sold)])

OfWidth(cells, n) == SelectSeq(cells, LAMBDA c : c.wide >= n)

TableRows(p) == Sides(Distinct(OfWidth(p.cells, 4)))

\* Mutant: any sale of the day is enough of a counterparty.
TwoPartyByDay(rows) == FALSE

\* A purchase and a sale of one nominal on one day that leave different ratios have two owners.
TwoPartyTable(rows) ==
    \E b, s \in ToSet(rows) :
        /\ b.side = "ALIS" /\ s.side = "SATIS"
        /\ b.day = s.day /\ b.nominal = s.nominal /\ b.after # s.after

OneParty(rows) == IF TwoPartyTable(rows) THEN <<>> ELSE rows

TableTransactionRows(p) == OneParty(Sides(Distinct(OfWidth(p.cells, 10))))

\* rows_from_prose: the trades its sentences tell; the ratios are the filing's.
ProseRows(prose) ==
    LET telling == SelectSeq(prose, LAMBDA s : s.trade # <<>>)
    IN  [k \in DOMAIN telling |-> telling[k].trade[1]]

\* The prose of the page, or of its PDF when the page has none: (rows, the text searched so far).
ReadableForm(p) == p.form.kind = "read"
ProseOrForm(p) ==
    IF ProseRows(p.prose) # <<>> \/ ~ReadableForm(p) THEN p.prose ELSE p.prose \o p.form.prose

-------------------------------------------------------------------------------
\* Corrections.

\* related_disclosure_index: the index the detail names, unless it is the page's own, else the
\* first link of a correction field that is not.
Related(p) ==
    LET others == SelectSeq(p.links, LAMBDA x : x # p.index)
    IN  IF p.related \notin {NoIndex, p.index} THEN p.related
        ELSE IF others # <<>> THEN others[1] ELSE NoIndex

Amends(p, correction) == IF correction THEN Related(p) ELSE NoIndex

-------------------------------------------------------------------------------
\* Prices.  The first of each kind that a text states.

FirstIn(texts, Of(_)) ==
    LET s == SelectSeq(texts, LAMBDA x : Of(x) # NoPrice) IN IF s = <<>> THEN NoPrice ELSE Of(s[1])

AverageIn(texts) == FirstIn(texts, LAMBDA x : x.average)
SingleIn(texts) == FirstIn(texts, LAMBDA x : x.single)
RangeIn(texts) ==
    LET s == SelectSeq(texts, LAMBDA x : x.low # NoPrice)
    IN  IF s = <<>> THEN <<NoPrice, NoPrice>> ELSE <<s[1].low, s[1].high>>

Stated(price, low, high) == [price |-> price, low |-> low, high |-> high]

\* prices_in: the average, else one price when no range is stated, else the range; never a midpoint.
PricesOf(price, range) ==
    IF price = NoPrice /\ range[1] # NoPrice /\ range[1] = range[2]
    THEN Stated(range[1], NoPrice, NoPrice)
    ELSE Stated(price, range[1], range[2])

PriceIn(texts, range, average) ==
    IF average # NoPrice THEN average ELSE IF range[1] = NoPrice THEN SingleIn(texts) ELSE NoPrice

PricesWith(texts, range) == PricesOf(PriceIn(texts, range, AverageIn(texts)), range)

PricesIn(texts) == PricesWith(texts, RangeIn(texts))

\* Mutant: a day no sentence names takes its price from the whole prose.
SourceOfAny(prose, rows, day) ==
    LET naming == SelectSeq(prose, LAMBDA s : day \in s.days)
    IN  IF naming # <<>> THEN naming ELSE prose

\* _price_rows: the sentences that name the day, or the whole prose of a filing about one day.
SourceOf(prose, rows, day) ==
    LET naming == SelectSeq(prose, LAMBDA s : day \in s.days)
    IN  IF naming # <<>> THEN naming
        ELSE IF Cardinality({r.day : r \in ToSet(rows)}) = 1 THEN prose ELSE <<>>

Priced(rows, prose) ==
    [k \in DOMAIN rows |-> [row |-> rows[k], stated |-> PricesIn(SourceOf(prose, rows, rows[k].day))]]

-------------------------------------------------------------------------------
\* Who traded.  A claim is a phrase: "letter", "by", "holder" or "self", the classes of the words before it
\* ("name", "legal", "joiner", "low", or the title they make) and what it introduces ("trade" or "rule").

InName(words, k) == words[k] \in {"name", "legal"} \/ (words[k] = "joiner" /\ k < Len(words))

\* _name_before: the words that end the phrase and can be of a name, without leading joiners.
WithoutJoiners(words, from) ==
    SubSeq(words, Min({k \in from .. Len(words) + 1 : k > Len(words) \/ words[k] # "joiner"}), Len(words))

NameBefore(words) ==
    WithoutJoiners(words, Min({k \in 1 .. Len(words) + 1 : \A j \in k .. Len(words) : InName(words, j)}))

\* _role_lead: the relationship words before the name.
Titles == {"director", "officer", "shareholder"}
Lead(words) == SelectSeq(SubSeq(words, 1, Len(words) - Len(NameBefore(words))), LAMBDA c : c \in Titles)

Named(claims) == SelectSeq(claims, LAMBDA c : NameBefore(c.words) # <<>>)

\* The first phrase of a kind, when it names somebody; of several "tarafindan" the first that
\* introduces a trade and names no regulator.
FirstNamed(p, kind) ==
    LET found == SelectSeq(p.claims, LAMBDA c : c.kind = kind)
    IN  IF found = <<>> THEN <<>> ELSE Named(<<found[1]>>)
By(p) == Named(SelectSeq(p.claims, LAMBDA c : c.kind = "by" /\ c.what = "trade" /\ ~c.regulator))

Party(who, words, itself) == [who |-> who, role |-> words, itself |-> itself]

\* party_from_prose: a quoted letter, "tarafindan", a shareholder, then the company itself.
PartyOf(p, writer, holder) ==
    IF writer # <<>> THEN Party(writer[1].who, Lead(writer[1].words), FALSE)
    ELSE IF holder # <<>> THEN Party(holder[1].who, <<"shareholder">>, FALSE)
    ELSE Party(NoName, <<>>, \E c \in ToSet(p.claims) : c.kind = "self")

PartyFromProse(p) == PartyOf(p, FirstNamed(p, "letter") \o By(p), FirstNamed(p, "holder"))

\* party_kind: a fund word, then a legal form or a signatory, then the words of a person.
PartyKind(who, signatory) ==
    IF who.fund THEN "fund"
    ELSE IF signatory \/ who.legal THEN "company"
    ELSE IF who.words \in 2 .. 5 THEN "person" ELSE "other"

-------------------------------------------------------------------------------
\* Pages.

\* parse_detail_page: the table, else the prose, else the PDF, else what the model makes of it all.
DetailOf(p, rows, texts) ==
    IF ~p.subject \/ p.companies = <<>> \/ rows = <<>> THEN NoPage
    ELSE [symbol |-> p.companies[1], rows |-> rows, price |-> AverageIn(texts),
          amends |-> Amends(p, p.correction), before |-> rows[1].before, after |-> Last(rows).after]

RowsOr(rows, answer) == IF rows # <<>> THEN rows ELSE answer

DetailWith(p, table, texts) == DetailOf(p, RowsOr(table, RowsOr(ProseRows(texts), p.answer)), texts)

DetailFrom(p, table) == DetailWith(p, table, IF table # <<>> THEN p.prose ELSE ProseOrForm(p))

ParseDetailPage(p) == DetailFrom(p, TableRows(p))

\* rows_from_data: the items of one context are a row; the English ones say the same again.
DataRows(p) == Sides(SelectSeq(p.data, LAMBDA c : ~c.english))

\* _transaction of the API adapter: structured data, else the table of its HTML, else the prose; the
\* ratio before is the first that is stated, the ratio after the last.
ApiOf(p, rows, before, after) ==
    IF ~p.subject \/ p.companies = <<>> \/ rows = <<>> THEN NoPage
    ELSE [symbol |-> p.companies[1], rows |-> rows, price |-> NoPrice,
          amends |-> IF p.correction THEN p.related ELSE NoIndex,
          before |-> IF before = <<>> THEN NoRatio ELSE before[1].before,
          after |-> IF after = <<>> THEN NoRatio ELSE Last(after).after]

ApiWith(p, rows) ==
    ApiOf(p, rows, SelectSeq(rows, LAMBDA r : r.before # NoRatio), SelectSeq(rows, LAMBDA r : r.after # NoRatio))

ParseApiDetail(p) == ApiWith(p, RowsOr(DataRows(p), RowsOr(TableRows(p), ProseRows(p.prose))))

\* The SPK form MKK relays, when its PDF can be read; a gap otherwise.
RelayedPage(p) ==
    IF ReadableForm(p)
    THEN [rows |-> Sides(p.form.cells), prose |-> p.form.prose,
          party |-> Party(IF p.sender # NoName THEN p.sender ELSE p.form.party, p.form.role, FALSE),
          signatory |-> p.form.signatory, correction |-> p.form.correction]
    ELSE [rows |-> <<>>, prose |-> <<>>, party |-> Party(p.sender, <<>>, FALSE), signatory |-> FALSE, correction |-> FALSE]

\* The issuer's own page.
Oneself(p, said) == IF said.itself THEN [said EXCEPT !.who = p.title] ELSE said

OwnPage(p) ==
    [rows |-> RowsOr(TableTransactionRows(p), ProseRows(p.prose)), prose |-> p.prose,
     party |-> Oneself(p, PartyFromProse(p)), signatory |-> FALSE, correction |-> p.correction]

\* parse_insider_page; a company's role text is its signatory's job when MKK relays it.
IsOwn(p) == p.companies # <<>> /\ p.companies[1] = p.member

InsiderPageOf(p, q, who, kind) ==
    [symbol |-> IF p.companies # <<>> THEN p.companies[1] ELSE p.member,
     rows |-> Priced(q.rows, q.prose), party |-> who, kind |-> kind,
     issuer |-> ~p.relayed /\ IsOwn(p) /\ (q.party.itself \/ who = p.title),
     role |-> IF p.relayed /\ kind = "company" THEN <<>> ELSE q.party.role,
     amends |-> Amends(p, q.correction),
     stake |-> IF q.rows = <<>> THEN NoRatio ELSE Last(q.rows).after]

KindOf(who, signatory) == IF who = NoName THEN NoName ELSE PartyKind(who, signatory)

InsiderPage(p, q) == InsiderPageOf(p, q, q.party.who, KindOf(q.party.who, q.signatory))

ParseInsiderPage(p) ==
    IF p.subject THEN InsiderPage(p, IF p.relayed THEN RelayedPage(p) ELSE OwnPage(p)) ELSE NoPage

\* roles_of: what the title says, and a shareholder from five per cent on.
Threshold == 5
Said(q) ==
    {q.role[k] : k \in DOMAIN q.role} \union (IF q.stake # NoRatio /\ q.stake >= Threshold THEN {"shareholder"} ELSE {})
RolesOf(q) == IF q.issuer THEN {"issuer"} ELSE IF Said(q) = {} THEN {"other"} ELSE Said(q)

\* parse_insider_filing: a page whose party, numbers or symbol are missing fails.
ParseInsiderFiling(q) ==
    IF q = NoPage \/ q.party = NoName \/ q.rows = <<>> \/ q.symbol = NoName THEN NoPage
    ELSE [symbol |-> q.symbol, party |-> q.party, roles |-> RolesOf(q), rows |-> q.rows, amends |-> q.amends]

-------------------------------------------------------------------------------
\* Portfolio reports.

Off(a, b) == IF a > b THEN a - b ELSE b - a

\* A row of the equity block: its price, its value, and the first of the other figures that
\* multiplies with the price to the value, two per cent more or less.
FirstFit(price, value, others) ==
    LET fits == SelectSeq(others, LAMBDA n : price # 0 /\ value > 0 /\ 50 * Off(n * price, value) <= value)
    IN  IF fits = <<>> THEN 0 ELSE fits[1]

QuantityOf(figures) == FirstFit(figures[1], figures[2], SubSeq(figures, 3, Len(figures)))

HoldingsOf(part) ==
    LET equities == SelectSeq(part, LAMBDA h : Len(h.figures) >= 3 /\ QuantityOf(h.figures) # 0)
    IN  [k \in DOMAIN equities |-> [symbol |-> equities[k].symbol, quantity |-> QuantityOf(equities[k].figures)]]

\* parse_pdr_pdf raises for a scan, for a page without code or period and for one without equities.
Readable(part) == part.legible /\ HoldingsOf(part.rows) # <<>>

\* merge_reports: a later part adds the symbols not yet there.
Merged(parts) ==
    LET Add(acc, h) == IF \E g \in ToSet(acc) : g.symbol = h.symbol THEN acc ELSE Append(acc, h)
    IN  FoldLeft(Add, HoldingsOf(parts[1].rows), FlattenSeq([k \in 1 .. Len(parts) - 1 |-> HoldingsOf(parts[k + 1].rows)]))

\* Of the first `most` attachments those that can be read.
MergedIfAny(parts) == IF parts = <<>> THEN <<>> ELSE Merged(parts)

ReportOf(p, most) == MergedIfAny(SelectSeq(SubSeq(p.parts, 1, Min({most, Len(p.parts)})), Readable))

\* fetch_report of the website and _report of the API.
WebReport(p) == ReportOf(p, 4)
ApiReport(p) == ReportOf(p, 3)

-------------------------------------------------------------------------------
OneOwner(q) ==
    \A a, b \in {q.rows[k].row : k \in DOMAIN q.rows} :
        a.owner # b.owner => \A c, d \in {a, b} : c.side # d.side => c.day # d.day \/ c.after = d.after

Says(s, stated) ==
    \/ stated.price \in {s.average, s.single} \union (IF s.low = s.high THEN {s.low} ELSE {})
    \/ stated.price = NoPrice

OwnPrices(p, q) ==
    LET prose == IF p.relayed THEN p.form.prose ELSE p.prose
    IN  \A k \in DOMAIN q.rows :
          \/ q.rows[k].stated = Stated(NoPrice, NoPrice, NoPrice)
          \/ \E s \in ToSet(prose) : q.rows[k].row.day \in s.days /\ Says(s, q.rows[k].stated)
          \/ \A j \in DOMAIN q.rows : q.rows[j].row.day = q.rows[k].row.day

\* A page of a person is read as it was filed: the rows are one owner's, or the owners' rows cannot
\* be told apart by their ratios; a row's price is stated where its day is named, or nowhere is
\* another day's; and a correction amends another page.
\* The website's page and the API's detail of one filing tell the same trades, whether from the
\* structured data, the table or the prose, and the same holdings of a report of up to three
\* parts; a part adds to the ones before it what they do not hold.
Symbols(holdings) == {h.symbol : h \in ToSet(holdings)}

FilingAsFiled(q) == q # NoPage => OneOwner(q) /\ OwnPrices(page, q) /\ q.amends # page.index

DetailsAgree(a, d) == a # NoPage => d # NoPage /\ d.rows = a.rows

ReportsAgree(all) ==
    /\ Symbols(all) = UNION {Symbols(HoldingsOf(page.parts[k].rows)) : k \in {k \in DOMAIN page.parts : page.parts[k].legible}}
    /\ IsInjective([k \in DOMAIN all |-> all[k].symbol])
    /\ ApiReport(page) = all

ReadAsFiled ==
    page # NoPage =>
        /\ FilingAsFiled(ParseInsiderFiling(ParseInsiderPage(page)))
        /\ DetailsAgree(ParseApiDetail(page), ParseDetailPage(page))
        /\ ReportsAgree(WebReport(page))

=============================================================================
