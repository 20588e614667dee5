------------------------------ MODULE Requests -------------------------------
(***************************************************************************)
(* One invoice from the JSON body of POST /invoices to the body sent to    *)
(* Viettel: the binding of the handler (dto/request.go), the columns it is *)
(* stored in, the lines as they are read back, the mapper and the local    *)
(* validation (internal/integration), while the database answers.  A text  *)
(* is its length in characters, a number the digits before its point once  *)
(* rounded to its column.  The totals and the amounts of the lines, which  *)
(* are added up, are integers in tenths of the last digit NUMERIC(18,2)    *)
(* keeps.                                                                  *)
(***************************************************************************)
EXTENDS Integers, SequencesExt

CONSTANTS
  Requests,       \* the bodies clients send
  Configs,        \* the settings the program may be started with
  MaxAmount,      \* the largest amount of NUMERIC(18,2)
  MaxLineNumber   \* the largest INT

VARIABLES
  stage,      \* how far the request has come
  request,    \* the body
  stored,     \* the lines in invoice_items, in the order of the body
  lines,      \* the lines of the last read
  wire,       \* the last body made for Viettel, NoWire before
  config      \* the length of each setting

requestVars == <<stage, request, stored, lines, wire, config>>

-----------------------------------------------------------------------------
\* The texts of CreateInvoiceRequest and ItemRequest, as their tags bind them.
TextMax ==
  [buyer_name |-> 400, buyer_legal_name |-> 400, buyer_tax_code |-> 20,
   buyer_address |-> 1200, buyer_email |-> 2000, buyer_phone |-> 15,
   buyer_code |-> 400, exchange_rate_source |-> 100, payment_method |-> 50,
   transaction_hash |-> 255, erp_order_id |-> 255, notes |-> 500,
   item_name |-> 500, item_code |-> 50, unit_code |-> 100, unit_name |-> 300,
   item_note |-> 300, batch_no |-> 300, exp_date |-> 50]

\* The numbers of both, and the digits their NUMERIC columns hold before the
\* point; token_tax_amount stands for the one of the invoice and of the line.
ColumnDigits ==
  [quantity |-> 9, discount |-> 8, discount2 |-> 8,
   unit_price |-> 16, unit_price_with_tax |-> 16,
   item_total_amount_with_tax |-> 16, item_total_amount_after_discount |-> 16,
   item_discount |-> 16, exchange_rate |-> 16, token_total_amount |-> 16,
   token_tax_amount |-> 16, token_net_amount |-> 16, token_unit_price |-> 16,
   token_line_total |-> 16]

Numbers == DOMAIN ColumnDigits
Fields == DOMAIN TextMax \cup Numbers

\* No tag bounds a number: 309 digits are what a float64 holds.
ApiMax == [f \in Fields |-> IF f \in Numbers THEN 309 ELSE TextMax[f]]

\* Required, and refused when empty or zero.
Required == {"buyer_name", "item_name", "quantity", "unit_price"}

\* What the columns hold; TEXT all that is bound.
ColumnMax ==
  [f \in Fields |-> CASE f \in Numbers         -> ColumnDigits[f]
                      [] f = "buyer_name"     -> 255
                      [] f = "buyer_tax_code" -> 50
                      [] OTHER                -> ApiMax[f]]

\* Mutated form: the limit of the buyer's code is mistyped.
ViettelMaxMistyped ==
  [f \in Fields |-> CASE f = "buyer_name" -> 100 [] f = "buyer_code" -> 40
                      [] OTHER -> ApiMax[f]]

\* The validate tags of BuyerInfo, Payment, ItemInfo and invoiceNote; what is
\* not sent, or not limited, keeps the limit of the API.
ViettelMax == [f \in Fields |-> IF f = "buyer_name" THEN 100 ELSE ApiMax[f]]

(* A request varies one field at a time: the others hold one character or  *)
(* digit.  An exchange_rate of size 0 is missing or not positive.  special *)
(* tells whether the names and values of special_info are filled in, nul   *)
(* whether a text that is stored holds the character U+0000, formed whether *)
(* the currency has three characters, selection, item_type and adjust_ratio *)
(* have one of their values and no discount is negative: those tags are the *)
(* same in the API and for Viettel.  net, tax and gross are the totals of   *)
(* the body.                                                                *)
Line == [number : Int, percent : Int, net : Int, tax : Int]
Request == [field : Fields, size : Nat, token : {"none", "VND", "other", "long"},
            special : {"none", "filled", "blank"}, nul : BOOLEAN, formed : BOOLEAN,
            lines : Seq(Line), net : Int, tax : Int, gross : Int]

ASSUME RequestAssumption == Requests \subseteq Request

Size(r, f) == IF f = r.field THEN r.size ELSE 1

\* The amounts of the lines, in the order of the lines.
Nets(ls) == [k \in 1..Len(ls) |-> ls[k].net]
Taxes(ls) == [k \in 1..Len(ls) |-> ls[k].tax]

\* The settings Viettel's limits apply to, by their validate tags.
SettingMax ==
  [template_code |-> 20, invoice_series |-> 25,
   legal_name |-> 400, tax_code |-> 20, address |-> 255, phone |-> 50,
   email |-> 50, bank_name |-> 400, bank_account |-> 30]

Settings == DOMAIN SettingMax
SellerSettings == Settings \ {"template_code", "invoice_series"}

ASSUME ConfigAssumption ==
  /\ Configs \subseteq [Settings -> Nat]
  /\ MaxAmount \in Nat /\ MaxLineNumber \in Nat

-----------------------------------------------------------------------------
\* ShouldBindJSON: an amount of zero counts as missing, except a tax;
\* special_info is not dived into, and nothing compares the totals with the
\* lines.
Binds(r) ==
  /\ r.formed
  /\ \A f \in Fields : Size(r, f) <= ApiMax[f]
  /\ \A f \in Required : Size(r, f) > 0
  /\ r.token \in {"VND", "other"}
  /\ r.net # 0 /\ r.gross # 0
  /\ r.lines # <<>>
  /\ \A k \in 1..Len(r.lines) :
       r.lines[k].net # 0 /\ r.lines[k].percent \in -2..100

\* A token other than VND comes with its exchange rate.
RateGiven(r) == r.token = "VND" \/ Size(r, "exchange_rate") > 0

\* The rate stored for VND is 1, whatever the body says.
StoredSize(r, f) ==
  IF f = "exchange_rate" /\ r.token = "VND" THEN 1 ELSE Size(r, f)

\* NUMERIC(18,2) rounds half away from zero.
ToColumn(a) == IF a >= 0 THEN ((a + 5) \div 10) * 10 ELSE -(((5 - a) \div 10) * 10)

\* The amounts of a body that no tag bounds.
AmountsOf(r) ==
  {r.net, r.tax, r.gross}
    \cup {r.lines[k].net : k \in 1..Len(r.lines)}
    \cup {r.lines[k].tax : k \in 1..Len(r.lines)}

\* The INSERTs of CreateWithItems succeed: no column overflows, and neither
\* TEXT nor JSONB takes U+0000.
Fits(r) ==
  /\ \A f \in Fields : StoredSize(r, f) <= ColumnMax[f]
  /\ \A a \in AmountsOf(r) : ToColumn(a) \in -MaxAmount..MaxAmount
  /\ \A k \in 1..Len(r.lines) :
       r.lines[k].number \in -(MaxLineNumber + 1)..MaxLineNumber
  /\ ~r.nul

StoredLine(l) == [l EXCEPT !.net = ToColumn(l.net), !.tax = ToColumn(l.tax)]
StoredLines(r) == [k \in 1..Len(r.lines) |-> StoredLine(r.lines[k])]

\* Mutated form: the lines are read as the table returns them.
InReadOrderUnsorted(s, p) == TRUE

\* ORDER BY line_number, created_at: all lines carry the time of the invoice,
\* and lines without a number are numbered 0.
InReadOrder(s, p) ==
  \A j, k \in 1..Len(s) : j < k => s[p[j]].number <= s[p[k]].number

\* What a read of the lines may return: all of them, or as many as arrived
\* before the connection broke (rows.Err() is not asked).
Reads(s) ==
  {[k \in 1..n |-> s[p[k]]] :
     n \in 0..Len(s),
     p \in {q \in Bijection(1..Len(s), 1..Len(s)) : InReadOrder(s, q)}}

-----------------------------------------------------------------------------
(* MapInvoiceToViettel *)

\* Mutated form: the numbers of the request are sent.
MapItemsKeepsNumbers(items) == items

\* mapItems numbers the lines as they come.
MapItems(items) == [k \in 1..Len(items) |-> [items[k] EXCEPT !.number = k]]

\* buildTaxBreakdowns: one entry per tax percentage, in no order.
NoAmounts == [net |-> 0, tax |-> 0]

\* Mutated form: a second line replaces the amounts of the first.
AddToGroupReplaces(groups, item) ==
  (item.percent :> [net |-> item.net, tax |-> item.tax]) @@ groups

AddToGroup(groups, item) ==
  LET tb == [p \in DOMAIN groups \cup {item.percent} |->
               IF p \in DOMAIN groups THEN groups[p] ELSE NoAmounts]
  IN  [tb EXCEPT ![item.percent] =
         [net |-> @.net + item.net, tax |-> @.tax + item.tax]]

BuildTaxBreakdowns(items) == FoldLeft(AddToGroup, <<>>, items)

NoWire == [items |-> <<>>, breakdowns |-> <<>>, net |-> 0, tax |-> 0, gross |-> 0]

MapInvoiceToViettel(r, items) ==
  [items |-> MapItems(items), breakdowns |-> BuildTaxBreakdowns(items),
   net |-> ToColumn(r.net), tax |-> ToColumn(r.tax), gross |-> ToColumn(r.gross)]

\* "TM/CK" stands for a payment method that was left out.
SentSize(r, f) ==
  IF f = "payment_method" /\ Size(r, f) = 0 THEN 5 ELSE Size(r, f)

\* Every request carries the template and the series; buildSellerInfo leaves the
\* seller out unless a tax code is set.
ValidConfig(c) ==
  /\ c["template_code"] \in 1..SettingMax["template_code"]
  /\ c["invoice_series"] \in 1..SettingMax["invoice_series"]
  /\ c["tax_code"] > 0 =>
       /\ c["legal_name"] > 0 /\ c["address"] > 0
       /\ \A s \in SellerSettings : c[s] <= SettingMax[s]

\* ValidateViettelRequest: the tags of every part that is sent, special_info
\* entry by entry.
ValidViettelRequest(r, w) ==
  /\ r.formed
  /\ \A f \in Fields : SentSize(r, f) <= ViettelMax[f]
  /\ SentSize(r, "payment_method") > 0
  /\ w.items # <<>>
  /\ r.special # "blank"
  /\ ValidConfig(config)

-----------------------------------------------------------------------------
\* A body arrives: each is on its own, nothing but the settings is shared.
\* config.validate looks at none of them, and template and series are blank
\* unless set.
RequestInit ==
  /\ stage = "received"
  /\ request \in Requests
  /\ stored = <<>> /\ lines = <<>>
  /\ wire = NoWire
  /\ config \in Configs

\* The handler answers 400 ...
Refuse ==
  /\ stage = "received"
  /\ ~(Binds(request) /\ RateGiven(request))
  /\ stage' = "refused"
  /\ UNCHANGED <<request, stored, lines, wire, config>>

\* ... or CreateWithItems fails, which is answered 500 ...
FailToStore ==
  /\ stage = "received"
  /\ Binds(request) /\ RateGiven(request)
  /\ ~Fits(request)
  /\ stage' = "unstored"
  /\ UNCHANGED <<request, stored, lines, wire, config>>

\* Mutated form: the body is not validated.
CreateWithItemsUnbound ==
  /\ stage = "received"
  /\ Fits(request)
  /\ stored' = StoredLines(request)
  /\ stage' = "stored"
  /\ UNCHANGED <<request, lines, wire, config>>

\* ... or stores the invoice with all its lines: 201.
CreateWithItems ==
  /\ stage = "received"
  /\ Binds(request) /\ RateGiven(request)
  /\ Fits(request)
  /\ stored' = StoredLines(request)
  /\ stage' = "stored"
  /\ UNCHANGED <<request, lines, wire, config>>

\* Each attempt to publish reads the lines again.
GetItems ==
  /\ stage \in {"stored", "sent", "invalid"}
  /\ lines' \in Reads(stored)
  /\ stage' = "read"
  /\ UNCHANGED <<request, stored, wire, config>>

\* The publisher maps and validates the invoice: only a valid one is sent.
Publish ==
  /\ stage = "read"
  /\ wire' = MapInvoiceToViettel(request, lines)
  /\ stage' = IF ValidViettelRequest(request, wire') THEN "sent" ELSE "invalid"
  /\ UNCHANGED <<request, stored, lines, config>>

RequestNext == Refuse \/ FailToStore \/ CreateWithItems \/ GetItems \/ Publish

RequestSpec == RequestInit /\ [][RequestNext]_requestVars

-----------------------------------------------------------------------------
\* Types of the variables; stages and what they have filled in go together.
RequestTypeOK ==
  /\ stage \in {"received", "refused", "unstored", "stored", "read",
                "sent", "invalid"}
  /\ request \in Requests
  /\ config \in Configs
  /\ stage \in {"stored", "read", "sent", "invalid"} =>
       Binds(request) /\ Fits(request) /\ stored = StoredLines(request)

Whole == Len(lines) = Len(stored)

\* The settings with which every publish fails: no template or series, or one too
\* long, or a seller with a tax code that is incomplete or has a setting too long.
Misconfigured ==
  \/ config["template_code"] = 0 \/ config["template_code"] > 20
  \/ config["invoice_series"] = 0 \/ config["invoice_series"] > 25
  \/ config["tax_code"] > 0 /\ (config["legal_name"] = 0 \/ config["address"] = 0)
  \/ config["tax_code"] > 0 /\ \E s \in SellerSettings : config[s] > SettingMax[s]

\* Three layers check the same fields with limits of their own.  A request
\* the API has accepted fails to be stored only for a buyer's name longer than
\* 255, a number, an amount or a line number its column cannot hold, or the
\* character U+0000; and to be published only for a buyer's name longer than 100,
\* a blank special_info entry, the program's settings, or a read that was cut
\* before the first line.  No other text does either.
AcceptedIsIssuable ==
  /\ stage = "unstored" =>
       \/ request.field = "buyer_name" /\ request.size > 255
       \/ request.field \in Numbers /\ request.size > ColumnDigits[request.field]
       \/ \E a \in AmountsOf(request) : ToColumn(a) > MaxAmount \/ ToColumn(a) < -MaxAmount
       \/ \E k \in 1..Len(request.lines) :
            \/ request.lines[k].number > MaxLineNumber
            \/ request.lines[k].number < -(MaxLineNumber + 1)
       \/ request.nul
  /\ stage = "invalid" =>
       \/ request.field = "buyer_name" /\ request.size > 100
       \/ request.special = "blank"
       \/ Misconfigured
       \/ wire.items = <<>>

\* Line numbers the client gave in increasing order, without a tie.
Ordered(r) ==
  \A j, k \in 1..Len(r.lines) : j < k => r.lines[j].number < r.lines[k].number

\* The lines reach Viettel in the order of the request, numbered from 1,
\* whatever order the table returns them in.
LinesInOrder ==
  stage = "sent" /\ Whole /\ Ordered(request) =>
    wire.items = [k \in 1..Len(request.lines) |->
                    [StoredLine(request.lines[k]) EXCEPT !.number = k]]

WholeCents(r) == \A a \in AmountsOf(r) : a % 10 = 0

\* The lines at percentage p.
At(ls, p) == {k \in 1..Len(ls) : ls[k].percent = p}

\* Viettel gets one breakdown per tax percentage, whose amounts are those of
\* the lines at that percentage.  The breakdowns agree with the totals exactly as
\* far as the lines of the body do, and the totals with one another: for a body in
\* whole hundredths the service neither adds a difference nor hides one.
TotalsAgree ==
  stage = "sent" /\ Whole /\ WholeCents(request) =>
    LET tb == wire.breakdowns
        ms == request.lines IN
    /\ DOMAIN tb = {ms[k].percent : k \in 1..Len(ms)}
    /\ \A p \in DOMAIN tb :
         /\ tb[p].net = SumFunctionOnSet(Nets(ms), At(ms, p))
         /\ tb[p].tax = SumFunctionOnSet(Taxes(ms), At(ms, p))
    /\ wire.net - SumFunction([p \in DOMAIN tb |-> tb[p].net])
         = request.net - SumFunction(Nets(ms))
    /\ wire.tax - SumFunction([p \in DOMAIN tb |-> tb[p].tax])
         = request.tax - SumFunction(Taxes(ms))
    /\ wire.gross - (wire.net + wire.tax) = request.gross - (request.net + request.tax)

\* Every attempt sends, under the one transaction_uuid, the same lines and
\* amounts as the attempt before, unless a read was cut.
ResentUnchanged ==
  [][stage = "read" /\ wire # NoWire /\ Whole /\ Ordered(request)
       /\ Len(wire.items) = Len(stored)
     => wire' = wire]_requestVars
=============================================================================
