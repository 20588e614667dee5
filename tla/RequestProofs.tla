----------------------------- MODULE RequestProofs ----------------------------
(***************************************************************************)
(* Proofs about Requests, for every body a client may send.                *)
(***************************************************************************)
EXTENDS Requests, FoldProofs

\* The limits of the three layers, compared field by field.
LEMMA Limits ==
  ASSUME NEW f \in Fields
  PROVE  /\ ApiMax[f] \in Nat /\ ColumnMax[f] \in Nat /\ ViettelMax[f] \in Nat
         /\ 5 <= ColumnMax[f] /\ 5 <= ViettelMax[f]
         /\ ColumnMax[f] < ApiMax[f] => f = "buyer_name" \/ f \in Numbers
         /\ ViettelMax[f] < ApiMax[f] => f = "buyer_name"
         /\ f = "buyer_name" => ColumnMax[f] = 255 /\ ViettelMax[f] = 100
         /\ f \in Numbers => ColumnMax[f] = ColumnDigits[f]
<1>1. CASE f \in Numbers
  <2>1. f \in {"quantity", "discount", "discount2", "unit_price", "unit_price_with_tax",
               "item_total_amount_with_tax", "item_total_amount_after_discount",
               "item_discount", "exchange_rate", "token_total_amount",
               "token_tax_amount", "token_net_amount", "token_unit_price",
               "token_line_total"}
    BY <1>1 DEF Numbers, ColumnDigits
  <2>2. ColumnDigits[f] \in 8..16 /\ f # "buyer_name"
    BY <2>1 DEF ColumnDigits
  <2>3. /\ ApiMax[f] = 309 /\ ViettelMax[f] = 309
        /\ ColumnMax[f] = ColumnDigits[f]
    BY <1>1, <2>1, <2>2 DEF ApiMax, ViettelMax, ColumnMax
  <2> QED
    BY <1>1, <2>2, <2>3
<1>2. CASE f \notin Numbers
  <2>1. f \in {"buyer_name", "buyer_legal_name", "buyer_tax_code", "buyer_address",
               "buyer_email", "buyer_phone", "buyer_code", "exchange_rate_source",
               "payment_method", "transaction_hash", "erp_order_id", "notes",
               "item_name", "item_code", "unit_code", "unit_name", "item_note",
               "batch_no", "exp_date"}
    BY <1>2 DEF Fields, TextMax
  <2>2. /\ TextMax[f] \in Nat /\ 15 <= TextMax[f]
        /\ f = "buyer_name" => TextMax[f] = 400
        /\ f = "buyer_tax_code" => TextMax[f] = 20
    BY <2>1 DEF TextMax
  <2>3. /\ ApiMax[f] = TextMax[f]
        /\ ViettelMax[f] = IF f = "buyer_name" THEN 100 ELSE TextMax[f]
        /\ ColumnMax[f] = IF f = "buyer_name" THEN 255
                          ELSE IF f = "buyer_tax_code" THEN 50 ELSE TextMax[f]
    BY <1>2 DEF ApiMax, ViettelMax, ColumnMax
  <2> QED
    BY <1>2, <2>2, <2>3
<1> QED
  BY <1>1, <1>2

\* A field too long for a layer is the one the request varies.
LEMMA TooLong ==
  ASSUME NEW r \in Requests, NEW f \in Fields
  PROVE  /\ r.size \in Nat
         /\ Size(r, f) \in Nat /\ SentSize(r, f) \in Nat /\ StoredSize(r, f) \in Nat
         /\ Size(r, f) > 5 \/ SentSize(r, f) > 5 \/ StoredSize(r, f) > 5 =>
              /\ r.field = f /\ Size(r, f) = r.size
              /\ SentSize(r, f) = r.size
         /\ StoredSize(r, f) > 5 => StoredSize(r, f) = r.size
<1>1. r \in Request
  BY RequestAssumption
<1>2. r.size \in Nat
  BY <1>1 DEF Request
<1> QED
  BY <1>2 DEF Size, SentSize, StoredSize

\* The amounts of a body are integers.
LEMMA AmountsAreInts ==
  ASSUME NEW r \in Requests
  PROVE  \A a \in AmountsOf(r) : a \in Int /\ ToColumn(a) \in Int
<1>1. r \in Request
  BY RequestAssumption
<1>2. /\ r.net \in Int /\ r.tax \in Int /\ r.gross \in Int
      /\ r.lines \in Seq(Line)
  BY <1>1 DEF Request
<1>3. \A k \in 1..Len(r.lines) : r.lines[k].net \in Int /\ r.lines[k].tax \in Int
  <2>1. \A k \in 1..Len(r.lines) : r.lines[k] \in Line
    BY <1>2
  <2> QED
    BY <2>1 DEF Line
<1>4. \A a \in AmountsOf(r) : a \in Int
  BY <1>2, <1>3 DEF AmountsOf
<1> QED
  BY <1>4 DEF ToColumn

-----------------------------------------------------------------------------
\* The inductive invariant.
RequestInv == RequestTypeOK /\ AcceptedIsIssuable

\* Why a bound body is not stored.
Unstorable(r) ==
  \/ r.field = "buyer_name" /\ r.size > 255
  \/ r.field \in Numbers /\ r.size > ColumnDigits[r.field]
  \/ \E a \in AmountsOf(r) : ToColumn(a) > MaxAmount \/ ToColumn(a) < -MaxAmount
  \/ \E k \in 1..Len(r.lines) :
       \/ r.lines[k].number > MaxLineNumber
       \/ r.lines[k].number < -(MaxLineNumber + 1)
  \/ r.nul

\* Why one that was stored is not sent.
Unissuable(r, w) ==
  \/ r.field = "buyer_name" /\ r.size > 100
  \/ r.special = "blank"
  \/ Misconfigured
  \/ w.items = <<>>

\* A bound request that does not fit its columns.
LEMMA UnstoredCause ==
  ASSUME NEW r \in Requests, Binds(r), ~Fits(r)
  PROVE  Unstorable(r)
<1>1. CASE \E f \in Fields : ~(StoredSize(r, f) <= ColumnMax[f])
  <2>1. PICK f \in Fields : ~(StoredSize(r, f) <= ColumnMax[f])
    BY <1>1
  <2>2. Size(r, f) <= ApiMax[f]
    BY DEF Binds
  <2>3. StoredSize(r, f) > ColumnMax[f] /\ StoredSize(r, f) > 5
    BY <2>1, Limits, TooLong
  <2>4. r.field = f /\ Size(r, f) = r.size /\ r.size > ColumnMax[f]
    BY <2>3, TooLong
  <2>5. ColumnMax[f] < ApiMax[f]
    BY <2>2, <2>4, Limits, TooLong
  <2> QED
    BY <2>4, <2>5, Limits DEF Unstorable
<1>2. CASE \E a \in AmountsOf(r) : ToColumn(a) \notin -MaxAmount..MaxAmount
  <2>1. PICK a \in AmountsOf(r) : ToColumn(a) \notin -MaxAmount..MaxAmount
    BY <1>2
  <2>2. ToColumn(a) \in Int /\ MaxAmount \in Nat
    BY AmountsAreInts, ConfigAssumption
  <2>3. ToColumn(a) > MaxAmount \/ ToColumn(a) < -MaxAmount
    BY <2>1, <2>2
  <2> QED
    BY <2>3 DEF Unstorable
<1>3. CASE \E k \in 1..Len(r.lines) :
             r.lines[k].number \notin -(MaxLineNumber + 1)..MaxLineNumber
  <2>1. PICK k \in 1..Len(r.lines) :
          r.lines[k].number \notin -(MaxLineNumber + 1)..MaxLineNumber
    BY <1>3
  <2>2. r \in Request
    BY RequestAssumption
  <2>3. r.lines \in Seq(Line)
    BY <2>2 DEF Request
  <2>4. r.lines[k] \in Line
    BY <2>3
  <2>5. r.lines[k].number \in Int /\ MaxLineNumber \in Nat
    BY <2>4, ConfigAssumption DEF Line
  <2>6. r.lines[k].number > MaxLineNumber \/ r.lines[k].number < -(MaxLineNumber + 1)
    BY <2>1, <2>5
  <2> QED
    BY <2>6 DEF Unstorable
<1>4. CASE r.nul
  BY <1>4 DEF Unstorable
<1> QED
  BY <1>1, <1>2, <1>3, <1>4 DEF Fits

\* Settings that the local validation refuses.
LEMMA SettingsCause ==
  ASSUME config \in Configs, ~ValidConfig(config)
  PROVE  Misconfigured
<1>1. config \in [Settings -> Nat]
  BY ConfigAssumption
<1>2. /\ "template_code" \in Settings /\ "invoice_series" \in Settings
      /\ "tax_code" \in Settings /\ "legal_name" \in Settings /\ "address" \in Settings
      /\ SettingMax["template_code"] = 20 /\ SettingMax["invoice_series"] = 25
  BY DEF Settings, SettingMax
<1>3. \A s \in SellerSettings : config[s] \in Nat /\ SettingMax[s] \in Nat
  BY <1>1 DEF SellerSettings, Settings, SettingMax
<1> QED
  BY <1>1, <1>2, <1>3 DEF ValidConfig, Misconfigured

\* A bound request that the local validation refuses.
LEMMA InvalidCause ==
  ASSUME config \in Configs,
         NEW r \in Requests, Binds(r), NEW w, ~ValidViettelRequest(r, w)
  PROVE  Unissuable(r, w)
<1>1. CASE \E f \in Fields : ~(SentSize(r, f) <= ViettelMax[f])
  <2>1. PICK f \in Fields : ~(SentSize(r, f) <= ViettelMax[f])
    BY <1>1
  <2>2. Size(r, f) <= ApiMax[f]
    BY DEF Binds
  <2>3. SentSize(r, f) > ViettelMax[f] /\ SentSize(r, f) > 5
    BY <2>1, Limits, TooLong
  <2>4. r.field = f /\ Size(r, f) = r.size /\ SentSize(r, f) = r.size
    BY <2>3, TooLong
  <2>5. ViettelMax[f] < ApiMax[f]
    BY <2>2, <2>3, <2>4, Limits, TooLong
  <2> QED
    BY <2>3, <2>4, <2>5, Limits DEF Unissuable
<1>2. SentSize(r, "payment_method") > 0
  <2>1. r \in Request
    BY RequestAssumption
  <2>2. r.size \in Nat
    BY <2>1 DEF Request
  <2> QED
    BY <2>2 DEF SentSize, Size
<1>3. CASE ~ValidConfig(config)
  BY <1>3, SettingsCause DEF Unissuable
<1>4. CASE w.items = <<>> \/ r.special = "blank"
  BY <1>4 DEF Unissuable
<1>5. r.formed
  BY DEF Binds
<1> QED
  BY <1>1, <1>2, <1>3, <1>4, <1>5 DEF ValidViettelRequest

\* The initial state satisfies the invariant.
LEMMA RequestInvInit == RequestInit => RequestInv
BY DEF RequestInit, RequestInv, RequestTypeOK, AcceptedIsIssuable

\* Every step preserves the types.
LEMMA RequestTypeNext ==
  ASSUME RequestTypeOK, [RequestNext]_requestVars
  PROVE  RequestTypeOK'
<1> USE DEF RequestTypeOK
<1>1. CASE Refuse
  BY <1>1 DEF Refuse
<1>2. CASE FailToStore
  BY <1>2 DEF FailToStore
<1>3. CASE CreateWithItems
  BY <1>3 DEF CreateWithItems
<1>4. CASE GetItems
  BY <1>4 DEF GetItems
<1>5. CASE Publish
  BY <1>5 DEF Publish
<1>6. CASE UNCHANGED requestVars
  BY <1>6 DEF requestVars
<1> QED
  BY <1>1, <1>2, <1>3, <1>4, <1>5, <1>6 DEF RequestNext

\* Every step preserves the invariant.
LEMMA RequestInvNext == RequestInv /\ [RequestNext]_requestVars => RequestInv'
<1> SUFFICES ASSUME RequestInv, [RequestNext]_requestVars PROVE RequestInv'
  OBVIOUS
<1>1. RequestTypeOK /\ AcceptedIsIssuable
  BY DEF RequestInv
<1>2. RequestTypeOK'
  BY <1>1, RequestTypeNext
<1>3. AcceptedIsIssuable'
  <2>1. CASE Refuse \/ CreateWithItems \/ GetItems
    <3>1. stage' \in {"refused", "stored", "read"}
      BY <2>1 DEF Refuse, CreateWithItems, GetItems
    <3> QED
      BY <3>1 DEF AcceptedIsIssuable
  <2>2. CASE FailToStore
    <3>1. request' = request /\ stage' = "unstored" /\ Binds(request) /\ ~Fits(request)
      BY <2>2 DEF FailToStore
    <3>2. Unstorable(request)
      BY <1>1, <3>1, UnstoredCause DEF RequestTypeOK
    <3> QED
      BY <3>1, <3>2 DEF AcceptedIsIssuable, Unstorable
  <2>3. CASE Publish
    <3>1. /\ request' = request /\ config' = config /\ stage = "read"
          /\ stage' \in {"sent", "invalid"}
          /\ stage' = "invalid" => ~ValidViettelRequest(request, wire')
      BY <2>3 DEF Publish
    <3>2. stage' = "invalid" => Unissuable(request, wire')
      <4>1. Binds(request) /\ request \in Requests /\ config \in Configs
        BY <1>1, <3>1 DEF RequestTypeOK
      <4> DEFINE w == wire'
      <4>2. stage' = "invalid" => ~ValidViettelRequest(request, w)
        BY <3>1
      <4> HIDE DEF w
      <4>3. stage' = "invalid" => Unissuable(request, w)
        BY <4>1, <4>2, InvalidCause
      <4> QED
        BY <4>3 DEF w
    <3> QED
      BY <3>1, <3>2 DEF AcceptedIsIssuable, Unissuable, Misconfigured
  <2>4. CASE UNCHANGED requestVars
    BY <1>1, <2>4 DEF requestVars, AcceptedIsIssuable, Misconfigured
  <2> QED
    BY <2>1, <2>2, <2>3, <2>4 DEF RequestNext
<1> QED
  BY <1>2, <1>3 DEF RequestInv

\* Only requests that passed the binding and fit their columns are published.
THEOREM RequestTypeCorrect == RequestSpec => []RequestTypeOK
<1>1. RequestInv => RequestTypeOK
  BY DEF RequestInv
<1> QED
  BY <1>1, RequestInvInit, RequestInvNext, PTL DEF RequestSpec

\* Why a request the API accepted fails to be stored or published, whatever
\* it holds and whatever the program's settings are.
THEOREM AcceptedCauses == RequestSpec => []AcceptedIsIssuable
<1>1. RequestInv => AcceptedIsIssuable
  BY DEF RequestInv
<1> QED
  BY <1>1, RequestInvInit, RequestInvNext, PTL DEF RequestSpec

-----------------------------------------------------------------------------
\* A permutation of a sequence's positions moves no two to the same place.
LEMMA PermutationFacts ==
  ASSUME NEW n \in Nat, NEW p \in Bijection(1..n, 1..n)
  PROVE  /\ p \in [1..n -> 1..n]
         /\ \A j, k \in 1..n : p[j] = p[k] => j = k
         /\ \A v \in 1..n : \E k \in 1..n : p[k] = v
BY DEF Bijection, Injection, Surjection, IsInjective

\* A permutation under which strictly increasing numbers do not decrease
\* leaves every position where it is.
LEMMA OrderIsUnique ==
  ASSUME NEW n \in Nat, NEW p \in Bijection(1..n, 1..n), NEW num \in [1..n -> Int],
         \A j, k \in 1..n : j < k => num[j] < num[k],
         \A j, k \in 1..n : j < k => num[p[j]] <= num[p[k]]
  PROVE  \A k \in 1..n : p[k] = k
<1>1. /\ p \in [1..n -> 1..n]
      /\ \A j, k \in 1..n : p[j] = p[k] => j = k
      /\ \A v \in 1..n : \E k \in 1..n : p[k] = v
  BY PermutationFacts
<1>2. \A j, k \in 1..n : j < k => p[j] < p[k]
  <2> SUFFICES ASSUME NEW j \in 1..n, NEW k \in 1..n, j < k, ~(p[j] < p[k])
               PROVE  FALSE
    OBVIOUS
  <2>1. p[j] \in 1..n /\ p[k] \in 1..n /\ p[j] # p[k] /\ j # k
    BY <1>1
  <2>2. p[k] < p[j]
    BY <2>1
  <2>3. num[p[k]] < num[p[j]] /\ num[p[j]] <= num[p[k]]
    BY <2>1, <2>2
  <2>4. num[p[k]] \in Int /\ num[p[j]] \in Int
    BY <2>1
  <2> QED
    BY <2>3, <2>4
<1> DEFINE S == {k \in Nat : \A j \in 1..n : j <= k => p[j] = j}
<1>3. ASSUME NEW k \in S PROVE k + 1 \in S
  <2>1. k \in Nat /\ \A j \in 1..n : j <= k => p[j] = j
    OBVIOUS
  <2>2. ASSUME k + 1 \in 1..n PROVE p[k + 1] = k + 1
    <3>1. p[k + 1] \in 1..n
      BY <1>1, <2>2
    <3>2. p[k + 1] > k
      <4>1. p[k + 1] <= k => p[p[k + 1]] = p[k + 1]
        BY <2>1, <3>1
      <4>2. p[k + 1] <= k => p[k + 1] = k + 1
        BY <1>1, <2>2, <3>1, <4>1
      <4> QED
        BY <2>1, <3>1, <4>2
    <3>3. PICK v \in 1..n : p[v] = k + 1
      BY <1>1, <2>2
    <3>4. v > k
      BY <2>1, <3>3
    <3>5. v > k + 1 => p[k + 1] < p[v]
      BY <1>2, <2>1, <2>2
    <3> QED
      BY <2>1, <3>1, <3>2, <3>3, <3>4, <3>5
  <2>3. \A j \in 1..n : j <= k + 1 => p[j] = j
    BY <2>1, <2>2
  <2> QED
    BY <2>1, <2>3
<1>4. S = Nat
  <2>1. S \in SUBSET Nat /\ 0 \in S
    OBVIOUS
  <2> HIDE DEF S
  <2> QED
    BY <1>3, <2>1, NatInd
<1> SUFFICES ASSUME NEW k \in 1..n PROVE p[k] = k
  OBVIOUS
<1>5. k \in S
  <2> HIDE DEF S
  <2> QED
    BY <1>4
<1>6. k <= k
  OBVIOUS
<1> QED
  BY <1>5, <1>6

-----------------------------------------------------------------------------
\* The lines of a stored request.
LEMMA StoredFacts ==
  ASSUME NEW r \in Requests
  PROVE  /\ r.lines \in Seq(Line) /\ Len(r.lines) \in Nat
         /\ StoredLines(r) \in Seq(Line)
         /\ Len(StoredLines(r)) = Len(r.lines)
         /\ DOMAIN StoredLines(r) = 1..Len(r.lines)
         /\ \A k \in 1..Len(r.lines) :
              /\ StoredLines(r)[k] = StoredLine(r.lines[k])
              /\ StoredLines(r)[k].number = r.lines[k].number
              /\ r.lines[k] \in Line
<1>1. r.lines \in Seq(Line) /\ Len(r.lines) \in Nat
  BY RequestAssumption DEF Request
<1>2. \A l \in Line : StoredLine(l) \in Line /\ StoredLine(l).number = l.number
  <2>1. \A a \in Int : ToColumn(a) \in Int
    BY DEF ToColumn
  <2> QED
    BY <2>1 DEF Line, StoredLine
<1> HIDE DEF Line
<1> DEFINE f(k) == StoredLine(r.lines[k])
<1>3. \A k \in 1..Len(r.lines) :
        r.lines[k] \in Line /\ f(k) \in Line /\ f(k).number = r.lines[k].number
  BY <1>1, <1>2
<1>4. StoredLines(r) = [k \in 1..Len(r.lines) |-> f(k)]
  BY DEF StoredLines
<1> HIDE DEF f
<1>5. StoredLines(r) \in Seq(Line) /\ Len(StoredLines(r)) = Len(r.lines)
  BY <1>1, <1>3, <1>4
<1> QED
  BY <1>1, <1>3, <1>4, <1>5 DEF f

\* What a read returns: a prefix of the lines in some order of their numbers.
LEMMA ReadFacts ==
  ASSUME NEW s \in Seq(Line), NEW ls \in Reads(s)
  PROVE  /\ ls \in Seq(Line)
         /\ Len(ls) = Len(s) =>
              \E p \in Bijection(1..Len(s), 1..Len(s)) :
                InReadOrder(s, p) /\ ls = [k \in 1..Len(s) |-> s[p[k]]]
<1>1. PICK n \in 0..Len(s), p \in Bijection(1..Len(s), 1..Len(s)) :
        InReadOrder(s, p) /\ ls = [k \in 1..n |-> s[p[k]]]
  BY DEF Reads
<1>2. Len(s) \in Nat /\ n \in Nat /\ \A k \in 1..n : k \in 1..Len(s)
  OBVIOUS
<1>3. \A k \in 1..n : s[p[k]] \in Line
  <2>1. \A k \in 1..Len(s) : p[k] \in 1..Len(s)
    BY <1>2, PermutationFacts
  <2> QED
    BY <1>2, <2>1
<1> DEFINE f(k) == s[p[k]]
<1>4. ls = [k \in 1..n |-> f(k)] /\ \A k \in 1..n : f(k) \in Line
  BY <1>1, <1>3
<1> HIDE DEF f
<1>5. ls \in Seq(Line) /\ Len(ls) = n
  BY <1>2, <1>4
<1> QED
  BY <1>1, <1>5

\* A whole read of lines whose numbers increase returns them as they are
\* stored.
LEMMA ReadInOrder ==
  ASSUME NEW r \in Requests, Ordered(r), NEW ls \in Reads(StoredLines(r)),
         Len(ls) = Len(StoredLines(r))
  PROVE  ls = StoredLines(r)
<1> DEFINE s == StoredLines(r)
           n == Len(r.lines)
           num == [k \in 1..n |-> s[k].number]
<1>1. /\ s \in Seq(Line) /\ Len(s) = n /\ n \in Nat /\ DOMAIN s = 1..n
      /\ \A k \in 1..n : s[k].number = r.lines[k].number /\ r.lines[k] \in Line
  BY StoredFacts
<1> HIDE DEF s, n
<1>2. PICK p \in Bijection(1..n, 1..n) :
        InReadOrder(s, p) /\ ls = [k \in 1..n |-> s[p[k]]]
  BY <1>1, ReadFacts DEF s
<1>3. num \in [1..n -> Int] /\ \A k \in 1..n : num[k] = s[k].number
  BY <1>1 DEF Line
<1> HIDE DEF num
<1>4. \A j, k \in 1..n : j < k => num[j] < num[k]
  BY <1>1, <1>3 DEF Ordered, n
<1>5. \A j, k \in 1..n : j < k => num[p[j]] <= num[p[k]]
  <2>1. \A k \in 1..n : p[k] \in 1..n
    BY <1>1, PermutationFacts
  <2> QED
    BY <1>1, <1>2, <1>3, <2>1 DEF InReadOrder
<1>6. \A k \in 1..n : p[k] = k
  BY <1>1, <1>3, <1>4, <1>5, OrderIsUnique
<1>7. ls = [k \in 1..n |-> s[k]]
  BY <1>2, <1>6
<1>8. s = [k \in DOMAIN s |-> s[k]]
  BY <1>1
<1> QED
  BY <1>1, <1>7, <1>8 DEF s

\* Viettel gets as many items as were read.
LEMMA ItemsFacts ==
  ASSUME NEW r, NEW ls \in Seq(Line)
  PROVE  Len(MapInvoiceToViettel(r, ls).items) = Len(ls)
<1> DEFINE f(k) == [ls[k] EXCEPT !.number = k]
<1>1. Len(ls) \in Nat
  OBVIOUS
<1>2. MapInvoiceToViettel(r, ls).items = [k \in 1..Len(ls) |-> f(k)]
  BY DEF MapInvoiceToViettel, MapItems
<1> HIDE DEF f
<1> QED
  BY <1>1, <1>2

-----------------------------------------------------------------------------
\* What was read and what was made of it.
ReadInv ==
  /\ stage \in {"read", "sent", "invalid"} => lines \in Reads(stored)
  /\ stage \in {"sent", "invalid"} => wire = MapInvoiceToViettel(request, lines)
  /\ stage \in {"received", "stored"} => wire = NoWire
  /\ stage = "read" /\ wire # NoWire =>
       \E ls \in Reads(stored) : wire = MapInvoiceToViettel(request, ls)

\* The initial state satisfies it.
LEMMA ReadInvInit == RequestInit => ReadInv
BY DEF RequestInit, ReadInv

\* Every step preserves it.
LEMMA ReadInvNext == ReadInv /\ [RequestNext]_requestVars => ReadInv'
<1> SUFFICES ASSUME ReadInv, [RequestNext]_requestVars PROVE ReadInv'
  OBVIOUS
<1>2. CASE Refuse
  BY <1>2 DEF Refuse, ReadInv
<1>3. CASE FailToStore
  BY <1>3 DEF FailToStore, ReadInv
<1>4. CASE CreateWithItems
  BY <1>4 DEF CreateWithItems, ReadInv
<1>5. CASE GetItems
  BY <1>5 DEF GetItems, ReadInv
<1>6. CASE Publish
  BY <1>6 DEF Publish, ReadInv
<1>7. CASE UNCHANGED requestVars
  BY <1>7 DEF requestVars, ReadInv
<1> QED
  BY <1>2, <1>3, <1>4, <1>5, <1>6, <1>7 DEF RequestNext

\* The inductive invariant of the lines read.
LEMMA ReadInvariant == RequestSpec => [](RequestTypeOK /\ ReadInv)
<1>1. RequestInv => RequestTypeOK
  BY DEF RequestInv
<1> QED
  BY <1>1, RequestInvInit, RequestInvNext, ReadInvInit, ReadInvNext, PTL DEF RequestSpec

\* For every body and every order of the table, lines whose numbers increase
\* reach Viettel in the order of the request, numbered from 1.
THEOREM LinesReachInOrder == RequestSpec => []LinesInOrder
<1>1. RequestTypeOK /\ ReadInv => LinesInOrder
  <2> SUFFICES ASSUME RequestTypeOK, ReadInv, stage = "sent", Whole, Ordered(request)
               PROVE  wire.items = [k \in 1..Len(request.lines) |->
                        [StoredLine(request.lines[k]) EXCEPT !.number = k]]
    BY DEF LinesInOrder
  <2>1. /\ request \in Requests /\ stored = StoredLines(request)
        /\ lines \in Reads(stored) /\ wire = MapInvoiceToViettel(request, lines)
    BY DEF RequestTypeOK, ReadInv
  <2>2. lines = StoredLines(request)
    BY <2>1, ReadInOrder DEF Whole
  <2>3. wire.items = MapItems(StoredLines(request))
    BY <2>1, <2>2 DEF MapInvoiceToViettel
  <2> QED
    BY <2>1, <2>3, StoredFacts DEF MapItems
<1> QED
  BY <1>1, ReadInvariant, PTL

\* For every body, an attempt that reads the lines whole sends what the
\* attempt before it sent.
THEOREM ResendsAreEqual == RequestSpec => ResentUnchanged
<1>1. RequestTypeOK /\ ReadInv /\ [RequestNext]_requestVars
        => [stage = "read" /\ wire # NoWire /\ Whole /\ Ordered(request)
              /\ Len(wire.items) = Len(stored) => wire' = wire]_requestVars
  <2> SUFFICES ASSUME RequestTypeOK, ReadInv, [RequestNext]_requestVars,
                      stage = "read", wire # NoWire, Whole, Ordered(request),
                      Len(wire.items) = Len(stored)
               PROVE  wire' = wire
    OBVIOUS
  <2>1. /\ request \in Requests /\ stored = StoredLines(request)
        /\ stored \in Seq(Line) /\ lines \in Reads(stored)
    BY StoredFacts DEF RequestTypeOK, ReadInv
  <2>2. PICK ls \in Reads(stored) : wire = MapInvoiceToViettel(request, ls)
    BY DEF ReadInv
  <2>3. Len(ls) = Len(stored)
    BY <2>1, <2>2, ReadFacts, ItemsFacts
  <2>4. ls = lines
    BY <2>1, <2>2, <2>3, ReadInOrder DEF Whole
  <2>5. Publish \/ UNCHANGED requestVars
    BY DEF RequestNext, Refuse, FailToStore, CreateWithItems, GetItems
  <2> QED
    BY <2>2, <2>4, <2>5 DEF Publish, requestVars
<1> QED
  BY <1>1, ReadInvariant, PTL DEF RequestSpec, ResentUnchanged

-----------------------------------------------------------------------------
\* What the fold of the lines into breakdowns unfolds to.
GroupStep(ls, g) ==
  [T \in SUBSET DOMAIN ls |->
     IF T = {} THEN <<>> ELSE AddToGroup(g[T \ {Max(T)}], ls[Max(T)])]

\* buildTaxBreakdowns by its equation.
LEMMA GroupDef ==
  ASSUME NEW ls
  PROVE  BuildTaxBreakdowns(ls) = (CHOOSE g : g = GroupStep(ls, g))[DOMAIN ls]
BY DEF BuildTaxBreakdowns, FoldLeft, MapThenFoldSet, GroupStep

\* The values breakdowns have: amounts at any of the percentages.
Amounts == [net : Int, tax : Int]
Groups == UNION {[D -> Amounts] : D \in SUBSET Int}

\* One line added to the breakdowns.
LEMMA AddFacts ==
  ASSUME NEW g \in Groups, NEW l \in Line
  PROVE  /\ AddToGroup(g, l) \in Groups
         /\ DOMAIN AddToGroup(g, l) = DOMAIN g \cup {l.percent}
         /\ \A p \in DOMAIN AddToGroup(g, l) :
              /\ p # l.percent => AddToGroup(g, l)[p] = g[p]
              /\ p = l.percent => AddToGroup(g, l)[p] =
                   IF p \in DOMAIN g
                   THEN [net |-> g[p].net + l.net, tax |-> g[p].tax + l.tax]
                   ELSE [net |-> l.net, tax |-> l.tax]
<1> DEFINE q == l.percent
           D == DOMAIN g \cup {q}
           tb == [p \in D |-> IF p \in DOMAIN g THEN g[p] ELSE NoAmounts]
           r == [tb EXCEPT ![q] = [net |-> tb[q].net + l.net, tax |-> tb[q].tax + l.tax]]
<1>1. l.percent \in Int /\ l.net \in Int /\ l.tax \in Int
  BY DEF Line
<1>2. PICK E \in SUBSET Int : g \in [E -> Amounts]
  BY DEF Groups
<1>3. AddToGroup(g, l) = r
  BY DEF AddToGroup
<1>4. D \in SUBSET Int /\ DOMAIN r = D
  BY <1>1, <1>2
<1>5. tb[q] = IF q \in DOMAIN g THEN g[q] ELSE NoAmounts
  OBVIOUS
<1>6. r[q] = IF q \in DOMAIN g THEN [net |-> g[q].net + l.net, tax |-> g[q].tax + l.tax]
             ELSE [net |-> l.net, tax |-> l.tax]
  BY <1>1, <1>5 DEF NoAmounts
<1>7. \A p \in DOMAIN g : g[p] \in Amounts
  BY <1>2
<1>8. r[q] \in Amounts
  BY <1>1, <1>6, <1>7 DEF Amounts
<1>9. \A p \in D : p # q => p \in DOMAIN g /\ r[p] = g[p]
  OBVIOUS
<1>10. r \in [D -> Amounts]
  <2>1. r = [p \in D |-> r[p]]
    BY <1>4
  <2>2. \A p \in D : r[p] \in Amounts
    BY <1>7, <1>8, <1>9
  <2> HIDE DEF r, D
  <2> QED
    BY <2>1, <2>2
<1> HIDE DEF r, tb
<1> QED
  BY <1>3, <1>4, <1>6, <1>9, <1>10 DEF Groups

\* The fold of the first m lines.
LEMMA GroupFold ==
  ASSUME NEW ls \in Seq(Line)
  PROVE  \E g \in [SUBSET (1..Len(ls)) -> Groups] :
           /\ BuildTaxBreakdowns(ls) = g[1..Len(ls)]
           /\ g[{}] = <<>>
           /\ \A m \in 1..Len(ls) : g[1..m] = AddToGroup(g[1..(m - 1)], ls[m])
<1> DEFINE n == Len(ls)
           S == 1..n
           I(g) == GroupStep(ls, g)
           c == CHOOSE g : g = I(g)
           ch == [T \in SUBSET S |-> Max(T)]
           h == [x \in S |-> [v \in Groups |-> AddToGroup(v, ls[x])]]
<1>1. n \in Nat /\ DOMAIN ls = S /\ \A k \in S : ls[k] \in Line
  OBVIOUS
<1> HIDE DEF n
<1>2. IsFiniteSet(S)
  BY <1>1, FS_Interval
<1>3. <<>> \in Groups
  <2>1. <<>> \in [{} -> Amounts] /\ {} \in SUBSET Int
    OBVIOUS
  <2> QED
    BY <2>1 DEF Groups
<1>4. \A T \in SUBSET S : T # {} => Max(T) \in T
  BY <1>1, LastPosition
<1>5. \A x \in S : \A v \in Groups : AddToGroup(v, ls[x]) \in Groups
  BY <1>1, AddFacts
<1> HIDE DEF S
<1>6. \A x \in S : \A v \in Groups : h[x][v] = AddToGroup(v, ls[x]) /\ h[x][v] \in Groups
  BY <1>5
<1>7. \A T \in SUBSET S : ch[T] = Max(T)
  OBVIOUS
<1> HIDE DEF ch, h
<1>8. FoldStep(S, ch, Groups, <<>>, h)
  BY <1>2, <1>3, <1>4, <1>6, <1>7 DEF FoldStep
<1>9. PICK g : IsFold(g, S, ch, Groups, <<>>, h)
  BY <1>8, FoldExists
<1>10. /\ g \in [SUBSET S -> Groups]
       /\ \A T \in SUBSET S : g[T] = IF T = {} THEN <<>> ELSE h[ch[T]][g[T \ {ch[T]}]]
  BY <1>9 DEF IsFold
<1>11. \A T \in SUBSET S : T # {} => g[T] = AddToGroup(g[T \ {Max(T)}], ls[Max(T)])
  <2> TAKE T \in SUBSET S
  <2> HAVE T # {}
  <2>1. Max(T) \in S /\ T \ {Max(T)} \in SUBSET S /\ g[T \ {Max(T)}] \in Groups
    BY <1>4, <1>10
  <2> QED
    BY <1>6, <1>7, <1>10, <2>1
<1>12. g = I(g)
  BY <1>1, <1>10, <1>11 DEF GroupStep
<1>13. c = I(c)
  <2> HIDE DEF I
  <2> QED
    BY <1>12
<1>14. BuildTaxBreakdowns(ls) = c[S]
  BY <1>1, GroupDef
<1> HIDE DEF c
<1>15. \A T \in SUBSET S : c[T] = IF T = {} THEN <<>> ELSE AddToGroup(c[T \ {Max(T)}], ls[Max(T)])
  <2> TAKE T \in SUBSET S
  <2>1. c[T] = I(c)[T]
    BY <1>13
  <2> QED
    BY <1>1, <2>1 DEF GroupStep
<1>16. \A T \in SUBSET S : c[T] \in Groups
  <2> DEFINE P == {T \in SUBSET S : c[T] \in Groups}
  <2>1. P \in SUBSET SUBSET S /\ {} \in P
    <3>1. {} \in SUBSET S /\ c[{}] = <<>>
      BY <1>15
    <3> QED
      BY <1>3, <3>1
  <2>2. \A T \in SUBSET S : T # {} /\ (\A x \in T : T \ {x} \in P) => T \in P
    <3> TAKE T \in SUBSET S
    <3> HAVE T # {} /\ (\A x \in T : T \ {x} \in P)
    <3>1. Max(T) \in T /\ Max(T) \in S
      BY <1>4
    <3>2. c[T \ {Max(T)}] \in Groups
      BY <3>1
    <3>3. c[T] = AddToGroup(c[T \ {Max(T)}], ls[Max(T)])
      BY <1>15
    <3> HIDE DEF P
    <3>4. c[T] \in Groups
      BY <1>5, <3>1, <3>2, <3>3
    <3> QED
      BY <3>4 DEF P
  <2>3. P = SUBSET S
    <3> HIDE DEF P
    <3> QED
      BY <1>2, <2>1, <2>2, SubsetInd
  <2> QED
    BY <2>3
<1>17. c \in [SUBSET S -> Groups]
  <2>1. c = [T \in SUBSET S |-> c[T]]
    <3>1. c = I(c) /\ DOMAIN I(c) = SUBSET S /\ I(c) = [T \in SUBSET S |-> I(c)[T]]
      BY <1>1, <1>13 DEF GroupStep
    <3> HIDE DEF I
    <3> QED
      BY <3>1
  <2> QED
    BY <1>16, <2>1
<1>18. ASSUME NEW m \in 1..n PROVE c[1..m] = AddToGroup(c[1..(m - 1)], ls[m])
  <2>1. 1..m \in SUBSET S /\ 1..m # {} /\ m \in 1..m
    BY <1>1 DEF S
  <2>2. Max(1..m) \in 1..m /\ m <= Max(1..m)
    BY <1>1, <2>1, LastPosition DEF S
  <2>3. Max(1..m) = m
    BY <2>2
  <2>4. (1..m) \ {m} = 1..(m - 1)
    BY <1>1
  <2> QED
    BY <1>15, <2>1, <2>3, <2>4
<1>19. c[{}] = <<>>
  BY <1>15
<1> QED
  BY <1>14, <1>17, <1>18, <1>19 DEF S, n

\* The amounts of a line, by its position.
LEMMA AmountFacts ==
  ASSUME NEW ls \in Seq(Line)
  PROVE  /\ Len(ls) \in Nat /\ IsFiniteSet(1..Len(ls))
         /\ \A k \in 1..Len(ls) : ls[k] \in Line
         /\ \A k \in 1..Len(ls) : Nets(ls)[k] = ls[k].net /\ Nets(ls)[k] \in Int
         /\ \A k \in 1..Len(ls) : Taxes(ls)[k] = ls[k].tax /\ Taxes(ls)[k] \in Int
         /\ DOMAIN Nets(ls) = 1..Len(ls) /\ DOMAIN Taxes(ls) = 1..Len(ls)
<1>1. Len(ls) \in Nat /\ \A k \in 1..Len(ls) : ls[k] \in Line
  OBVIOUS
<1>2. IsFiniteSet(1..Len(ls))
  BY <1>1, FS_Interval
<1>3. \A l \in Line : l.net \in Int /\ l.tax \in Int
  BY DEF Line
<1> QED
  BY <1>1, <1>2, <1>3 DEF Nets, Taxes

\* The breakdowns the first m lines make.
Upto(ls, m, p) == {k \in 1..m : ls[k].percent = p}
Percents(ls, m) == {ls[k].percent : k \in 1..m}
NetUpto(ls, m, p) == SumFunctionOnSet(Nets(ls), Upto(ls, m, p))
TaxUpto(ls, m, p) == SumFunctionOnSet(Taxes(ls), Upto(ls, m, p))

Summed(ls, m, g) ==
  /\ DOMAIN g = Percents(ls, m)
  /\ \A p \in Percents(ls, m) :
       g[p] = [net |-> NetUpto(ls, m, p), tax |-> TaxUpto(ls, m, p)]

\* A line adds its amounts to those of its percentage and to no others.
LEMMA NextLine ==
  ASSUME NEW ls \in Seq(Line), NEW m \in Nat, m + 1 <= Len(ls)
  PROVE  LET l == ls[m + 1] IN
         /\ Percents(ls, m + 1) = Percents(ls, m) \cup {l.percent}
         /\ \A p : p # l.percent =>
              /\ NetUpto(ls, m + 1, p) = NetUpto(ls, m, p)
              /\ TaxUpto(ls, m + 1, p) = TaxUpto(ls, m, p)
         /\ NetUpto(ls, m + 1, l.percent) = l.net + NetUpto(ls, m, l.percent)
         /\ TaxUpto(ls, m + 1, l.percent) = l.tax + TaxUpto(ls, m, l.percent)
         /\ NetUpto(ls, m, l.percent) \in Int /\ TaxUpto(ls, m, l.percent) \in Int
         /\ l.percent \notin Percents(ls, m) =>
              NetUpto(ls, m, l.percent) = 0 /\ TaxUpto(ls, m, l.percent) = 0
<1> DEFINE n == Len(ls)
           S == 1..n
           q == ls[m + 1].percent
           A == Upto(ls, m, q)
           B == Upto(ls, m + 1, q)
<1>1. /\ n \in Nat /\ IsFiniteSet(S)
      /\ \A k \in S : Nets(ls)[k] = ls[k].net /\ Nets(ls)[k] \in Int
      /\ \A k \in S : Taxes(ls)[k] = ls[k].tax /\ Taxes(ls)[k] \in Int
  BY AmountFacts
<1>2. m + 1 \in S
  BY <1>1
<1>3. Percents(ls, m + 1) = Percents(ls, m) \cup {q}
  BY DEF Percents
<1>4. \A p : p # q => Upto(ls, m + 1, p) = Upto(ls, m, p)
  BY DEF Upto
<1>5. B \ {m + 1} = A /\ m + 1 \in B /\ B \in SUBSET S /\ A \in SUBSET S
  BY <1>1 DEF Upto
<1>6. q \notin Percents(ls, m) => A = {}
  BY DEF Upto, Percents
<1> HIDE DEF A, B, S, n
<1>7. /\ SumFunctionOnSet(Nets(ls), {}) = 0
      /\ SumFunctionOnSet(Nets(ls), A) \in Int
      /\ SumFunctionOnSet(Nets(ls), B)
           = Nets(ls)[m + 1] + SumFunctionOnSet(Nets(ls), B \ {m + 1})
  <2> DEFINE f == Nets(ls)
  <2>1. \A k \in S : f[k] \in Int
    BY <1>1
  <2> HIDE DEF f
  <2>2. /\ SumFunctionOnSet(f, {}) = 0 /\ SumFunctionOnSet(f, A) \in Int
        /\ SumFunctionOnSet(f, B) = f[m + 1] + SumFunctionOnSet(f, B \ {m + 1})
    BY <1>1, <1>5, <2>1, Sums
  <2> QED
    BY <2>2 DEF f
<1>8. /\ SumFunctionOnSet(Taxes(ls), {}) = 0
      /\ SumFunctionOnSet(Taxes(ls), A) \in Int
      /\ SumFunctionOnSet(Taxes(ls), B)
           = Taxes(ls)[m + 1] + SumFunctionOnSet(Taxes(ls), B \ {m + 1})
  <2> DEFINE f == Taxes(ls)
  <2>1. \A k \in S : f[k] \in Int
    BY <1>1
  <2> HIDE DEF f
  <2>2. /\ SumFunctionOnSet(f, {}) = 0 /\ SumFunctionOnSet(f, A) \in Int
        /\ SumFunctionOnSet(f, B) = f[m + 1] + SumFunctionOnSet(f, B \ {m + 1})
    BY <1>1, <1>5, <2>1, Sums
  <2> QED
    BY <2>2 DEF f
<1> QED
  BY <1>1, <1>2, <1>3, <1>4, <1>5, <1>6, <1>7, <1>8 DEF NetUpto, TaxUpto, A, B

\* A line keeps the breakdowns right.
LEMMA SummedNext ==
  ASSUME NEW ls \in Seq(Line), NEW m \in Nat, m + 1 <= Len(ls),
         NEW g \in Groups, Summed(ls, m, g)
  PROVE  Summed(ls, m + 1, AddToGroup(g, ls[m + 1]))
<1> DEFINE l == ls[m + 1]
           q == l.percent
           r == AddToGroup(g, l)
<1>1. /\ Percents(ls, m + 1) = Percents(ls, m) \cup {q}
      /\ \A p : p # q =>
           /\ NetUpto(ls, m + 1, p) = NetUpto(ls, m, p)
           /\ TaxUpto(ls, m + 1, p) = TaxUpto(ls, m, p)
      /\ NetUpto(ls, m + 1, q) = l.net + NetUpto(ls, m, q)
      /\ TaxUpto(ls, m + 1, q) = l.tax + TaxUpto(ls, m, q)
      /\ NetUpto(ls, m, q) \in Int /\ TaxUpto(ls, m, q) \in Int
      /\ q \notin Percents(ls, m) =>
           NetUpto(ls, m, q) = 0 /\ TaxUpto(ls, m, q) = 0
  BY NextLine
<1>2. l \in Line /\ l.net \in Int /\ l.tax \in Int
  <2>1. l \in Line
    OBVIOUS
  <2> QED
    BY <2>1 DEF Line
<1>3. /\ DOMAIN g = Percents(ls, m)
      /\ \A p \in Percents(ls, m) :
           g[p] = [net |-> NetUpto(ls, m, p), tax |-> TaxUpto(ls, m, p)]
  BY DEF Summed
<1> HIDE DEF l
<1>4. /\ DOMAIN r = DOMAIN g \cup {q}
      /\ \A p \in DOMAIN r :
           /\ p # q => r[p] = g[p]
           /\ p = q => r[p] =
                IF p \in DOMAIN g
                THEN [net |-> g[p].net + l.net, tax |-> g[p].tax + l.tax]
                ELSE [net |-> l.net, tax |-> l.tax]
  BY <1>2, AddFacts
<1> HIDE DEF r
<1>5. ASSUME NEW p \in Percents(ls, m + 1)
      PROVE  r[p] = [net |-> NetUpto(ls, m + 1, p), tax |-> TaxUpto(ls, m + 1, p)]
  <2>1. CASE p # q
    BY <1>1, <1>3, <1>4, <2>1
  <2>2. CASE p = q /\ q \in Percents(ls, m)
    <3>1. g[q].net = NetUpto(ls, m, q) /\ g[q].tax = TaxUpto(ls, m, q)
      BY <1>3, <2>2
    <3>2. r[q] = [net |-> g[q].net + l.net, tax |-> g[q].tax + l.tax]
      BY <1>1, <1>3, <1>4, <2>2
    <3>3. g[q].net + l.net = NetUpto(ls, m + 1, q) /\ g[q].tax + l.tax = TaxUpto(ls, m + 1, q)
      BY <1>1, <1>2, <3>1
    <3> QED
      BY <2>2, <3>2, <3>3
  <2>3. CASE p = q /\ q \notin Percents(ls, m)
    <3>1. r[q] = [net |-> l.net, tax |-> l.tax]
      BY <1>1, <1>3, <1>4, <2>3
    <3>2. l.net = NetUpto(ls, m + 1, q) /\ l.tax = TaxUpto(ls, m + 1, q)
      BY <1>1, <1>2, <2>3
    <3> QED
      BY <2>3, <3>1, <3>2
  <2> QED
    BY <2>1, <2>2, <2>3
<1> QED
  BY <1>1, <1>3, <1>4, <1>5 DEF Summed, r, l

\* The breakdowns of lines: one for each percentage they carry, with the sums
\* of the amounts at that percentage.
LEMMA GroupSums ==
  ASSUME NEW ls \in Seq(Line)
  PROVE  LET tb == BuildTaxBreakdowns(ls) IN
         /\ DOMAIN tb = {ls[k].percent : k \in 1..Len(ls)}
         /\ \A p \in DOMAIN tb :
              /\ tb[p].net = SumFunctionOnSet(Nets(ls), At(ls, p))
              /\ tb[p].tax = SumFunctionOnSet(Taxes(ls), At(ls, p))
<1> DEFINE n == Len(ls)
<1>1. PICK g \in [SUBSET (1..n) -> Groups] :
        /\ BuildTaxBreakdowns(ls) = g[1..n]
        /\ g[{}] = <<>>
        /\ \A m \in 1..n : g[1..m] = AddToGroup(g[1..(m - 1)], ls[m])
  BY GroupFold
<1>2. n \in Nat
  OBVIOUS
<1> DEFINE M == {m \in Nat : m <= n => Summed(ls, m, g[1..m])}
<1>3. 0 \in M
  <2>1. 1..0 = {} /\ Percents(ls, 0) = {} /\ DOMAIN g[{}] = {}
    BY <1>1 DEF Percents
  <2>2. Summed(ls, 0, g[1..0])
    BY <2>1 DEF Summed
  <2> QED
    BY <2>2
<1>4. ASSUME NEW m \in M PROVE m + 1 \in M
  <2>1. m \in Nat /\ m + 1 \in Nat
    OBVIOUS
  <2>2. ASSUME m + 1 <= n PROVE Summed(ls, m + 1, g[1..(m + 1)])
    <3>1. m + 1 \in 1..n /\ (m + 1) - 1 = m /\ 1..m \in SUBSET (1..n) /\ m <= n
      BY <1>2, <2>1, <2>2
    <3>2. g[1..(m + 1)] = AddToGroup(g[1..m], ls[m + 1]) /\ g[1..m] \in Groups
      BY <1>1, <3>1
    <3>3. Summed(ls, m, g[1..m])
      BY <3>1
    <3> QED
      BY <2>1, <2>2, <3>2, <3>3, SummedNext
  <2> QED
    BY <2>1, <2>2
<1>5. M = Nat
  <2>1. M \in SUBSET Nat
    OBVIOUS
  <2> HIDE DEF M
  <2> QED
    BY <1>3, <1>4, <2>1, NatInd
<1>6. n \in M
  <2> HIDE DEF M
  <2> QED
    BY <1>2, <1>5
<1>7. Summed(ls, n, g[1..n])
  BY <1>2, <1>6
<1>8. /\ DOMAIN g[1..n] = Percents(ls, n)
      /\ \A p \in Percents(ls, n) :
           /\ g[1..n][p].net = NetUpto(ls, n, p)
           /\ g[1..n][p].tax = TaxUpto(ls, n, p)
  <2> DEFINE G == g[1..n]
  <2>1. Summed(ls, n, G)
    BY <1>7
  <2> HIDE DEF G, n
  <2>2. /\ DOMAIN G = Percents(ls, n)
        /\ \A p \in Percents(ls, n) :
             G[p] = [net |-> NetUpto(ls, n, p), tax |-> TaxUpto(ls, n, p)]
    BY <2>1 DEF Summed
  <2>3. \A p \in Percents(ls, n) :
          G[p].net = NetUpto(ls, n, p) /\ G[p].tax = TaxUpto(ls, n, p)
    BY <2>2
  <2> QED
    BY <2>2, <2>3 DEF G
<1>9. \A p : Upto(ls, n, p) = At(ls, p)
  BY DEF Upto, At
<1> QED
  BY <1>1, <1>8, <1>9 DEF Percents, NetUpto, TaxUpto

-----------------------------------------------------------------------------
\* A column keeps an amount in whole hundredths.
LEMMA ColumnExact ==
  ASSUME NEW a \in Int, a % 10 = 0
  PROVE  ToColumn(a) = a
<1>1. PICK b \in Int : a = 10 * b
  <2>1. a \div 10 \in Int /\ a = 10 * (a \div 10)
    OBVIOUS
  <2> QED
    BY <2>1
<1> QED
  BY <1>1 DEF ToColumn

\* The lines of an invoice in whole hundredths, in the order they were read,
\* carry the amounts and percentages of the request.
LEMMA ReadAmounts ==
  ASSUME NEW r \in Requests, WholeCents(r), NEW ls \in Reads(StoredLines(r)),
         Len(ls) = Len(StoredLines(r))
  PROVE  /\ ls \in Seq(Line) /\ Len(ls) = Len(r.lines)
         /\ \E p \in Bijection(1..Len(r.lines), 1..Len(r.lines)) :
              \A k \in 1..Len(r.lines) :
                /\ ls[k].net = r.lines[p[k]].net
                /\ ls[k].tax = r.lines[p[k]].tax
                /\ ls[k].percent = r.lines[p[k]].percent
<1> DEFINE s == StoredLines(r)
           n == Len(r.lines)
<1>1. /\ s \in Seq(Line) /\ Len(s) = n
      /\ \A k \in 1..n : s[k] = StoredLine(r.lines[k]) /\ r.lines[k] \in Line
  BY StoredFacts
<1> HIDE DEF s, n
<1>2. PICK p \in Bijection(1..n, 1..n) : ls = [k \in 1..n |-> s[p[k]]]
  BY <1>1, ReadFacts DEF s
<1>3. ls \in Seq(Line) /\ n \in Nat
  BY <1>1, ReadFacts DEF s
<1>4. \A k \in 1..n : p[k] \in 1..n
  BY <1>3, PermutationFacts
<1>5. ASSUME NEW j \in 1..n
      PROVE  /\ s[j].net = r.lines[j].net /\ s[j].tax = r.lines[j].tax
             /\ s[j].percent = r.lines[j].percent
  <2> DEFINE l == r.lines[j]
  <2>1. l \in Line /\ s[j] = StoredLine(l)
    BY <1>1
  <2>2. l.net % 10 = 0 /\ l.tax % 10 = 0
    BY DEF WholeCents, AmountsOf, n
  <2> HIDE DEF l
  <2>3. l.net \in Int /\ l.tax \in Int
    BY <2>1 DEF Line
  <2>4. ToColumn(l.net) = l.net /\ ToColumn(l.tax) = l.tax
    BY <2>2, <2>3, ColumnExact
  <2>5. /\ StoredLine(l).net = ToColumn(l.net) /\ StoredLine(l).tax = ToColumn(l.tax)
        /\ StoredLine(l).percent = l.percent
    BY <2>1 DEF StoredLine, Line
  <2> QED
    BY <2>1, <2>4, <2>5 DEF l
<1>6. \A k \in 1..n : ls[k] = s[p[k]]
  BY <1>2
<1> QED
  BY <1>1, <1>3, <1>4, <1>5, <1>6 DEF s, n

\* Lines in another order have the same percentages and the same sums.
LEMMA PermutedSums ==
  ASSUME NEW ls \in Seq(Line), NEW ms \in Seq(Line), Len(ls) = Len(ms),
         NEW p \in Bijection(1..Len(ms), 1..Len(ms)),
         \A k \in 1..Len(ms) :
           /\ ls[k].net = ms[p[k]].net
           /\ ls[k].tax = ms[p[k]].tax
           /\ ls[k].percent = ms[p[k]].percent
  PROVE  /\ {ls[k].percent : k \in 1..Len(ms)} = {ms[k].percent : k \in 1..Len(ms)}
         /\ \A q : /\ SumFunctionOnSet(Nets(ls), At(ls, q)) = SumFunctionOnSet(Nets(ms), At(ms, q))
                   /\ SumFunctionOnSet(Taxes(ls), At(ls, q)) = SumFunctionOnSet(Taxes(ms), At(ms, q))
<1> DEFINE n == Len(ms)
           S == 1..n
<1>1. /\ IsFiniteSet(S)
      /\ \A k \in S : Nets(ls)[k] = ls[k].net /\ Nets(ls)[k] \in Int
      /\ \A k \in S : Taxes(ls)[k] = ls[k].tax /\ Taxes(ls)[k] \in Int
      /\ \A k \in S : Nets(ms)[k] = ms[k].net /\ Nets(ms)[k] \in Int
      /\ \A k \in S : Taxes(ms)[k] = ms[k].tax /\ Taxes(ms)[k] \in Int
  BY AmountFacts
<1>2. n \in Nat
  OBVIOUS
<1> HIDE DEF n
<1>3. /\ p \in [S -> S]
      /\ \A j, k \in S : p[j] = p[k] => j = k
      /\ \A v \in S : \E k \in S : p[k] = v
  BY <1>2, PermutationFacts DEF n
<1>4. \A k \in S : /\ ls[k].net = ms[p[k]].net /\ ls[k].tax = ms[p[k]].tax
                   /\ ls[k].percent = ms[p[k]].percent
  BY DEF n
<1> HIDE DEF S
<1>5. \A k \in S : Nets(ls)[k] = Nets(ms)[p[k]] /\ Taxes(ls)[k] = Taxes(ms)[p[k]]
  BY <1>1, <1>3, <1>4
<1>6. {ls[k].percent : k \in S} = {ms[k].percent : k \in S}
  <2>1. ASSUME NEW k \in S PROVE ls[k].percent \in {ms[j].percent : j \in S}
    <3>1. p[k] \in S /\ ls[k].percent = ms[p[k]].percent
      BY <1>3, <1>4
    <3> QED
      BY <3>1
  <2>2. ASSUME NEW k \in S PROVE ms[k].percent \in {ls[j].percent : j \in S}
    <3>1. PICK j \in S : p[j] = k
      BY <1>3
    <3>2. ls[j].percent = ms[k].percent
      BY <1>4, <3>1
    <3> QED
      BY <3>2
  <2> QED
    BY <2>1, <2>2
<1>7. ASSUME NEW q
      PROVE  /\ SumFunctionOnSet(Nets(ls), At(ls, q)) = SumFunctionOnSet(Nets(ms), At(ms, q))
             /\ SumFunctionOnSet(Taxes(ls), At(ls, q)) = SumFunctionOnSet(Taxes(ms), At(ms, q))
  <2> DEFINE T == {k \in S : ls[k].percent = q}
             f == Nets(ls)
             g == Nets(ms)
             u == Taxes(ls)
             v == Taxes(ms)
  <2>1. T = At(ls, q) /\ T \in SUBSET S
    BY DEF At, S, n
  <2>2. Matched(p, T) = {k \in S : ms[k].percent = q}
    BY <1>3, <1>4 DEF Matched
  <2>3. {k \in S : ms[k].percent = q} = At(ms, q)
    BY DEF At, S, n
  <2> HIDE DEF T, f, g, u, v
  <2>4. SumFunctionOnSet(f, T) = SumFunctionOnSet(g, Matched(p, T))
    <3>1. /\ \A k \in S : f[k] \in Int
          /\ \A k \in S : g[k] \in Int
          /\ \A k \in S : f[k] = g[p[k]]
      BY <1>1, <1>5 DEF f, g
    <3>2. IsFiniteSet(S)
      BY <1>1
    <3>3. Matching(S, f, S, g, p)
      BY <1>3, <3>1, <3>2 DEF Matching
    <3> QED
      BY <2>1, <3>3, SumMatched
  <2>5. SumFunctionOnSet(u, T) = SumFunctionOnSet(v, Matched(p, T))
    <3>1. /\ \A k \in S : u[k] \in Int
          /\ \A k \in S : v[k] \in Int
          /\ \A k \in S : u[k] = v[p[k]]
      BY <1>1, <1>5 DEF u, v
    <3>2. IsFiniteSet(S)
      BY <1>1
    <3>3. Matching(S, u, S, v, p)
      BY <1>3, <3>1, <3>2 DEF Matching
    <3> QED
      BY <2>1, <3>3, SumMatched
  <2> QED
    BY <2>1, <2>2, <2>3, <2>4, <2>5 DEF f, g, u, v
<1> QED
  BY <1>6, <1>7 DEF S, n

\* The sum over all lines is the sum of what their percentages sum to.
LEMMA TotalOfGroups ==
  ASSUME NEW ms \in Seq(Line), NEW f,
         \A k \in 1..Len(ms) : f[k] \in Int,
         DOMAIN f = 1..Len(ms),
         NEW s, DOMAIN s = {ms[k].percent : k \in 1..Len(ms)},
         \A q \in DOMAIN s : s[q] = SumFunctionOnSet(f, At(ms, q))
  PROVE  SumFunction(s) = SumFunction(f)
<1> DEFINE S == 1..Len(ms)
           D == DOMAIN s
           c == [k \in S |-> ms[k].percent]
<1>1. IsFiniteSet(S) /\ S \in SUBSET S /\ D \in SUBSET D
  BY AmountFacts
<1>2. SumFunction(f) = SumFunctionOnSet(f, S) /\ SumFunction(s) = SumFunctionOnSet(s, D)
  BY DEF SumFunction
<1>3. c \in Surjection(S, D)
  BY DEF Surjection
<1>4. IsFiniteSet(D)
  <2> HIDE DEF S, D, c
  <2> QED
    BY <1>1, <1>3, FS_Surjection
<1>5. \A q \in D : s[q] = SumFunctionOnSet(f, Grouped(S, c, {q}))
  <2> TAKE q \in D
  <2>1. Grouped(S, c, {q}) = At(ms, q)
    BY DEF At, Grouped
  <2> QED
    BY <2>1
<1>6. Grouped(S, c, D) = S
  BY DEF Grouped
<1>7. \A k \in S : f[k] \in Int
  OBVIOUS
<1> HIDE DEF S, D, c
<1>8. SumFunctionOnSet(s, D) = SumFunctionOnSet(f, S)
  <2>1. Grouping(S, f, D, c, s)
    BY <1>1, <1>4, <1>5, <1>7 DEF Grouping
  <2> QED
    BY <1>1, <1>6, <2>1, SumGroups
<1> QED
  BY <1>2, <1>8

\* The totals of a body in whole hundredths are sent as they came.
LEMMA TotalsSent ==
  ASSUME NEW r \in Requests, WholeCents(r), NEW ls
  PROVE  LET w == MapInvoiceToViettel(r, ls) IN
         w.net = r.net /\ w.tax = r.tax /\ w.gross = r.gross
<1>1. \A a \in AmountsOf(r) : a \in Int /\ a % 10 = 0
  BY AmountsAreInts DEF WholeCents
<1>2. \A a \in AmountsOf(r) : ToColumn(a) = a
  BY <1>1, ColumnExact
<1>3. r.net \in AmountsOf(r) /\ r.tax \in AmountsOf(r) /\ r.gross \in AmountsOf(r)
  BY DEF AmountsOf
<1> QED
  BY <1>2, <1>3 DEF MapInvoiceToViettel

\* For every body in whole hundredths and every order of the table, Viettel gets
\* the lines summed by percentage, and totals that differ from them by what they
\* differ by in the body.
THEOREM BreakdownsAddUp == RequestSpec => []TotalsAgree
<1>1. RequestTypeOK /\ ReadInv => TotalsAgree
  <2> DEFINE ms == request.lines
             tb == wire.breakdowns
  <2> SUFFICES ASSUME RequestTypeOK, ReadInv, stage = "sent", Whole, WholeCents(request)
               PROVE  /\ DOMAIN tb = {ms[k].percent : k \in 1..Len(ms)}
                      /\ \A p \in DOMAIN tb :
                           /\ tb[p].net = SumFunctionOnSet(Nets(ms), At(ms, p))
                           /\ tb[p].tax = SumFunctionOnSet(Taxes(ms), At(ms, p))
                      /\ wire.net - SumFunction([p \in DOMAIN tb |-> tb[p].net])
                           = request.net - SumFunction(Nets(ms))
                      /\ wire.tax - SumFunction([p \in DOMAIN tb |-> tb[p].tax])
                           = request.tax - SumFunction(Taxes(ms))
                      /\ wire.gross - (wire.net + wire.tax)
                           = request.gross - (request.net + request.tax)
    BY DEF TotalsAgree
  <2>1. /\ request \in Requests /\ stored = StoredLines(request)
        /\ lines \in Reads(stored) /\ wire = MapInvoiceToViettel(request, lines)
    BY DEF RequestTypeOK, ReadInv
  <2>2. ms \in Seq(Line)
    BY <2>1, StoredFacts
  <2>3. /\ tb = BuildTaxBreakdowns(lines)
        /\ wire.net = request.net /\ wire.tax = request.tax /\ wire.gross = request.gross
    BY <2>1, TotalsSent DEF MapInvoiceToViettel
  <2>4. /\ lines \in Seq(Line) /\ Len(lines) = Len(ms)
        /\ \E p \in Bijection(1..Len(ms), 1..Len(ms)) :
             \A k \in 1..Len(ms) :
               /\ lines[k].net = ms[p[k]].net
               /\ lines[k].tax = ms[p[k]].tax
               /\ lines[k].percent = ms[p[k]].percent
    BY <2>1, ReadAmounts DEF Whole
  <2>5. /\ {lines[k].percent : k \in 1..Len(ms)} = {ms[k].percent : k \in 1..Len(ms)}
        /\ \A q : /\ SumFunctionOnSet(Nets(lines), At(lines, q)) = SumFunctionOnSet(Nets(ms), At(ms, q))
                  /\ SumFunctionOnSet(Taxes(lines), At(lines, q)) = SumFunctionOnSet(Taxes(ms), At(ms, q))
    BY <2>2, <2>4, PermutedSums
  <2> DEFINE G == BuildTaxBreakdowns(lines)
  <2>6. /\ DOMAIN G = {lines[k].percent : k \in 1..Len(lines)}
        /\ \A p \in DOMAIN G :
             /\ G[p].net = SumFunctionOnSet(Nets(lines), At(lines, p))
             /\ G[p].tax = SumFunctionOnSet(Taxes(lines), At(lines, p))
    BY <2>4, GroupSums
  <2>7. /\ DOMAIN tb = {ms[k].percent : k \in 1..Len(ms)}
        /\ \A p \in DOMAIN tb :
             /\ tb[p].net = SumFunctionOnSet(Nets(ms), At(ms, p))
             /\ tb[p].tax = SumFunctionOnSet(Taxes(ms), At(ms, p))
    BY <2>3, <2>4, <2>5, <2>6
  <2> HIDE DEF ms, tb
  <2>8. /\ DOMAIN Nets(ms) = 1..Len(ms) /\ DOMAIN Taxes(ms) = 1..Len(ms)
        /\ \A k \in 1..Len(ms) : Nets(ms)[k] \in Int /\ Taxes(ms)[k] \in Int
    BY <2>2, AmountFacts
  <2>9. SumFunction([p \in DOMAIN tb |-> tb[p].net]) = SumFunction(Nets(ms))
    <3> DEFINE s == [p \in DOMAIN tb |-> tb[p].net]
               f == Nets(ms)
    <3>1. /\ DOMAIN s = {ms[k].percent : k \in 1..Len(ms)}
          /\ \A q \in DOMAIN s : s[q] = SumFunctionOnSet(f, At(ms, q))
      BY <2>7
    <3>2. DOMAIN f = 1..Len(ms) /\ \A k \in 1..Len(ms) : f[k] \in Int
      BY <2>8
    <3> HIDE DEF s, f
    <3>3. SumFunction(s) = SumFunction(f)
      BY <2>2, <3>1, <3>2, TotalOfGroups
    <3> QED
      BY <3>3 DEF s, f
  <2>10. SumFunction([p \in DOMAIN tb |-> tb[p].tax]) = SumFunction(Taxes(ms))
    <3> DEFINE s == [p \in DOMAIN tb |-> tb[p].tax]
               f == Taxes(ms)
    <3>1. /\ DOMAIN s = {ms[k].percent : k \in 1..Len(ms)}
          /\ \A q \in DOMAIN s : s[q] = SumFunctionOnSet(f, At(ms, q))
      BY <2>7
    <3>2. DOMAIN f = 1..Len(ms) /\ \A k \in 1..Len(ms) : f[k] \in Int
      BY <2>8
    <3> HIDE DEF s, f
    <3>3. SumFunction(s) = SumFunction(f)
      BY <2>2, <3>1, <3>2, TotalOfGroups
    <3> QED
      BY <3>3 DEF s, f
  <2> QED
    BY <2>3, <2>7, <2>9, <2>10
<1> QED
  BY <1>1, ReadInvariant, PTL
=============================================================================
