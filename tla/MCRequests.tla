------------------------------ MODULE MCRequests -----------------------------
EXTENDS Requests

L(number, percent, net, tax) ==
  [number |-> number, percent |-> percent, net |-> net, tax |-> tax]

\* A body with the totals its lines have.
Summed(ls) ==
  LET net == SumFunction(Nets(ls))
      tax == SumFunction(Taxes(ls))
  IN  [lines |-> ls, net |-> net, tax |-> tax, gross |-> net + tax]

\* In order, out of order, without numbers, one or several percentages, with
\* fractions of a hundredth, with an amount or a total of zero, with a percentage
\* that is refused, and none at all.
MCLines ==
  { <<L(1, 10, 1000, 100), L(5, 10, 2000, 200), L(7, 8, 500, 40)>>,
    <<L(2, 10, 1000, 100), L(1, 8, 2000, 160)>>,
    <<L(0, 10, 1000, 100), L(0, 10, 2000, 200)>>,
    <<L(1, -2, -1000, 0), L(2, 10, 3000, 300)>>,
    <<L(1, 10, 1004, 104), L(2, 10, 1004, 104)>>,
    <<L(1, 10, 0, 0)>>, <<L(1, 10, -1000, 0), L(2, 8, 1000, 0)>>,
    <<L(1, 101, 1000, 1010)>>, <<>> }

Plain == [field |-> "notes", size |-> 1, token |-> "VND", special |-> "none",
          nul |-> FALSE, formed |-> TRUE,
          lines |-> <<L(1, 10, 1000, 100)>>, net |-> 1000, tax |-> 100, gross |-> 1100]

\* Empty, at each limit of each layer and one beyond.
Sizes(f) ==
  {0} \cup UNION {{m, m + 1} : m \in {ApiMax[f], ColumnMax[f], ViettelMax[f]}}

\* The largest amount, those around it that are rounded to it, those beyond, and
\* the same below zero.
Edges == UNION {{a, -a} : a \in {MaxAmount, MaxAmount + 4, MaxAmount + 5, MaxAmount + 10}}

FieldBodies ==
  UNION {{[Plain EXCEPT !.field = f, !.size = n, !.token = t] :
            n \in Sizes(f), t \in {"VND", "other"}} : f \in Fields}

KindBodies ==
  {[Plain EXCEPT !.token = t, !.special = s, !.nul = u, !.formed = w] :
     t \in {"none", "VND", "other", "long"}, s \in {"none", "filled", "blank"},
     u \in BOOLEAN, w \in BOOLEAN}

LineBodies ==
  {[Plain EXCEPT !.lines = ls, !.net = Summed(ls).net, !.tax = Summed(ls).tax,
                 !.gross = Summed(ls).gross] : ls \in MCLines}
    \cup {[Plain EXCEPT !.lines[1].number = n] :
            n \in {MaxLineNumber, MaxLineNumber + 1, -(MaxLineNumber + 1), -(MaxLineNumber + 2)}}

\* Totals the lines do not have among them.
TotalBodies ==
  {[Plain EXCEPT !.net = n, !.tax = t, !.gross = g] :
     n \in {0, 990, 1000, 1004}, t \in {0, 90, 100}, g \in {0, 1100, 1200}}

EdgeBodies ==
  UNION {{[Plain EXCEPT !.net = a], [Plain EXCEPT !.tax = a], [Plain EXCEPT !.gross = a],
          [Plain EXCEPT !.lines[1].net = a], [Plain EXCEPT !.lines[1].tax = a]} : a \in Edges}

MCRequestSet ==
  {r : r \in FieldBodies \cup KindBodies \cup LineBodies \cup TotalBodies \cup EdgeBodies}

\* Without a seller, and with one, as the program may be configured, and each
\* setting left out, at its limit and one beyond.
NoSeller == [s \in Settings |-> IF s \in SellerSettings THEN 0 ELSE 1]
Seller == [s \in Settings |-> 1]

MCConfigs ==
  {NoSeller, [NoSeller EXCEPT !["email"] = SettingMax["email"] + 1]}
    \cup UNION {{[Seller EXCEPT ![s] = n] : n \in {0, SettingMax[s], SettingMax[s] + 1}} :
                s \in Settings}
=============================================================================
