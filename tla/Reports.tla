-------------------------------- MODULE Reports --------------------------------
(***************************************************************************)
(* reports/reports.service.ts: the figures of the console, computed from   *)
(* the payments while these are made, saved and refunded: the months of a  *)
(* year, and the headline, which has no year.                              *)
(* Names are Reports' own, so that a module can extend this one beside     *)
(* Refunds.                                                                *)
(***************************************************************************)
EXTENDS Integers, FiniteSets, SequencesExt

CONSTANTS Payment,   \* payments
          Tenant,    \* the platforms they belong to
          AnyTenant, \* no platform is chosen: all of them
          Currency,  \* currencies
          Usd,       \* the one reported where there is none
          Year,      \* years with payments
          Month,     \* months of a year
          Unpaid,    \* the statuses a payment can have but succeeded
          MaxAmount  \* bound: amounts received and refunded of a payment

ASSUME ReportsAssumption == /\ AnyTenant \notin Tenant
                            /\ Usd \in Currency
                            /\ "none" \notin Unpaid /\ "succeeded" \notin Unpaid
                            /\ MaxAmount \in Nat
                            /\ IsFiniteSet(Payment)
                            /\ IsFiniteSet(Year) /\ IsFiniteSet(Month)

VARIABLE payments \* the payments table

Status == Unpaid \cup {"succeeded"}

\* year and month: those of createdAt.
Row == [tenant : Tenant \cup {AnyTenant}, year : Year \cup {0}, month : Month \cup {0},
        currency : Currency, status : Status \cup {"none"},
        received : 0 .. MaxAmount, refunded : 0 .. MaxAmount]

NoRow == [tenant |-> AnyTenant, year |-> 0, month |-> 0, currency |-> Usd, status |-> "none",
          received |-> 0, refunded |-> 0]

ReportsInit == payments = [p \in Payment |-> NoRow]

-----------------------------------------------------------------------------
(* The payments: what Payments and Refunds do to the columns read here.    *)

\* Variant: the row is inserted without its date.
CreateUndated(p) ==
    /\ payments[p].status = "none"
    /\ \E n \in Tenant, c \in Currency, s \in Unpaid :
         payments' = [payments EXCEPT ![p] = [NoRow EXCEPT !.tenant = n, !.currency = c,
                                                           !.status = s]]

CreatePayment(p) ==
    /\ payments[p].status = "none"
    /\ \E n \in Tenant, y \in Year, m \in Month, c \in Currency, s \in Unpaid :
         payments' = [payments EXCEPT ![p] = [NoRow EXCEPT !.tenant = n, !.year = y, !.month = m,
                                                           !.currency = c, !.status = s]]

\* A sync, a handler or a request saves the payment.  The status may be an older one,
\* or failed or processing beside an amount that was received: a failed create and
\* an unpaid session change the status only.  A session of no value succeeds with 0.
SyncPayment(p) ==
    /\ payments[p].status # "none"
    /\ \E s \in Status, amount \in 0 .. MaxAmount :
         payments' = [payments EXCEPT ![p].status = s, ![p].received = amount]

\* The refunded total is computed anew.  It may exceed what was received: a refund that
\* failed counts until its event is handled, beside those made in its place.
RefundPayment(p) ==
    /\ payments[p].status # "none"
    /\ \E total \in 0 .. MaxAmount : payments' = [payments EXCEPT ![p].refunded = total]

ReportsNext == \E p \in Payment : CreatePayment(p) \/ SyncPayment(p) \/ RefundPayment(p)

ReportsSpec == ReportsInit /\ [][ReportsNext]_payments

-----------------------------------------------------------------------------
(* The reports.                                                            *)

SumOf(S, column) == SumFunctionOnSet([p \in Payment |-> payments[p][column]], S)

Visible(n) == {p \in Payment : /\ payments[p].status # "none"
                               /\ n = AnyTenant \/ payments[p].tenant = n}

Having(n, status) == {p \in Visible(n) : payments[p].status = status}

\* What platform n was paid, in all years.
Taken(n) == Having(n, "succeeded")

\* Variant: the year is not filtered by.
TakenEver(y, n) == Taken(n)

\* What it was paid in year y.
TakenIn(y, n) == {p \in Taken(n) : payments[p].year = y}

\* The payments a row of the query stands for; the variant groups by month only.
GroupByMonth(p, q) == payments[p].month = payments[q].month

SameGroup(p, q) == /\ payments[p].month = payments[q].month
                   /\ payments[p].currency = payments[q].currency

\* One row of figures for the payments in S.
Figures(S, m, c) == [month    |-> m,
                     revenue  |-> SumOf(S, "received"),
                     refunded |-> SumOf(S, "refunded"),
                     net      |-> SumOf(S, "received") - SumOf(S, "refunded"),
                     currency |-> c,
                     count    |-> Cardinality(S)]

\* The rows of the query: one for each month of the year and currency.
QueryRows(y, n) ==
    {LET S == {q \in TakenIn(y, n) : SameGroup(p, q)}
     IN  Figures(S, payments[p].month, payments[p].currency) : p \in TakenIn(y, n)}

SetMonth(byMonth, r) == [byMonth EXCEPT ![r.month] = r]

\* The months of a year, filled from its rows in the order the database returns them.
MonthlyRevenue(rows) == FoldLeft(SetMonth, [m \in Month |-> Figures({}, m, Usd)], rows)

\* The headline: everything summed, of all years and currencies.  (The currency it names is
\* that of some payment.)
Summary(n) == [totalPayments  |-> Cardinality(Visible(n)),
               succeededCount |-> Cardinality(Taken(n)),
               countOf        |-> [s \in Unpaid |-> Cardinality(Having(n, s))],
               grossReceived  |-> SumOf(Taken(n), "received"),
               totalRefunded  |-> SumOf(Taken(n), "refunded"),
               netReceived    |-> SumOf(Taken(n), "received") - SumOf(Taken(n), "refunded")]

-----------------------------------------------------------------------------
\* Every payment that was made has a platform, a year and a month.
ReportsTypeOK ==
    /\ payments \in [Payment -> Row]
    /\ \A p \in Payment : payments[p].status # "none" =>
         /\ payments[p].tenant \in Tenant
         /\ payments[p].year \in Year /\ payments[p].month \in Month

Anyone == Tenant \cup {AnyTenant}

\* "Mixed-currency months keep whichever currency the data reports; totals across
\* currencies are never summed" (reports.service.ts:46-48): in whatever order the rows of a
\* year come, a month's figures are those of all its payments in one currency, and a month
\* shows nothing only if nothing was received in it.
MonthsAreOfOneCurrency ==
    \A n \in Anyone, y \in Year : \A rows \in SetToSeqs(QueryRows(y, n)) : \A m \in Month :
      LET r == MonthlyRevenue(rows)[m]
          ofMonth == {p \in TakenIn(y, n) : payments[p].month = m}
          same == {p \in ofMonth : payments[p].currency = r.currency}
      IN  /\ r.revenue = SumOf(same, "received") /\ r.net = r.revenue - SumOf(same, "refunded")
          /\ r.count = Cardinality(same)
          /\ r.count = 0 => ofMonth = {}

-----------------------------------------------------------------------------
(* The two screens.  monthlyRevenue asks for a year and summary for none,  *)
(* so it takes the months of all years to meet the headline.               *)

Calendar == Year \X Month

\* An order of the rows for each year's report.
Orders(n) ==
    {o \in [Year -> UNION {SetToSeqs(QueryRows(y, n)) : y \in Year}] :
       \A y \in Year : o[y] \in SetToSeqs(QueryRows(y, n))}

\* Every month of every year's report.
Months(o) == [d \in Calendar |-> MonthlyRevenue(o[d[1]])[d[2]]]

Total(months, column) == SumFunction([d \in Calendar |-> months[d][column]])

TotalIn(months, column, c) ==
    SumFunction([d \in Calendar |-> IF months[d].currency = c THEN months[d][column] ELSE 0])

TakenOf(n, c) == {p \in Taken(n) : payments[p].currency = c}

\* Some month of some year has payments in two currencies.
MixesCurrencies(n) == \E p, q \in Taken(n) : /\ payments[p].year = payments[q].year
                                             /\ payments[p].month = payments[q].month
                                             /\ payments[p].currency # payments[q].currency

\* For every platform and for all of them, and in whatever order the rows come: if no month
\* mixes currencies, the months of all years count the payments the headline counts, the
\* months in a currency net what was received in it, and the headline's net is theirs where
\* there is but one currency (reports.service.ts:36 and 46-70 against 76-95).  As soon as a
\* month mixes them, the months show fewer payments than the headline counts.
MonthsAddUpToHeadline ==
    \A n \in Anyone : \A o \in Orders(n) :
      LET months == Months(o)
      IN  IF MixesCurrencies(n)
          THEN Total(months, "count") < Summary(n).succeededCount
          ELSE /\ Total(months, "count") = Summary(n).succeededCount
               /\ \A c \in Currency :
                    /\ TotalIn(months, "net", c) = SumOf(TakenOf(n, c), "received")
                                                     - SumOf(TakenOf(n, c), "refunded")
                    /\ Taken(n) = TakenOf(n, c) =>
                         Total(months, "net") = Summary(n).netReceived
=============================================================================
