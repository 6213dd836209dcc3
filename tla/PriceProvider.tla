------------------------------ MODULE PriceProvider ------------------------------
(***************************************************************************)
(* Where prices come from (ingestion/prices/provider.py, yahoo.py,         *)
(* matriks.py) and when the exchanges trade (services/quotes.py).  Yahoo   *)
(* answers with a frame of daily or intraday bars in which any cell may be *)
(* a hole; the Matriks slot refuses every call.                            *)
(*   A frame is, of a symbol, a set of rows [t, open, close]; open stands  *)
(* for the three prices other than the close.  A cell is a price or Hole.  *)
(***************************************************************************)
EXTENDS RuntimeSettings, Sequences, SequencesExt

CONSTANTS Hole,
          NoAnswer,   \* None
          Segments,  \* of a market: its sessions of a day, <<from, to>> in slots, in order
          DaySlots   \* slots in a day

VARIABLES
    keyed,  \* the Matriks credentials are in .env
    clock,  \* in seconds, for the caches
    instant \* in slots, for the market hours

priceVars == <<settingVars, keyed, clock, instant>>

PriceInit == SettingsInit /\ keyed \in BOOLEAN /\ clock = 0 /\ instant = 0

Providers == {"yahoo", "matriks"}

\* resolve_provider: a choice without credentials falls back to Yahoo.
Resolve(name) == IF name = "matriks" /\ ~keyed THEN "yahoo" ELSE name

ByTime(rows) == SetToSortSeq(rows, LAMBDA a, b : a.t < b.t)

Tail2(s, n) == SubSeq(s, IF Len(s) > n THEN Len(s) - n + 1 ELSE 1, Len(s))

\* parse_quote: the last close and, against the one before, the change.
ParseQuote(rows) ==
    LET closes == ByTime({b \in rows : b.close # Hole})
        n == Len(closes)
    IN  IF n = 0 \/ closes[n].close = 0 THEN NoAnswer
        ELSE [price |-> closes[n].close, session |-> closes[n].t,
              since |-> IF n > 1 /\ closes[n - 1].close > 0 THEN closes[n - 1].close ELSE NoAnswer]

\* YahooProvider.quotes: the tickers it can answer; none of them is an outage.
YahooQuotes(frame) ==
    [k \in {x \in DOMAIN frame : ParseQuote(frame[x]) # NoAnswer} |-> ParseQuote(frame[k])]

\* parse_bars, parse_candles: a daily bar needs its close, an intraday one all four prices.
ParseBars(rows) == {b \in rows : b.close # Hole}
ParseCandles(rows) == {b \in rows : b.close # Hole /\ b.open # Hole}

-------------------------------------------------------------------------------
\* market_state.  An instant is a slot, counted from midnight of a Monday.

DayOf(i) == i \div DaySlots

TradingDay(d, holidays) == d % 7 < 5 /\ d \notin holidays

\* The session of market m at instant i, or 0.
SessionAt(m, i, holidays) ==
    IF ~TradingDay(DayOf(i), holidays) THEN 0
    ELSE LET in == {k \in 1 .. Len(Segments[m]) :
                        i % DaySlots \in Segments[m][k][1] .. Segments[m][k][2] - 1}
         IN  IF in = {} THEN 0 ELSE CHOOSE k \in in : TRUE

NextTradingDay(d, holidays) == CHOOSE e \in d + 1 .. d + 14 :
    TradingDay(e, holidays) /\ \A x \in d + 1 .. e - 1 : ~TradingDay(x, holidays)

\* Mutant: tomorrow is taken for a trading day.
NextOpenTomorrow(m, i, holidays) == (DayOf(i) + 1) * DaySlots + Segments[m][1][1]

\* Of a closed exchange: a later session of the day, else the first of the next trading day.
NextOpen(m, i, holidays) ==
    LET today == IF TradingDay(DayOf(i), holidays)
                 THEN {k \in 1 .. Len(Segments[m]) : i % DaySlots < Segments[m][k][1]} ELSE {}
    IN  IF today # {} THEN DayOf(i) * DaySlots + Segments[m][CHOOSE k \in today : \A x \in today : k <= x][1]
        ELSE NextTradingDay(DayOf(i), holidays) * DaySlots + Segments[m][1][1]

\* next_change_at.
NextChange(m, i, holidays) ==
    LET now == SessionAt(m, i, holidays)
    IN  IF now # 0 THEN DayOf(i) * DaySlots + Segments[m][now][2] ELSE NextOpen(m, i, holidays)
=============================================================================
