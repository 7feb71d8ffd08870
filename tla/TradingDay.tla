----------------------------- MODULE TradingDay -----------------------------
(***************************************************************************)
(* What GetTradingDay makes of the MAC server's answer and of daily bars.  *)
(* A day is its number; NoDay is the zero time, which an empty date and    *)
(* "0000-00-00" are parsed to.  The trading sessions are left out.         *)
(***************************************************************************)
EXTENDS Naturals, FiniteSetsExt

NoDay == 0

(* The date fields of a reply, or Malformed when there is none or a date     *)
(* that does not parse or is missing where it must not be.                   *)
Parses(reply) == reply.today # NoDay /\ reply.last # NoDay

IsTodayTradingDay(reply) == reply.today = reply.last

(* PreviousTradingDay of tradingDayToDomain. *)
PreviousInReply(reply) ==
  IF ~IsTodayTradingDay(reply) THEN reply.last
  ELSE IF reply.last2 # NoDay /\ reply.last2 < reply.today THEN reply.last2
  ELSE NoDay

(* The bars matter by their days; a bar without a time has NoDay.            *)
previousTradingDayFromBars_First(latest, days) ==
  LET earlier == {d \in days : d # NoDay /\ d < latest}
  IN  IF earlier = {} THEN NoDay ELSE Min(earlier)

previousTradingDayFromBars(latest, days) ==
  LET earlier == {d \in days : d # NoDay /\ d < latest}
  IN  IF earlier = {} THEN NoDay ELSE Max(earlier)

(* The guard of enrichPreviousTradingDay. *)
LacksPrevious(reply) ==
  /\ IsTodayTradingDay(reply)
  /\ LET previous == PreviousInReply(reply)
     IN  ~(previous # NoDay /\ previous < reply.today)

(* The number of symbols whose daily bars are asked for, in turn.            *)
CalendarSymbols == 3

=============================================================================
