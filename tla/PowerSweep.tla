----------------------------- MODULE PowerSweep -----------------------------
(***************************************************************************)
(* The ladder of the benchmark's power sweep (bench/quick.py): three       *)
(* fractions of the stock limit, rounded to whole watts, clamped into the  *)
(* range the card supports, duplicates and anything not below stock        *)
(* dropped.                                                                *)
(***************************************************************************)
EXTENDS Integers, Sequences, SequencesExt

(* POWER_SWEEP_CAPS_W, in percent *)
Fractions == <<85, 75, 65>>

Unknown == -1

AtLeast(a, b) == IF a > b THEN a ELSE b
AtMost(a, b) == IF a < b THEN a ELSE b

(* round(stock_w * fraction), a half to the even neighbour, then the clamp *)
(* when both ends are known.  (Up to the binary error of the product, which *)
(* can only matter within it of a half.)                                   *)
Rounded(percents) ==
  LET q == percents \div 100
      r == percents % 100
  IN  IF r > 50 \/ (r = 50 /\ q % 2 = 1) THEN q + 1 ELSE q
Rung(stock, fraction, lo, hi) ==
  LET watts == Rounded(stock * fraction)
  IN  IF lo # Unknown /\ hi # Unknown THEN AtLeast(lo, AtMost(hi, watts)) ELSE watts

(* A fraction whose rung is not below stock, or is there, adds none *)
Longer(caps, stock, fraction, lo, hi) ==
  LET w == Rung(stock, fraction, lo, hi)
  IN  IF w >= stock \/ Contains(caps, w) THEN caps ELSE Append(caps, w)

(* _derive_power_sweep_caps_w: one rung for each of the three fractions *)
DeriveCaps(stock, lo, hi) ==
  LET first  == Longer(<<>>, stock, Fractions[1], lo, hi)
      second == Longer(first, stock, Fractions[2], lo, hi)
  IN  Longer(second, stock, Fractions[3], lo, hi)
=============================================================================
