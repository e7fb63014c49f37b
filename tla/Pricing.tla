------------------------------- MODULE Pricing -------------------------------
(***************************************************************************)
(* The price of a ride in baht by its distance in metres,                  *)
(* DriveRequestsService.calculatePriceByDistanceMeters. The distance is    *)
(* floored to kilometres before it is compared with the tiers.             *)
(***************************************************************************)
EXTENDS Integers, TLAPS

DistanceKm(metres) == metres \div 1000

\* The tiers of 1.1 and 1.5 km, in tenths of a kilometre.
PriceOfKm(km) ==
  IF 10 * km <= 11 THEN 15
  ELSE IF 10 * km <= 15 THEN 20
  ELSE IF km <= 2 THEN 25
  ELSE IF km <= 5 THEN (km - 2) * 5 + 25
  ELSE IF km <= 10 THEN (km - 5) * 10 + 40
  ELSE 90

Price(metres) == PriceOfKm(DistanceKm(metres))

\* A distance of 0 is refused with an Error.
Distances == Nat \ {0}
-----------------------------------------------------------------------------
\* A longer way is never cheaper, across the borders of the tiers as within them:
\* each tier starts where the one before ends.
THEOREM PriceIsMonotone ==
  ASSUME NEW near \in Distances, NEW far \in Distances, near <= far
  PROVE  Price(near) <= Price(far)
<1> DEFINE a == DistanceKm(near)
           b == DistanceKm(far)
<1>1. a \in Nat /\ b \in Nat /\ a <= b
  BY DEF DistanceKm, Distances
<1> HIDE DEF a, b
<1>2. PriceOfKm(a) <= PriceOfKm(b)
  BY <1>1 DEF PriceOfKm
<1> QED
  BY <1>2 DEF Price, a, b

\* A ride costs from 15 to 90 baht, and never 20: no whole number of kilometres lies
\* between 1.1 and 1.5, so a ride of 1.4 km costs as much as the shortest one and one
\* of 1.9 km too, where the tiers have 20 and 25.
THEOREM PriceIsBounded ==
  ASSUME NEW metres \in Distances
  PROVE  Price(metres) \in 15..90 \ {20}
<1> DEFINE km == DistanceKm(metres)
<1>1. km \in Nat
  BY DEF DistanceKm, Distances
<1> HIDE DEF km
<1>2. PriceOfKm(km) \in 15..90 /\ PriceOfKm(km) # 20
  BY <1>1 DEF PriceOfKm
<1> QED
  BY <1>2 DEF Price, km
=============================================================================
