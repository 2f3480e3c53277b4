----------------------------- MODULE EpochClusters -----------------------------
(***************************************************************************)
(* _cluster_mjds: the epochs of the observation times of one tile and      *)
(* band.  Times and the threshold are in half days, a bin of the histogram *)
(* is about a day wide.  obs maps each time observed to its number of      *)
(* calibrations.  What scipy and scikit-learn do is stated by its result.  *)
(***************************************************************************)
EXTENDS Integers, FiniteSets, FiniteSetsExt, Functions

First(obs) == Min(DOMAIN obs)
Last(obs) == Max(DOMAIN obs)
CeilDiv(a, b) == -((-a) \div b)

\* ceil(max) - floor(min) + 2 bins over [min - 1, max + 1]; one bin per day that
\* was observed, without the margins.
BinsOfDays(obs) == Max({1, CeilDiv(Last(obs), 2) - First(obs) \div 2})
Bins(obs) == CeilDiv(Last(obs), 2) - First(obs) \div 2 + 2

Bin(obs, t) == ((t - First(obs) + 2) * Bins(obs)) \div (Last(obs) - First(obs) + 4)

Height(obs, b) == SumFunctionOnSet(obs, {t \in DOMAIN obs : Bin(obs, t) = b})

\* The middle of a level stretch with a lower bin on either side.
Peaks(obs) ==
    LET top == Bins(obs) - 1
        H == [b \in 0..top |-> Height(obs, b)]
        Level(i, j) == \A b \in i..j : H[b] = H[i]
    IN  {(p[1] + p[2]) \div 2 :
            p \in {q \in (1..(top - 1)) \X (1..(top - 1)) :
                      /\ q[1] <= q[2] /\ Level(q[1], q[2])
                      /\ H[q[1] - 1] < H[q[1]] /\ H[q[2] + 1] < H[q[2]]}}

\* find_peaks keeps the highest and drops what is nearer than the distance to
\* one it kept; of two alike the later goes first.
Kept(obs, thresh) ==
    LET P == Peaks(obs)
        d == CeilDiv(thresh, 2)
        Before(p, q) == \/ Height(obs, p) > Height(obs, q)
                        \/ Height(obs, p) = Height(obs, q) /\ p > q
        Near(p, q) == p - q < d /\ q - p < d
    IN  CHOOSE K \in SUBSET P :
           \A p \in P : p \in K <=> ~\E q \in K : Before(q, p) /\ Near(p, q)

\* One cluster for each peak, without the guard for none.
PeaksAlone(obs, thresh) == Cardinality(Kept(obs, thresh))
NumClusters(obs, thresh) == Max({Cardinality(Kept(obs, thresh)), 1})

\* The mean of some of the times, as a fraction.
Sum(obs, S) == SumFunctionOnSet([t \in DOMAIN obs |-> t * obs[t]], S)
Weight(obs, S) == SumFunctionOnSet(obs, S)

\* t is no nearer to the mean of S than to the mean of R.
Nearer(obs, t, R, S) ==
    LET Off(Q) == IF t * Weight(obs, Q) >= Sum(obs, Q)
                    THEN t * Weight(obs, Q) - Sum(obs, Q)
                    ELSE Sum(obs, Q) - t * Weight(obs, Q)
    IN  Off(R) * Weight(obs, S) <= Off(S) * Weight(obs, R)

\* KMeans stops where every time is in the cluster whose centre is nearest.
Clusterings(obs, k) ==
    {C \in kSubset(k, (SUBSET DOMAIN obs) \ {{}}) :
        /\ UNION C = DOMAIN obs
        /\ \A R, S \in C : R # S => R \cap S = {}
        /\ \A R, S \in C : \A t \in R : Nearer(obs, t, R, S)}

\* The interval of an epoch, in whole days, around the centre of a cluster.
Start(obs, thresh, S) == (Sum(obs, S) - thresh * Weight(obs, S)) \div (2 * Weight(obs, S))
End(obs, thresh, S) == CeilDiv(Sum(obs, S) + thresh * Weight(obs, S), 2 * Weight(obs, S))

\* The times whose calibrations are associated with it; both ends included.
Linked(obs, thresh, S) ==
    {t \in DOMAIN obs : 2 * Start(obs, thresh, S) <= t /\ t <= 2 * End(obs, thresh, S)}

================================================================================
