------------------------------ MODULE Modulus -------------------------------
(***************************************************************************)
(* Indices that only grow, wrap at the size of a word, and are reduced to  *)
(* a slot of a ring when it is used: what pipe.c, console.c and            *)
(* virtio_disk.c rely on.                                                  *)
(***************************************************************************)
EXTENDS Integers, TLAPS

\* The time the provers are allowed for a step.
USE SMTT(30), ZenonT(30)

\* Division with remainder.
LEMMA Euclid ==
  ASSUME NEW u \in Int, u > 0, NEW x \in Int
  PROVE  \E q, r \in Int : r = x % u /\ x = u * q + r /\ 0 <= r /\ r < u
<1>1. x % u = x - u * (x \div u)
  BY Z3T(60)
<1>2. PICK r \in Int : r = x % u /\ 0 <= r /\ r < u
  OBVIOUS
<1>3. PICK q \in Int : q = x \div u
  OBVIOUS
<1>4. PICK y \in Int : y = u * q
  OBVIOUS
<1>5. r = x - y
  BY <1>1, <1>2, <1>3, <1>4
<1>6. x = u * q + r
  BY <1>4, <1>5
<1> QED
  BY <1>2, <1>6

\* Two indices less than the size n of the ring apart use different slots.
LEMMA ResiduesDiffer ==
  ASSUME NEW n \in Nat, n > 0, NEW a \in Nat, NEW b \in Nat, a < b, b < a + n
  PROVE  a % n # b % n
<1> n \in Int /\ a \in Int /\ b \in Int
  OBVIOUS
<1>1. PICK x, r \in Int : r = a % n /\ a = n * x + r /\ 0 <= r /\ r < n
  BY Euclid, Zenon
<1>2. PICK y, t \in Int : t = b % n /\ b = n * y + t /\ 0 <= t /\ t < n
  BY Euclid, Zenon
<1> SUFFICES ASSUME r = t PROVE FALSE
  BY <1>1, <1>2
<1>4. b - a = n * (y - x)
  BY <1>1, <1>2
<1>5. CASE y - x >= 1
  <2>1. n * (y - x) >= n
    BY <1>5
  <2> QED
    BY <1>4, <2>1
<1>6. CASE y - x <= 0
  <2>1. n * (y - x) <= 0
    BY <1>6
  <2> QED
    BY <1>4, <2>1
<1> QED
  BY <1>5, <1>6

\* An index that wraps at u stays at the same slot if n divides u.
LEMMA ResidueWraps ==
  ASSUME NEW n \in Nat, n > 0, NEW u \in Nat, u % n = 0, NEW d \in Int
  PROVE  d % n = (d + u) % n
<1> n \in Int /\ u \in Int
  OBVIOUS
<1>1. PICK z, f \in Int : f = u % n /\ u = n * z + f /\ 0 <= f /\ f < n
  BY Euclid, Zenon
<1>2. u = n * z
  BY <1>1
<1>3. PICK a \in Int : a = d + u
  OBVIOUS
<1>4. PICK x, r \in Int : r = a % n /\ a = n * x + r /\ 0 <= r /\ r < n
  BY Euclid, Zenon
<1>5. PICK y, t \in Int : t = d % n /\ d = n * y + t /\ 0 <= t /\ t < n
  BY Euclid, Zenon
<1>6. r - t = n * (z + y - x)
  BY <1>2, <1>3, <1>4, <1>5
<1>7. PICK k \in Int : k = z + y - x
  OBVIOUS
<1>8. n * k < n /\ n * k > -n
  BY <1>4, <1>5, <1>6, <1>7
<1>9. k = 0
  <2>1. CASE k >= 1
    BY <1>8, <2>1
  <2>2. CASE k <= -1
    BY <1>8, <2>2
  <2> QED
    BY <2>1, <2>2
<1>10. r = t
  BY <1>4, <1>5, <1>6, <1>7, <1>9
<1> QED
  BY <1>3, <1>4, <1>5, <1>10

\* The residue of a number at most one wrap away.
LEMMA ResidueNear ==
  ASSUME NEW u \in Nat, u > 0, NEW x \in Int
  PROVE  /\ 0 <= x /\ x < u => x % u = x
         /\ u <= x /\ x < u + u => x % u = x - u
         /\ -u <= x /\ x < 0 => x % u = x + u
<1> u \in Int
  OBVIOUS
<1>1. PICK q, r \in Int : r = x % u /\ x = u * q + r /\ 0 <= r /\ r < u
  BY Euclid, Zenon
<1>2. PICK y \in Int : y = u * q
  OBVIOUS
<1>3. /\ q >= 1 => y >= u
      /\ q >= 2 => y >= u + u
      /\ q <= -1 => y <= -u
      /\ q <= -2 => y <= -u - u
      /\ q = 0 => y = 0
      /\ q = 1 => y = u
      /\ q = -1 => y = -u
  BY <1>2
<1>4. x = y + r
  BY <1>1, <1>2
<1> QED
  BY <1>1, <1>3, <1>4
=============================================================================
