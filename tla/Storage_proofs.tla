--------------------------- MODULE Storage_proofs ---------------------------
(***************************************************************************)
(* More proofs about the devices: the 844 and 885 disks, of any size and   *)
(* with any number of drives, and the 669 tapes, with any reels and any    *)
(* number of drives, which implement TapeDrive.                            *)
(***************************************************************************)
EXTENDS Devices_proofs

-----------------------------------------------------------------------------
(***************************************************************************)
(* The 844 and 885 disks.                                                  *)
(***************************************************************************)
\* A number with a digit r to the base b.
LEMMA DigitOff ==
    ASSUME NEW n, NEW b, NEW q, NEW r,
           n = q * b + r /\ q \in Nat /\ b \in Nat /\ r \in Nat /\ r < b
    PROVE  n \div b = q /\ n % b = r
OBVIOUS

\* Below the largest number a number is its own remainder.
LEMMA NoWrap ==
    ASSUME NEW a \in Nat, NEW n \in Nat, a < n
    PROVE  a % n = a /\ a \div n = 0
OBVIOUS

\* The number behind the last one is 0 again.
LEMMA Wraps ==
    ASSUME NEW n \in Nat, n > 0
    PROVE  n % n = 0
OBVIOUS

\* Half the sectors.
LEMMA Halves ==
    ASSUME NEW n \in Nat, n % 2 = 0, n > 2
    PROVE  n \div 2 \in Nat /\ n = 2 * (n \div 2) /\ n \div 2 > 1
OBVIOUS

\* A number of two digits, of which the higher one is less than a, is less than a * b.
LEMMA TwoDigits ==
    ASSUME NEW a \in Nat, NEW b \in Nat, NEW q \in Nat, NEW r \in Nat, q < a, r < b
    PROVE  q * b + r \in Nat /\ q * b + r < a * b /\ a * b \in Nat
<1>1. PICK d \in Nat : a = q + 1 + d
  <2>1. a - q - 1 \in Nat /\ a = q + 1 + (a - q - 1)
    OBVIOUS
  <2> QED
    BY <2>1
<1>2. a * b = q * b + b + d * b
  BY <1>1
<1>3. q * b \in Nat /\ d * b \in Nat /\ a * b \in Nat
  OBVIOUS
<1> QED
  BY <1>2, <1>3

\* The parts of a sector's number.
LEMMA Parity ==
    ASSUME NEW h \in Nat, NEW s \in Nat, s < 2 * h
    PROVE  \E e \in Nat, o \in {0, 1} :
              s = 2 * e + o /\ e < h /\ s % 2 = o /\ s \div 2 = e
<1>1. PICK e \in Nat, o \in {0, 1} : s = 2 * e + o
  <2>1. s = (s \div 2) * 2 + (s % 2) /\ s % 2 \in 0 .. 1 /\ s \div 2 \in Nat
    OBVIOUS
  <2> QED
    BY <2>1
<1>2. s % 2 = o /\ s \div 2 = e /\ e < h
  BY <1>1
<1> QED
  BY <1>1, <1>2

\* A place is a cylinder, a track and a sector, ...
LEMMA PlaceIs ==
    ASSUME DiskAssumption, NEW p \in Disk!Places
    PROVE  \E c \in Nat, t \in Nat, s \in Nat :
              /\ p = Disk!At(c, t, s) /\ p.c = c /\ p.t = t /\ p.s = s
              /\ c < Cylinders /\ t < Tracks /\ s < Sectors
BY DEF DiskAssumption, Disk!Places, Disk!Place, Disk!Valid, Disk!At

\* ... and what these three make is a place.
LEMMA IsPlace ==
    ASSUME DiskAssumption, NEW c \in Nat, NEW t \in Nat, NEW s \in Nat,
           c < Cylinders, t < Tracks, s < Sectors
    PROVE  Disk!At(c, t, s) \in Disk!Places
BY DEF DiskAssumption, Disk!Places, Disk!Place, Disk!Valid, Disk!At

\* With full tracking the sectors of a cylinder follow each other, ...
LEMMA FullTracking ==
    ASSUME DiskAssumption, NEW c \in Nat, NEW t \in Nat, NEW s \in Nat,
           c < Cylinders, t < Tracks, s < Sectors, NEW p, p = Disk!At(c, t, s)
    PROVE  Disk!InTurn(p, 1) = Disk!NextPlace(p, 1, FALSE)
<1>1. p.c = c /\ p.t = t /\ p.s = s
  BY DEF Disk!At
<1>2. PICK S \in Nat, T \in Nat : S = Sectors /\ T = Tracks /\ S > 0 /\ T > 0 /\ s < S /\ t < T
  BY DEF DiskAssumption
<1>3. PICK k \in Nat : k = T * S
  OBVIOUS
<1>4. PICK n \in Nat : n = (t * S + s + 1) % k
  <2>1. t * S + s + 1 \in Nat /\ k > 0
    BY <1>2, <1>3
  <2> QED
    BY <2>1
<1>5. Disk!InTurn(p, 1) = Disk!At(c, n \div S, n % S)
  BY <1>1, <1>2, <1>3, <1>4 DEF Disk!InTurn
<1>6. CASE s + 1 < S
  <2>1. t * S + (s + 1) < k /\ t * S + (s + 1) \in Nat
    BY <1>2, <1>3, <1>6, TwoDigits
  <2>2. t * S + s + 1 = t * S + (s + 1)
    OBVIOUS
  <2>3. n = t * S + (s + 1)
    BY <1>3, <1>4, <2>1, <2>2, NoWrap
  <2>4. n \div S = t /\ n % S = s + 1
    <3>1. PICK r \in Nat : r = s + 1
      OBVIOUS
    <3>2. n = t * S + r /\ t \in Nat /\ S \in Nat /\ r \in Nat /\ r < S
      BY <1>2, <1>6, <2>3, <3>1
    <3>3. n \div S = t /\ n % S = r
      BY <3>2, DigitOff
    <3> QED
      BY <3>1, <3>3
  <2>5. Disk!NextPlace(p, 1, FALSE) = Disk!At(c, t, s + 1)
    BY <1>1, <1>2, <1>6 DEF Disk!NextPlace, Disk!At
  <2> QED
    BY <1>5, <2>4, <2>5
<1>7. CASE s + 1 = S /\ t + 1 < T
  <2>1. (t + 1) * S + 0 < k /\ (t + 1) * S + 0 \in Nat
    BY <1>2, <1>3, <1>7, TwoDigits
  <2>2. t * S + s + 1 = (t + 1) * S + 0
    BY <1>7
  <2>3. n = (t + 1) * S + 0
    BY <1>3, <1>4, <2>1, <2>2, NoWrap
  <2>4. n \div S = t + 1 /\ n % S = 0
    <3>1. PICK q \in Nat : q = t + 1
      OBVIOUS
    <3>2. n = q * S + 0 /\ q \in Nat /\ S \in Nat /\ 0 \in Nat /\ 0 < S
      BY <1>2, <2>3, <3>1
    <3>3. n \div S = q /\ n % S = 0
      BY <3>2, DigitOff
    <3> QED
      BY <3>1, <3>3
  <2>5. Disk!NextPlace(p, 1, FALSE) = Disk!At(c, t + 1, 0)
    BY <1>1, <1>2, <1>7 DEF Disk!NextPlace, Disk!At
  <2> QED
    BY <1>5, <2>4, <2>5
<1>8. CASE s + 1 = S /\ t + 1 = T
  <2>1. k > 0
    BY <1>2, <1>3
  <2>2. t * S + s + 1 = k
    BY <1>3, <1>8
  <2>3. n = 0
    BY <1>4, <2>1, <2>2, Wraps
  <2>4. n \div S = 0 /\ n % S = 0
    BY <1>2, <2>3, NoWrap
  <2>5. Disk!NextPlace(p, 1, FALSE) = Disk!At(c, 0, 0)
    BY <1>1, <1>2, <1>8 DEF Disk!NextPlace, Disk!At
  <2> QED
    BY <1>5, <2>4, <2>5
<1>9. (s + 1 < S \/ s + 1 = S) /\ (t + 1 < T \/ t + 1 = T)
  BY <1>2
<1> QED
  BY <1>6, <1>7, <1>8, <1>9

\* ... with half tracking the even ones of all tracks, and then the odd ones.
LEMMA HalfDigits ==
    ASSUME NEW T \in Nat, NEW h \in Nat, NEW k \in Nat, k = T * h, k > 0, h > 0,
           NEW o \in {0, 1}, NEW t \in Nat, NEW e \in Nat, t < T, e < h,
           NEW n, n = o * k + t * h + e
    PROVE  /\ n \in Nat /\ n < 2 * k
           /\ n \div k = o /\ n % k = t * h + e
           /\ (t * h + e) \div h = t /\ (t * h + e) % h = e
<1>1. PICK j \in Nat : j = t * h + e /\ j < k
  BY TwoDigits
<1>2. o * k \in {0, k} /\ n = o * k + j
  BY <1>1
<1>3. n \div k = o /\ n % k = j
  BY <1>1, <1>2, DigitOff
<1>4. j \div h = t /\ j % h = e
  BY <1>1, DigitOff
<1> QED
  BY <1>1, <1>2, <1>3, <1>4

\* A sector of a half-tracked cylinder and the one after it, with the digits of their numbers.
HalfStep(p, c, t, s, T, h, k, o, e, o2, t2, e2) ==
    /\ c \in Nat /\ T \in Nat /\ h \in Nat /\ k \in Nat
    /\ t \in Nat /\ s \in Nat /\ e \in Nat /\ t2 \in Nat /\ e2 \in Nat
    /\ T = Tracks /\ Sectors = 2 * h /\ h = Sectors \div 2 /\ k = T * h /\ k > 0 /\ h > 0
    /\ o \in {0, 1} /\ s % 2 = o /\ s \div 2 = e /\ p = Disk!At(c, t, s)
    /\ o2 \in {0, 1} /\ t2 < T /\ e2 < h
    /\ (o * k + t * h + e + 1) % (2 * k) = o2 * k + t2 * h + e2

\* The digits of the next number say which sector is next.
LEMMA HalfTurn ==
    ASSUME NEW p, NEW c, NEW t, NEW s, NEW T, NEW h, NEW k, NEW o, NEW e, NEW o2, NEW t2, NEW e2,
           HalfStep(p, c, t, s, T, h, k, o, e, o2, t2, e2)
    PROVE  Disk!InTurn(p, 2) = Disk!At(c, t2, 2 * e2 + o2)
<1> USE DEF HalfStep
<1>1. p.c = c /\ p.t = t /\ p.s = s
  BY DEF Disk!At
<1>2. PICK n : n = o2 * k + t2 * h + e2
  OBVIOUS
<1>3. /\ n \div k = o2 /\ n % k = t2 * h + e2
      /\ (t2 * h + e2) \div h = t2 /\ (t2 * h + e2) % h = e2
  BY <1>2, HalfDigits
<1>4. T * Sectors = 2 * k
  OBVIOUS
<1>5. o * T * h = o * k
  OBVIOUS
<1>6. PICK m : m = (o * k + t * h + e + 1) % (2 * k)
  OBVIOUS
<1>7. m \div k = o2 /\ (m % k) \div h = t2 /\ (m % k) % h = e2
  BY <1>2, <1>3, <1>6
<1>8. m = (o * T * h + t * h + e + 1) % (T * Sectors)
  BY <1>4, <1>5, <1>6
<1>9. Disk!InTurn(p, 2) = Disk!At(c, (m % k) \div h, 2 * ((m % k) % h) + (m \div k))
  <2>1. 2 # 1
    OBVIOUS
  <2>2. m = ((p.s % 2) * Tracks * (Sectors \div 2) + p.t * (Sectors \div 2) + (p.s \div 2) + 1) % (Tracks * Sectors)
    BY <1>1, <1>8
  <2>3. Disk!InTurn(p, 2) =
           Disk!At(p.c, (m % (Tracks * (Sectors \div 2))) \div (Sectors \div 2),
                   2 * ((m % (Tracks * (Sectors \div 2))) % (Sectors \div 2))
                      + (m \div (Tracks * (Sectors \div 2))))
    BY <2>1, <2>2, Zenon DEF Disk!InTurn
  <2> QED
    BY <1>1, <2>3, Zenon
<1> QED
  BY <1>7, <1>9

\* NextPlace, which works with cases (dd8xxSeekNextSector), does the same.
LEMMA HalfTracking ==
    ASSUME DiskAssumption, NEW c \in Nat, NEW t \in Nat, NEW s \in Nat,
           c < Cylinders, t < Tracks, s < Sectors, NEW p, p = Disk!At(c, t, s)
    PROVE  Disk!InTurn(p, 2) = Disk!NextPlace(p, 2, FALSE)
<1>1. p.c = c /\ p.t = t /\ p.s = s
  BY DEF Disk!At
<1>2. PICK S \in Nat, T \in Nat : S = Sectors /\ T = Tracks /\ S > 2 /\ S % 2 = 0 /\ T > 0 /\ s < S /\ t < T
  BY DEF DiskAssumption
<1>3. PICK h \in Nat : h = S \div 2 /\ S = 2 * h /\ h > 1
  BY <1>2, Halves
<1>4. PICK k \in Nat : k = T * h /\ k > 0
  BY <1>2, <1>3
<1>5. PICK e \in Nat, o \in {0, 1} : s = 2 * e + o /\ e < h /\ s % 2 = o /\ s \div 2 = e
  BY <1>2, <1>3, Parity
<1>6. t * h \in Nat /\ o * k \in Nat /\ 2 * k \in Nat
  BY <1>3, <1>4, <1>5
<1>7. ASSUME NEW o2 \in {0, 1}, NEW t2 \in Nat, NEW e2 \in Nat, t2 < T, e2 < h,
             (o * k + t * h + e + 1) % (2 * k) = o2 * k + t2 * h + e2
      PROVE  Disk!InTurn(p, 2) = Disk!At(c, t2, 2 * e2 + o2)
  <2>1. T = Tracks /\ Sectors = 2 * h /\ h = Sectors \div 2 /\ k = T * h /\ k > 0 /\ h > 0
    BY <1>2, <1>3, <1>4
  <2>2. s % 2 = o /\ s \div 2 = e /\ e \in Nat /\ o \in {0, 1}
    BY <1>5
  <2>3. c \in Nat /\ T \in Nat /\ h \in Nat /\ k \in Nat /\ t \in Nat /\ s \in Nat
    BY <1>2, <1>3, <1>4
  <2> QED
    <3>1. HalfStep(p, c, t, s, T, h, k, o, e, o2, t2, e2)
      BY <1>7, <2>1, <2>2, <2>3 DEF HalfStep
    <3> QED
      BY <3>1, HalfTurn
<1>8. CASE e + 1 < h
  <2>1. PICK f \in Nat : f = e + 1 /\ f < h
    BY <1>8
  <2>2. o * k + t * h + f \in Nat /\ o * k + t * h + f < 2 * k
    BY <1>2, <1>3, <1>4, <1>5, <2>1, HalfDigits
  <2>3. o * k + t * h + e + 1 = o * k + t * h + f
    BY <1>6, <2>1
  <2>4. (o * k + t * h + e + 1) % (2 * k) = o * k + t * h + f
    BY <1>6, <2>2, <2>3, NoWrap
  <2>5. Disk!InTurn(p, 2) = Disk!At(c, t, 2 * f + o)
    BY <1>2, <1>7, <2>1, <2>4
  <2>6. s + 2 = 2 * f + o /\ s + 2 < S
    BY <1>3, <1>5, <2>1
  <2>7. Disk!NextPlace(p, 2, FALSE) = Disk!At(c, t, s + 2)
    BY <1>1, <1>2, <2>6 DEF Disk!NextPlace, Disk!At
  <2> QED
    BY <2>5, <2>6, <2>7
<1>9. CASE e + 1 = h /\ t + 1 < T
  <2>1. PICK g \in Nat : g = t + 1 /\ g < T
    BY <1>9
  <2>2. o * k + g * h + 0 \in Nat /\ o * k + g * h + 0 < 2 * k
    BY <1>2, <1>3, <1>4, <1>5, <2>1, HalfDigits
  <2>3. o * k + t * h + e + 1 = o * k + g * h + 0
    <3>1. g * h = t * h + h
      BY <2>1
    <3> QED
      BY <1>6, <1>9, <3>1
  <2>4. (o * k + t * h + e + 1) % (2 * k) = o * k + g * h + 0
    BY <1>6, <2>2, <2>3, NoWrap
  <2>5. Disk!InTurn(p, 2) = Disk!At(c, g, 2 * 0 + o)
    <3>1. 0 < h /\ 0 \in Nat
      BY <1>3
    <3> QED
      BY <1>5, <1>7, <2>1, <2>4, <3>1
  <2>6. s + 2 = S + o
    BY <1>3, <1>5, <1>9
  <2>7. Disk!NextPlace(p, 2, FALSE) = Disk!At(c, g, o)
    BY <1>1, <1>2, <1>5, <1>9, <2>1, <2>6 DEF Disk!NextPlace, Disk!At
  <2>8. 2 * 0 + o = o
    BY <1>5
  <2> QED
    BY <2>5, <2>7, <2>8
<1>10. CASE e + 1 = h /\ t + 1 = T
  <2>1. s + 2 = S + o
    BY <1>3, <1>5, <1>10
  <2>2. t * h + e + 1 = k
    BY <1>4, <1>10
  <2>3. CASE o = 0
    <3>1. o * k + t * h + e + 1 = k
      BY <1>6, <2>2, <2>3
    <3>2. k % (2 * k) = k
      BY <1>4, <1>6, NoWrap
    <3>3. (o * k + t * h + e + 1) % (2 * k) = 1 * k + 0 * h + 0
      BY <1>3, <1>4, <3>1, <3>2
    <3>4. Disk!InTurn(p, 2) = Disk!At(c, 0, 2 * 0 + 1)
      BY <1>2, <1>3, <1>7, <3>3
    <3>5. Disk!NextPlace(p, 2, FALSE) = Disk!At(c, 0, 1)
      BY <1>1, <1>2, <1>10, <2>1, <2>3 DEF Disk!NextPlace, Disk!At
    <3>6. 2 * 0 + 1 = 1
      OBVIOUS
    <3> QED
      BY <3>4, <3>5, <3>6
  <2>4. CASE o = 1
    <3>1. o * k + t * h + e + 1 = 2 * k
      BY <1>6, <2>2, <2>4
    <3>2. (2 * k) % (2 * k) = 0
      <4>1. PICK m \in Nat : m = 2 * k /\ m > 0
        BY <1>4
      <4> QED
        BY <4>1, Wraps
    <3>3. (o * k + t * h + e + 1) % (2 * k) = 0 * k + 0 * h + 0
      BY <1>3, <1>4, <3>1, <3>2
    <3>4. Disk!InTurn(p, 2) = Disk!At(c, 0, 2 * 0 + 0)
      BY <1>2, <1>3, <1>7, <3>3, SMTT(30)
    <3>5. Disk!NextPlace(p, 2, FALSE) = Disk!At(c, 0, 0)
      BY <1>1, <1>2, <1>10, <2>1, <2>4 DEF Disk!NextPlace, Disk!At
    <3>6. 2 * 0 + 0 = 0
      OBVIOUS
    <3> QED
      BY <3>4, <3>5, <3>6
  <2> QED
    BY <1>5, <2>3, <2>4
<1>11. (e + 1 < h \/ e + 1 = h) /\ (t + 1 < T \/ t + 1 = T)
  BY <1>2, <1>3, <1>5
<1> QED
  BY <1>8, <1>9, <1>10, <1>11

\* The drive and the PP come to the same sector after a whole one.
LEMMA NextInTurn ==
    ASSUME DiskAssumption, NEW p \in Disk!Places, NEW step \in {1, 2}
    PROVE  Disk!InTurn(p, step) = Disk!NextPlace(p, step, FALSE)
<1>1. PICK c \in Nat, t \in Nat, s \in Nat :
         p = Disk!At(c, t, s) /\ c < Cylinders /\ t < Tracks /\ s < Sectors
  BY PlaceIs
<1>2. Disk!InTurn(p, 1) = Disk!NextPlace(p, 1, FALSE)
  BY <1>1, FullTracking
<1>3. Disk!InTurn(p, 2) = Disk!NextPlace(p, 2, FALSE)
  BY <1>1, HalfTracking
<1> QED
  BY <1>2, <1>3

\* It is a valid one, behind a gap sector too.
LEMMA NextIsPlace ==
    ASSUME DiskAssumption, NEW p \in Disk!Places, NEW step \in {1, 2}, NEW gap \in BOOLEAN
    PROVE  Disk!NextPlace(p, step, gap) \in Disk!Places
<1>1. PICK c \in Nat, t \in Nat, s \in Nat :
         /\ p = Disk!At(c, t, s) /\ p.c = c /\ p.t = t /\ p.s = s
         /\ c < Cylinders /\ t < Tracks /\ s < Sectors
  BY PlaceIs
<1>2. PICK r \in Nat : r = s + step + (IF gap THEN 2 ELSE 0)
  BY <1>1
<1>3. Sectors > 2 /\ Tracks > 0 /\ 0 < Tracks /\ 0 < Sectors /\ 1 < Sectors
      /\ Sectors \in Nat /\ Tracks \in Nat
  BY DEF DiskAssumption
<1>4. CASE r < Sectors
  <2>1. Disk!NextPlace(p, step, gap) = Disk!At(c, t, r)
    BY <1>1, <1>2, <1>4 DEF Disk!NextPlace, Disk!At
  <2> QED
    BY <1>1, <1>2, <1>4, <2>1, IsPlace
<1>5. CASE ~(r < Sectors) /\ t + 1 # Tracks
  <2>1. PICK o \in {0, 1} : Disk!NextPlace(p, step, gap) = Disk!At(c, t + 1, o)
    BY <1>1, <1>2, <1>5 DEF Disk!NextPlace, Disk!At
  <2>2. t + 1 \in Nat /\ t + 1 < Tracks /\ o \in Nat /\ o < Sectors
    BY <1>1, <1>3, <1>5, <2>1
  <2> QED
    BY <1>1, <2>1, <2>2, IsPlace
<1>6. CASE ~(r < Sectors) /\ t + 1 = Tracks
  <2>1. PICK o \in {0, 1} : Disk!NextPlace(p, step, gap) = Disk!At(c, 0, o)
    BY <1>1, <1>2, <1>6 DEF Disk!NextPlace, Disk!At
  <2>2. o \in Nat /\ o < Sectors
    BY <1>3, <2>1
  <2> QED
    BY <1>1, <1>3, <2>1, <2>2, IsPlace
<1> QED
  BY <1>4, <1>5, <1>6

\* Where a drive is, is a place of its pack.
LEMMA PlacesIn ==
    ASSUME DiskAssumption
    PROVE  /\ Disk!Places \subseteq Disk!Place
           /\ \A p \in Disk!Place : Disk!Valid(p) => p \in Disk!Places
           /\ \A p \in Disk!Places : Disk!Valid(p)
BY DEF Disk!Places

\* The factory data, the utility map and the deadstart sector are on the disk.
LEMMA SpecialPlaces ==
    ASSUME DiskAssumption, NEW u
    PROVE  /\ Disk!UtilityMap \in Disk!Places /\ Disk!Deadstart(u) \in Disk!Places
           /\ Disk!At(0, 0, 0) \in Disk!Places
<1>1. /\ Cylinders \in Nat /\ Cylinders > 1 /\ Tracks \in Nat /\ Tracks > 0
      /\ Sectors \in Nat /\ Sectors % 2 = 0 /\ Sectors > 2
  BY DEF DiskAssumption
<1>2. Sectors > 3
  BY <1>1
<1>3. /\ Cylinders - 1 \in Nat /\ Cylinders - 2 \in Nat /\ Tracks - 1 \in Nat /\ Sectors - 2 \in Nat
      /\ Cylinders - 1 < Cylinders /\ Cylinders - 2 < Cylinders /\ Tracks - 1 < Tracks
      /\ Sectors - 2 < Sectors /\ 2 < Sectors /\ 3 < Sectors /\ 0 < Tracks /\ 0 < Sectors /\ 0 < Cylinders
  BY <1>1, <1>2
<1>4. 0 \in Nat /\ 2 \in Nat /\ 3 \in Nat
  OBVIOUS
<1> QED
  BY <1>3, <1>4, IsPlace DEF Disk!UtilityMap, Disk!Deadstart

\* A new container is one of its type.
LEMMA NewIs ==
    ASSUME DiskAssumption, NEW u
    PROVE  Disk!New(u) \in [Disk!Places -> Block] /\ Disk!Zero \in Block
<1>1. SectorSize \in Nat
  BY DEF DiskAssumption
<1>2. Disk!Zero \in Block
  BY DEF Disk!Zero, Block
<1>3. Disk!Serial \in Block
  BY <1>1, <1>2 DEF Disk!Serial, Block
<1> QED
  BY <1>2, <1>3 DEF Disk!New

\* At the start.
LEMMA DiskStarts == ASSUME DiskAssumption, Disk!Init PROVE DInv
<1>1. PICK m \in DiskPlans :
         /\ opened = m.mounted /\ fresh = m.mounted
         /\ interlace = [u \in Units |-> IF u \in m.mounted THEN 1 ELSE 0] /\ diskAsked = interlace
         /\ diskPlan = m
  BY DEF Disk!Init
<1>2. m \in DiskPlanType /\ (0 \in m.loads => 0 \in m.mounted) /\ 0 \in Units /\ SectorSize \in Nat
  BY <1>1 DEF DiskAssumption
<1>3. m.mounted \subseteq Units
  BY <1>2 DEF DiskPlanType
<1>4. DiskFiles
  BY <1>1, <1>3, NewIs DEF Disk!Init, DiskFiles
<1>5. DiskPlaces
  <2>1. Disk!At(0, 0, 0) \in Disk!Places /\ Disk!At(0, 0, 0) \in Disk!Place
    BY SpecialPlaces, PlacesIn
  <2>2. /\ place = [u \in Units |-> Disk!At(0, 0, 0)] /\ pos = place /\ at = place
        /\ bufPtr = [u \in Units |-> Disk!Null] /\ buffer = [u \in Units |-> Disk!Zero]
    BY DEF Disk!Init
  <2>3. Disk!Null \in Disk!Null .. SectorSize
    BY <1>2 DEF Disk!Null
  <2>4. Disk!Zero \in Block
    BY NewIs
  <2>5. interlace \in [Units -> {0, 1, 2}]
    BY <1>1
  <2> QED
    BY <1>1, <2>1, <2>2, <2>3, <2>4, <2>5 DEF DiskPlaces
<1>6. DiskControl
  <2>1. diskUnit = 0 /\ status = "ok" /\ diskFcode = "none" /\ recordLength = 0 /\ diskSent = <<>>
    BY DEF Disk!Init
  <2>2. 0 \in opened \cup diskPlan.loads => interlace[0] # 0
    BY <1>1, <1>2
  <2>3. <<>> \in Seq(Nat) /\ 0 \in -1 .. SectorSize
    BY <1>2
  <2>4. fresh \subseteq Units /\ diskPlan \in DiskPlanType /\ diskUnit \in Units
    BY <1>1, <1>2, <1>3, <2>1
  <2> QED
    BY <2>1, <2>2, <2>3, <2>4 DEF DiskControl
<1>7. Fresh
  <2>1. place = [u \in Units |-> Disk!At(0, 0, 0)] /\ pos = place /\ at = place
        /\ bufPtr = [u \in Units |-> Disk!Null]
    BY DEF Disk!Init
  <2> QED
    BY <1>1, <1>3, <2>1 DEF Fresh, Settled
<1>8. diskFcode = "none"
  BY DEF Disk!Init
<1> QED
  BY <1>4, <1>5, <1>6, <1>7, <1>8 DEF DInv

-----------------------------------------------------------------------------
\* Functions that end whatever was going on.
LEMMA Ended ==
    ASSUME DInv, Disk!Immediate, SectorSize \in Nat
    PROVE  diskFcode' = "none" /\ recordLength' \in -1 .. SectorSize /\ diskSent' \in Seq(Nat)
BY DEF Disk!Immediate, Disk!Function

\* Functions without effect on the pack.
LEMMA OtherKeeps == ASSUME DiskAssumption, DInv, Disk!FuncOther PROVE DInv'
<1>1. diskFcode' = "none" /\ recordLength' \in -1 .. SectorSize /\ diskSent' \in Seq(Nat)
  BY Ended DEF Disk!FuncOther, DiskAssumption
<1>2. UNCHANGED <<opened, classic, readonly, container, content, diskUnit, diskPlan, place, interlace,
                  bufPtr, buffer, pos, status, at, diskAsked, fresh>>
  BY DEF Disk!FuncOther, Disk!idle, Disk!files, Disk!position, Disk!mind
<1> QED
  BY <1>1, <1>2 DEF DInv, DiskFiles, DiskPlaces, DiskControl, Fresh, Settled

\* Connecting a drive ends a transfer.
LEMMA ConnectKeeps == ASSUME DiskAssumption, DInv, NEW n \in Units, Disk!Connect(n) PROVE DInv'
<1>1. diskFcode' = "none" /\ recordLength' \in -1 .. SectorSize /\ diskSent' \in Seq(Nat)
  BY Ended DEF Disk!Connect, DiskAssumption
<1>2. UNCHANGED <<opened, classic, readonly, container, content, diskPlan, place, interlace,
                  bufPtr, buffer, pos, at, diskAsked, fresh>>
  BY DEF Disk!Connect, Disk!files, Disk!position, Disk!mind
<1>3. diskUnit' \in Units \cup {Disk!NoUnit} /\ status' \in {"ok", "invalid", "none"}
  BY DEF Disk!Connect, DInv, DiskControl
<1> QED
  BY <1>1, <1>2, <1>3 DEF DInv, DiskFiles, DiskPlaces, DiskControl, Fresh, Settled

\* A seek sets drive and PP to the same place.
LEMMA SeekKeeps ==
    ASSUME DiskAssumption, DInv, NEW n \in Units, NEW step \in diskPlan.steps,
           NEW p \in diskPlan.seeks, Disk!SeekFunction(n, step, p)
    PROVE  DInv'
<1>1. PICK u : u = diskUnit
  OBVIOUS
<1>2. u \in Units /\ step \in {1, 2} /\ p \in Disk!Place
  BY <1>1 DEF Disk!SeekFunction, DInv, DiskControl, DiskPlanType
<1>3. diskFcode' = "none" /\ recordLength' \in -1 .. SectorSize /\ diskSent' \in Seq(Nat)
  BY Ended DEF Disk!SeekFunction, DiskAssumption
<1>4. /\ UNCHANGED <<opened, classic, readonly, container, content, diskPlan, buffer>>
      /\ interlace' = [interlace EXCEPT ![u] = step] /\ diskAsked' = [diskAsked EXCEPT ![u] = step]
  BY <1>1 DEF Disk!SeekFunction, Disk!files
<1>5. interlace' \in [Units -> {0, 1, 2}] /\ diskAsked' = interlace' /\ interlace'[u] = step
      /\ \A v \in Units : v # u => interlace'[v] = interlace[v]
  BY <1>2, <1>4 DEF DInv, DiskPlaces
<1>6. SectorSize \in Nat
  BY DEF DiskAssumption
<1>7. CASE n = u /\ Disk!Valid(p)
  <2>1. p \in Disk!Places
    BY <1>2, <1>7, PlacesIn
  <2>2. /\ place' = [place EXCEPT ![u] = p] /\ bufPtr' = [bufPtr EXCEPT ![u] = Disk!Null]
        /\ pos' = [pos EXCEPT ![u] = p] /\ at' = [at EXCEPT ![u] = p]
        /\ status' = "ok" /\ fresh' = fresh \cup {u} /\ diskUnit' = u
    BY <1>1, <1>7 DEF Disk!SeekFunction, Disk!Seek
  <2>3. Disk!Null \in Disk!Null .. SectorSize
    BY <1>6 DEF Disk!Null
  <2>4. DiskPlaces'
    BY <1>2, <1>4, <1>5, <2>1, <2>2, <2>3 DEF DInv, DiskPlaces
  <2>5. Fresh'
    BY <1>2, <1>5, <2>2 DEF DInv, DiskPlaces, DiskControl, Fresh, Settled
  <2>6. DiskControl'
    BY <1>2, <1>3, <1>4, <1>5, <2>2 DEF DInv, DiskControl, DiskAssumption
  <2> QED
    BY <1>3, <1>4, <2>4, <2>5, <2>6 DEF DInv, DiskFiles
<1>8. CASE ~(n = u /\ Disk!Valid(p))
  <2>1. /\ at' = at /\ fresh' = fresh \ {u} /\ pos' = pos
        /\ place' = [place EXCEPT ![u] = p] \/ place' = place
        /\ bufPtr' = [bufPtr EXCEPT ![u] = Disk!Null] \/ bufPtr' = bufPtr
        /\ status' \in {"invalid", "none"} /\ diskUnit' \in {u, Disk!NoUnit}
    BY <1>1, <1>8 DEF Disk!SeekFunction, Disk!Seek
  <2>3. Disk!Null \in Disk!Null .. SectorSize
    BY <1>6 DEF Disk!Null
  <2>4. DiskPlaces'
    BY <1>2, <1>4, <1>5, <2>1, <2>3 DEF DInv, DiskPlaces
  <2>5. Fresh'
    BY <1>2, <1>5, <2>1 DEF DInv, DiskPlaces, DiskControl, Fresh, Settled
  <2>6. DiskControl'
    BY <1>2, <1>3, <1>4, <1>5, <2>1 DEF DInv, DiskControl, DiskAssumption
  <2> QED
    BY <1>3, <1>4, <2>4, <2>5, <2>6 DEF DInv, DiskFiles
<1> QED
  BY <1>7, <1>8

\* A transfer starts on a drive that is where the PP takes it to be.
LEMMA StartsAt ==
    ASSUME DInv, NEW u, u = diskUnit, Disk!MayTransfer(u)
    PROVE  u \in Units /\ u \in opened /\ u \in fresh /\ Settled(u) /\ bufPtr[u] = Disk!Null
BY DEF Disk!MayTransfer, Disk!Ready, DInv, Fresh, DiskControl

\* The function, its length and one transfer less.
LEMMA TransferIs ==
    ASSUME DInv, NEW f \in {"read", "readmap", "deadstart", "write", "none"},
           NEW n \in -1 .. SectorSize, Disk!Transfer(f, n)
    PROVE  /\ diskFcode' = f /\ recordLength' = n /\ diskSent' = <<>>
           /\ diskPlan' \in DiskPlanType /\ diskPlan'.loads = diskPlan.loads
           /\ diskPlan'.transfers = diskPlan.transfers - 1
<1>1. diskPlan \in DiskPlanType /\ diskPlan.transfers > 0
      /\ diskPlan' = [diskPlan EXCEPT !.transfers = @ - 1]
  BY DEF Disk!Transfer, DInv, DiskControl
<1>2. diskPlan.transfers - 1 \in Nat
  BY <1>1 DEF DiskPlanType
<1> QED
  BY <1>1, <1>2 DEF Disk!Transfer, Disk!Function, DiskPlanType

\* The size of a sector is even and large enough for the factory data.
LEMMA SizeIs ==
    ASSUME DiskAssumption
    PROVE  /\ SectorSize \in Nat /\ SectorSize > 2 /\ SectorSize \in -1 .. SectorSize
           /\ 0 \in -1 .. SectorSize /\ SectorSize - SectorSize = 0
           /\ 0 \in Disk!Null .. SectorSize /\ Disk!Null \in Disk!Null .. SectorSize
           /\ SectorSize \in Disk!Null .. SectorSize /\ 0 # Disk!Null /\ SectorSize # Disk!Null
<1>1. SectorSize \in Nat /\ SectorSize > 2
  BY DEF DiskAssumption
<1> QED
  BY <1>1 DEF Disk!Null

\* The function read.
LEMMA ReadKeeps == ASSUME DiskAssumption, DInv, Disk!FuncRead PROVE DInv'
<1>1. PICK u : u = diskUnit
  OBVIOUS
<1>2. u \in Units /\ u \in opened /\ u \in fresh /\ Settled(u) /\ bufPtr[u] = Disk!Null
  BY <1>1, StartsAt DEF Disk!FuncRead
<1>3. /\ diskFcode' = "read" /\ recordLength' = SectorSize /\ diskSent' = <<>>
      /\ diskPlan' \in DiskPlanType /\ diskPlan'.loads = diskPlan.loads
  BY SizeIs, TransferIs DEF Disk!FuncRead
<1>4. /\ bufPtr' = [bufPtr EXCEPT ![u] = 0] /\ buffer' = [buffer EXCEPT ![u] = container[u][pos[u]]]
      /\ fresh' = fresh \ {u}
      /\ UNCHANGED <<opened, classic, readonly, container, content, diskUnit, place, interlace,
                     pos, status, at, diskAsked>>
  BY <1>1 DEF Disk!FuncRead, Disk!idle, Disk!files
<1>5. container[u][pos[u]] \in Block
  BY <1>2 DEF DInv, DiskFiles, DiskPlaces
<1>6. DiskFiles'
  BY <1>4 DEF DInv, DiskFiles
<1>7. DiskPlaces'
  BY <1>2, <1>4, <1>5, SizeIs DEF DInv, DiskPlaces
<1>8. DiskControl'
  BY <1>3, <1>4, SizeIs DEF DInv, DiskControl
<1>9. Fresh'
  BY <1>4 DEF DInv, DiskPlaces, DiskControl, Fresh, Settled
<1>10. MidSector(u)'
  <2>1. bufPtr'[u] = 0 /\ buffer'[u] = container[u][pos[u]]
    BY <1>2, <1>4 DEF DInv, DiskPlaces
  <2>2. OnWord(u)'
    BY <1>3, <1>4, <2>1, SizeIs DEF OnWord, Disk!Index
  <2>3. Settled(u)' /\ u \in opened' /\ u \notin fresh'
    BY <1>2, <1>4 DEF Settled
  <2> QED
    BY <1>3, <2>2, <2>3, SizeIs DEF MidSector
<1> QED
  BY <1>1, <1>4, <1>6, <1>7, <1>8, <1>9, <1>10 DEF DInv

\* The functions write and read the utility map.
LEMMA WriteKeeps == ASSUME DiskAssumption, DInv, Disk!FuncWrite \/ Disk!FuncReadMap PROVE DInv'
<1>1. PICK u : u = diskUnit
  OBVIOUS
<1>2. u \in Units /\ u \in opened /\ u \in fresh /\ Settled(u) /\ bufPtr[u] = Disk!Null
  BY <1>1, StartsAt DEF Disk!FuncWrite, Disk!FuncReadMap
<1>3. /\ diskFcode' \in {"write", "readmap"} /\ recordLength' = SectorSize /\ diskSent' = <<>>
      /\ diskPlan' \in DiskPlanType /\ diskPlan'.loads = diskPlan.loads
  BY SizeIs, TransferIs DEF Disk!FuncWrite, Disk!FuncReadMap
<1>4. /\ fresh' = fresh \ {u}
      /\ UNCHANGED <<opened, classic, readonly, container, content, diskUnit, place, interlace,
                     bufPtr, buffer, pos, status, at, diskAsked>>
  BY <1>1 DEF Disk!FuncWrite, Disk!FuncReadMap, Disk!idle, Disk!files, Disk!position
<1>6. DiskFiles'
  BY <1>4 DEF DInv, DiskFiles
<1>7. DiskPlaces'
  BY <1>4 DEF DInv, DiskPlaces
<1>8. DiskControl'
  BY <1>3, <1>4, SizeIs DEF DInv, DiskControl
<1>9. Fresh'
  BY <1>4 DEF DInv, DiskPlaces, DiskControl, Fresh, Settled
<1>10. MidSector(u)'
  <2>1. Disk!Index(u)' = 0 /\ Disk!Index(u)' = SectorSize - recordLength'
    BY <1>2, <1>3, <1>4, SizeIs DEF Disk!Index
  <2>2. OnWord(u)'
    BY <1>2, <1>4, <2>1 DEF OnWord
  <2>3. Gathered(u)'
    BY <1>3, <2>1, SizeIs DEF Gathered
  <2>4. Settled(u)' /\ u \in opened' /\ u \notin fresh'
    BY <1>2, <1>4 DEF Settled
  <2> QED
    BY <1>3, <2>2, <2>3, <2>4, SizeIs DEF MidSector
<1> QED
  BY <1>1, <1>4, <1>6, <1>7, <1>8, <1>9, <1>10 DEF DInv

\* The function that reads a gap sector.
LEMMA GapKeeps == ASSUME DiskAssumption, DInv, Disk!FuncGapRead PROVE DInv'
<1>1. PICK u : u = diskUnit
  OBVIOUS
<1>2. /\ diskFcode = "read" /\ diskFcode' = "gapread" /\ recordLength' = recordLength /\ diskSent' = <<>>
      /\ UNCHANGED <<opened, classic, readonly, container, content, diskUnit, diskPlan, place, interlace,
                     bufPtr, buffer, pos, status, at, diskAsked, fresh>>
  BY DEF Disk!FuncGapRead, Disk!Function, Disk!idle, Disk!files, Disk!position, Disk!mind
<1>3. MidSector(u)
  BY <1>1, <1>2 DEF DInv
<1>4. MidSector(u)'
  BY <1>2, <1>3 DEF MidSector, Settled
<1>5. DiskControl'
  <2>1. <<>> \in Seq(Nat)
    OBVIOUS
  <2> QED
    BY <1>2, <2>1 DEF DInv, DiskControl
<1> QED
  BY <1>1, <1>2, <1>4, <1>5 DEF DInv, DiskFiles, DiskPlaces, Fresh, Settled

\* The deadstart function, on drive 0.
LEMMA DeadstartKeeps == ASSUME DiskAssumption, DInv, Disk!FuncDeadstart PROVE DInv'
<1>1. PICK p : p = Disk!Deadstart(0)
  OBVIOUS
<1>2. p \in Disk!Places /\ p \in Disk!Place /\ Disk!Valid(p)
  BY <1>1, SpecialPlaces, PlacesIn
<1>3. /\ diskFcode' = "deadstart" /\ recordLength' = SectorSize /\ diskSent' = <<>>
      /\ diskPlan' \in DiskPlanType /\ diskPlan'.loads = diskPlan.loads
  BY SizeIs, TransferIs DEF Disk!FuncDeadstart
<1>4. /\ 0 \in opened /\ diskUnit' = 0 /\ fresh' = fresh \ {0} /\ at' = [at EXCEPT ![0] = p]
      /\ UNCHANGED <<opened, classic, readonly, container, content, interlace, buffer, diskAsked>>
      /\ Disk!Seek(0, p)
  BY <1>1 DEF Disk!FuncDeadstart, Disk!files, Disk!Ready
<1>5. /\ place' = [place EXCEPT ![0] = p] /\ bufPtr' = [bufPtr EXCEPT ![0] = Disk!Null]
      /\ status' = "ok" /\ pos' = [pos EXCEPT ![0] = p]
  BY <1>2, <1>4 DEF Disk!Seek
<1>6. 0 \in Units
  BY DEF DiskAssumption
<1>7. DiskPlaces'
  BY <1>2, <1>4, <1>5, <1>6, SizeIs DEF DInv, DiskPlaces
<1>8. DiskControl'
  <2>1. <<>> \in Seq(Nat)
    OBVIOUS
  <2> QED
    BY <1>3, <1>4, <1>5, <1>6, <2>1, SizeIs DEF DInv, DiskControl
<1>9. Fresh'
  BY <1>4, <1>5, <1>6 DEF DInv, DiskPlaces, DiskControl, Fresh, Settled
<1>10. MidSector(0)'
  <2>1. interlace[0] # 0
    BY <1>4 DEF DInv, DiskControl
  <2>2. Settled(0)'
    BY <1>4, <1>5, <1>6, <2>1 DEF DInv, DiskPlaces, Settled
  <2> QED
    BY <1>3, <1>4, <2>2, SizeIs DEF MidSector
<1> QED
  BY <1>4, <1>7, <1>8, <1>9, <1>10 DEF DInv, DiskFiles

-----------------------------------------------------------------------------
\* The operator unloads a drive.
LEMMA UnloadKeeps == ASSUME DiskAssumption, DInv, NEW u \in Units, Disk!Unload(u) PROVE DInv'
<1>1. /\ opened' = opened \ {u} /\ fresh' = fresh \ {u}
      /\ diskUnit' = IF diskUnit = u THEN Disk!NoUnit ELSE diskUnit
      /\ ~(u = diskUnit /\ diskFcode # "none")
      /\ UNCHANGED <<classic, readonly, container, content, diskPlan, place, interlace, diskFcode,
                     bufPtr, buffer, pos, status, at, diskAsked, recordLength, diskSent>>
  BY DEF Disk!Unload, Disk!MidTransfer, Disk!position
<1>2. DiskFiles' /\ DiskPlaces'
  BY <1>1 DEF DInv, DiskFiles, DiskPlaces
<1>3. DiskControl'
  BY <1>1 DEF DInv, DiskControl
<1>4. Fresh'
  BY <1>1 DEF DInv, Fresh, Settled
<1>5. ASSUME diskFcode # "none" PROVE MidSector(diskUnit)'
  <2>1. PICK v : v = diskUnit /\ v # u /\ diskUnit' = v
    BY <1>1, <1>5
  <2>2. MidSector(v)
    BY <1>5, <2>1 DEF DInv
  <2>3. MidSector(v)'
    BY <1>1, <2>1, <2>2 DEF MidSector, Settled, OnWord, Gathered, Disk!Index
  <2> QED
    BY <2>1, <2>3
<1> QED
  BY <1>1, <1>2, <1>3, <1>4, <1>5 DEF DInv

\* The operator loads a drive.
LEMMA LoadKeeps ==
    ASSUME DiskAssumption, DInv, NEW u \in Units, NEW mode \in {"r", "w"}, Disk!Load(u, mode)
    PROVE  DInv'
<1>1. /\ u \notin opened /\ u \in diskPlan.loads /\ diskPlan' = [diskPlan EXCEPT !.loads = @ \ {u}]
      /\ opened' = opened \cup {u}
      /\ readonly' = readonly \ {u} \/ readonly' = readonly \cup {u}
      /\ container' = [container EXCEPT ![u] = Disk!New(u)]
      /\ content' = [content EXCEPT ![u] = Disk!New(u)]
      /\ UNCHANGED <<place, interlace, diskFcode, diskUnit, fresh,
                     bufPtr, buffer, pos, status, at, diskAsked, recordLength, diskSent>>
  BY DEF Disk!Load, Disk!position, Disk!mind, Disk!Ready
<1>2. DiskFiles'
  <2>1. Disk!New(u) \in [Disk!Places -> Block]
    BY NewIs
  <2> QED
    BY <1>1, <2>1 DEF DInv, DiskFiles
<1>3. DiskPlaces' /\ Fresh'
  BY <1>1 DEF DInv, DiskPlaces, Fresh, Settled
<1>4. DiskControl'
  <2>1. diskPlan' \in DiskPlanType /\ diskPlan'.loads = diskPlan.loads \ {u}
    BY <1>1 DEF DInv, DiskControl, DiskPlanType
  <2> QED
    BY <1>1, <2>1 DEF DInv, DiskControl
<1>5. ASSUME diskFcode # "none" PROVE MidSector(diskUnit)'
  <2>1. PICK v : v = diskUnit
    OBVIOUS
  <2>2. MidSector(v) /\ v # u
    BY <1>1, <1>5, <2>1 DEF DInv, MidSector
  <2>3. container'[v] = container[v] /\ (v \in readonly' <=> v \in readonly) /\ v \in opened'
    BY <1>1, <2>2 DEF DInv, DiskFiles, MidSector
  <2>4. MidSector(v)'
    BY <1>1, <2>2, <2>3 DEF MidSector, Settled, OnWord, Gathered, Disk!Index
  <2> QED
    BY <1>1, <2>1, <2>4
<1> QED
  BY <1>1, <1>2, <1>3, <1>4, <1>5 DEF DInv

\* What there is of a transfer.
LEMMA InTransfer ==
    ASSUME DiskAssumption, DInv, diskFcode # "none", NEW u, u = diskUnit
    PROVE  /\ u \in Units /\ u \in opened /\ u \notin fresh /\ Settled(u) /\ MidSector(u)
           /\ recordLength \in 1 .. SectorSize
           /\ place[u] \in Disk!Places /\ interlace[u] \in {1, 2}
           /\ buffer[u] \in Block /\ container[u][pos[u]] \in Block /\ Disk!Filled(u) \in Block
           /\ Disk!Index(u) \in 0 .. SectorSize
<1>1. MidSector(u) /\ u \in Units
  BY DEF DInv, MidSector, DiskFiles
<1>2. recordLength \in 1 .. SectorSize
  BY <1>1, SizeIs DEF MidSector, DInv, DiskControl
<1>3. place[u] \in Disk!Places /\ interlace[u] \in {1, 2}
  BY <1>1 DEF MidSector, Settled, DInv, DiskPlaces
<1>4. buffer[u] \in Block /\ container[u][pos[u]] \in Block
  BY <1>1 DEF DInv, DiskFiles, DiskPlaces
<1>5. Disk!Filled(u) \in Block
  BY <1>4 DEF Disk!Filled
<1>6. Disk!Index(u) \in 0 .. SectorSize
  <2>1. bufPtr[u] \in Disk!Null .. SectorSize
    BY <1>1 DEF DInv, DiskPlaces
  <2> QED
    BY <2>1, SizeIs DEF Disk!Index, Disk!Null
<1> QED
  BY <1>1, <1>2, <1>3, <1>4, <1>5, <1>6 DEF MidSector

\* After a whole sector the drive is at the next one, and so it is for the PP.
LEMMA SectorIsDone ==
    ASSUME DiskAssumption, DInv, diskFcode # "none", NEW u, u = diskUnit, NEW gap \in BOOLEAN,
           Disk!SectorDone(u, gap), UNCHANGED <<interlace, diskAsked>>
    PROVE  /\ place' \in [Units -> Disk!Place] /\ pos' \in [Units -> Disk!Places]
           /\ at' \in [Units -> Disk!Places] /\ bufPtr' \in [Units -> Disk!Null .. SectorSize]
           /\ status' = "ok" /\ fresh' = fresh \cup {u}
           /\ Fresh'
<1>1. /\ u \in Units /\ u \notin fresh /\ place[u] = pos[u] /\ at[u] = pos[u] /\ interlace[u] # 0
      /\ place[u] \in Disk!Places /\ interlace[u] \in {1, 2}
  BY InTransfer DEF Settled
<1>2. PICK p : p = Disk!NextPlace(place[u], interlace[u], gap)
  OBVIOUS
<1>3. p \in Disk!Places
  BY <1>1, <1>2, NextIsPlace
<1>4. p \in Disk!Place /\ Disk!Valid(p)
  BY <1>3, PlacesIn
<1>5. diskAsked[u] = interlace[u]
  BY <1>1 DEF DInv, DiskPlaces
<1>6. ~gap => Disk!InTurn(at[u], diskAsked[u]) = p
  BY <1>1, <1>2, <1>5, NextInTurn
<1>7. at' = [at EXCEPT ![u] = p]
  <2>1. at' = [at EXCEPT ![u] = IF gap THEN p ELSE Disk!InTurn(at[u], diskAsked[u])]
    BY <1>2 DEF Disk!SectorDone
  <2> QED
    BY <1>6, <2>1
<1>8. /\ place' = [place EXCEPT ![u] = p] /\ bufPtr' = [bufPtr EXCEPT ![u] = Disk!Null]
      /\ status' = "ok" /\ pos' = [pos EXCEPT ![u] = p] /\ fresh' = fresh \cup {u}
  BY <1>2, <1>4 DEF Disk!SectorDone, Disk!Seek
<1>9. /\ place' \in [Units -> Disk!Place] /\ pos' \in [Units -> Disk!Places]
      /\ at' \in [Units -> Disk!Places] /\ bufPtr' \in [Units -> Disk!Null .. SectorSize]
  BY <1>1, <1>3, <1>4, <1>7, <1>8, SizeIs DEF DInv, DiskPlaces
<1>10. Fresh'
  BY <1>1, <1>7, <1>8 DEF DInv, DiskPlaces, DiskControl, Fresh, Settled
<1> QED
  BY <1>8, <1>9, <1>10

\* The last word of a sector was read.
LEMMA LastRead ==
    ASSUME DiskAssumption, DInv, diskFcode # "none", NEW u, u = diskUnit, NEW gap \in BOOLEAN,
           Disk!SectorDone(u, gap), buffer' = [buffer EXCEPT ![u] = Disk!Filled(u)],
           diskFcode' = "none", recordLength' \in -1 .. SectorSize,
           UNCHANGED <<Disk!files, diskUnit, diskPlan, interlace, diskAsked, diskSent>>
    PROVE  DInv'
<1>1. u \in Units /\ Disk!Filled(u) \in Block
  BY InTransfer
<1>2. UNCHANGED <<opened, classic, readonly, container, content>>
  BY DEF Disk!files
<1>3. /\ place' \in [Units -> Disk!Place] /\ pos' \in [Units -> Disk!Places]
      /\ at' \in [Units -> Disk!Places] /\ bufPtr' \in [Units -> Disk!Null .. SectorSize]
      /\ status' = "ok" /\ fresh' = fresh \cup {u}
      /\ Fresh'
  BY SectorIsDone
<1>4. DiskFiles'
  BY <1>2 DEF DInv, DiskFiles
<1>5. DiskPlaces'
  BY <1>1, <1>3 DEF DInv, DiskPlaces
<1>6. DiskControl'
  BY <1>1, <1>2, <1>3 DEF DInv, DiskControl
<1> QED
  BY <1>3, <1>4, <1>5, <1>6 DEF DInv

\* Another word was read.
LEMMA OneRead ==
    ASSUME DiskAssumption, DInv, diskFcode # "none", NEW u, u = diskUnit, Disk!Advances(u),
           recordLength' \in -1 .. SectorSize,
           diskFcode' = IF recordLength' > 0 THEN diskFcode ELSE "none",
           diskFcode = "write" => diskFcode' = "none",
           diskFcode \in {"read", "readmap"} => recordLength' = recordLength - 1,
           UNCHANGED <<Disk!files, diskUnit, diskPlan, interlace, diskAsked, diskSent, place, pos, status,
                       at, fresh>>
    PROVE  DInv'
<1>1. /\ u \in Units /\ u \in opened /\ u \notin fresh /\ Settled(u) /\ MidSector(u)
      /\ recordLength \in 1 .. SectorSize
      /\ Disk!Filled(u) \in Block /\ Disk!Index(u) \in 0 .. SectorSize
  BY InTransfer
<1>2. UNCHANGED <<opened, classic, readonly, container, content>>
  BY DEF Disk!files
<1>3. PICK i \in Disk!Null .. SectorSize :
         /\ i = IF Disk!Index(u) < SectorSize THEN Disk!Index(u) + 1 ELSE SectorSize
         /\ i # Disk!Null
  BY <1>1, SizeIs DEF Disk!Null
<1>4. buffer' = [buffer EXCEPT ![u] = Disk!Filled(u)] /\ bufPtr' = [bufPtr EXCEPT ![u] = i]
  BY <1>3 DEF Disk!Advances
<1>5. DiskFiles'
  BY <1>2 DEF DInv, DiskFiles
<1>6. DiskPlaces'
  BY <1>1, <1>4 DEF DInv, DiskPlaces
<1>7. DiskControl'
  BY <1>1, <1>2 DEF DInv, DiskControl
<1>8. Fresh'
  BY <1>1, <1>4 DEF DInv, DiskPlaces, DiskControl, Fresh, Settled
<1>9. ASSUME diskFcode' # "none" PROVE MidSector(u)'
  <2>1. diskFcode' = diskFcode /\ recordLength' > 0 /\ diskFcode # "write"
    BY <1>9
  <2>2. Settled(u)'
    BY <1>1 DEF Settled
  <2>3. bufPtr'[u] = i /\ buffer'[u] = Disk!Filled(u)
    BY <1>1, <1>4 DEF DInv, DiskPlaces
  <2>4. ASSUME diskFcode \in {"read", "readmap"} PROVE OnWord(u)'
    <3>1. OnWord(u) /\ recordLength' = recordLength - 1
      BY <1>1, <2>4 DEF MidSector
    <3>2. i = SectorSize - recordLength'
      BY <1>1, <1>3, <3>1, SizeIs DEF OnWord
    <3>3. Disk!Filled(u) = container[u][pos[u]]
      BY <3>1 DEF OnWord, Disk!Filled
    <3> QED
      BY <1>2, <1>3, <2>3, <3>2, <3>3 DEF OnWord, Disk!Index
  <2> QED
    BY <1>1, <1>2, <2>1, <2>2, <2>4 DEF MidSector
<1> QED
  BY <1>5, <1>6, <1>7, <1>8, <1>9 DEF DInv

\* A word is read.
LEMMA WordReadKeeps == ASSUME DiskAssumption, DInv, Disk!ReadWord PROVE DInv'
<1>1. PICK u : u = diskUnit
  OBVIOUS
<1>2. /\ diskFcode \in {"read", "gapread", "readmap"} /\ recordLength' = recordLength - 1
      /\ diskFcode' = IF recordLength' > 0 THEN diskFcode ELSE "none"
      /\ UNCHANGED <<Disk!files, diskUnit, diskPlan, interlace, diskAsked, diskSent>>
  BY DEF Disk!ReadWord, Disk!Left, Disk!idle
<1>3. recordLength \in 1 .. SectorSize
  BY <1>1, <1>2, InTransfer
<1>4. recordLength' \in -1 .. SectorSize
  BY <1>2, <1>3, SizeIs
<1>5. CASE recordLength = 1 /\ diskFcode # "readmap"
  <2>1. PICK gap \in BOOLEAN : gap = (diskFcode = "gapread")
    OBVIOUS
  <2>2. Disk!SectorDone(u, gap) /\ buffer' = [buffer EXCEPT ![u] = Disk!Filled(u)]
    BY <1>1, <1>5, <2>1 DEF Disk!ReadWord
  <2>3. diskFcode' = "none" /\ diskFcode # "none"
    BY <1>2, <1>5
  <2> QED
    BY <1>1, <1>2, <1>4, <2>2, <2>3, LastRead
<1>6. CASE ~(recordLength = 1 /\ diskFcode # "readmap")
  <2>1. Disk!Advances(u) /\ UNCHANGED <<place, pos, status, at, fresh>>
    BY <1>1, <1>6 DEF Disk!ReadWord
  <2>2. diskFcode # "write" /\ diskFcode # "none"
    BY <1>2
  <2> QED
    BY <1>1, <1>2, <1>4, <2>1, <2>2, OneRead
<1> QED
  BY <1>5, <1>6

\* A word of the deadstart sector is read.
LEMMA DeadstartWordKeeps == ASSUME DiskAssumption, DInv, Disk!DeadstartWord PROVE DInv'
<1>1. PICK u : u = diskUnit
  OBVIOUS
<1>2. PICK left : left = (IF recordLength = SectorSize THEN Disk!Limit(Disk!Word(u), SectorSize)
                          ELSE recordLength) - 1
  OBVIOUS
<1>3. /\ diskFcode = "deadstart" /\ recordLength' = left
      /\ diskFcode' = IF recordLength' > 0 THEN diskFcode ELSE "none"
      /\ UNCHANGED <<Disk!files, diskUnit, diskPlan, interlace, diskAsked, diskSent>>
      /\ IF left = 0 THEN Disk!SectorDone(u, FALSE) /\ buffer' = [buffer EXCEPT ![u] = Disk!Filled(u)]
         ELSE Disk!Advances(u) /\ UNCHANGED <<place, pos, status, at, fresh>>
  BY <1>1, <1>2 DEF Disk!DeadstartWord, Disk!Left, Disk!idle
<1>4. /\ recordLength \in 1 .. SectorSize
      /\ Disk!Filled(u) \in Block /\ Disk!Index(u) \in 0 .. SectorSize
  BY <1>1, <1>3, InTransfer
<1>5. recordLength' \in -1 .. SectorSize
  <2>1. Disk!Word(u) \in Nat
    BY <1>4, SizeIs DEF Disk!Word, Block
  <2>2. Disk!Limit(Disk!Word(u), SectorSize) \in 0 .. SectorSize
    BY <2>1, SizeIs DEF Disk!Limit
  <2> QED
    BY <1>2, <1>3, <1>4, <2>2, SizeIs
<1>6. CASE left = 0
  <2>1. Disk!SectorDone(u, FALSE) /\ buffer' = [buffer EXCEPT ![u] = Disk!Filled(u)]
    BY <1>3, <1>6, Zenon
  <2>2. diskFcode' = "none" /\ diskFcode # "none"
    BY <1>3, <1>6
  <2> QED
    BY <1>1, <1>3, <1>5, <2>1, <2>2, LastRead
<1>7. CASE left # 0
  <2>1. /\ Disk!Advances(u) /\ UNCHANGED <<place, pos, status, at, fresh>>
        /\ diskFcode # "none" /\ diskFcode # "write" /\ diskFcode \notin {"read", "readmap"}
    BY <1>3, <1>7
  <2> QED
    BY <1>1, <1>3, <1>5, <2>1, OneRead
<1> QED
  BY <1>6, <1>7

\* Functions of the numbers of a sector are sequences.
LEMMA BlockIs ==
    ASSUME NEW n \in Nat, NEW b \in [1 .. n -> Nat], NEW s \in Seq(Nat), Len(s) = n,
           \A i \in 1 .. n : b[i] = s[i]
    PROVE  b = s
OBVIOUS

\* What the PP writes are numbers.
LEMMA WrittenIs ==
    ASSUME DiskAssumption, DInv,
           NEW w \in IF diskSent = <<>> THEN FirstWords ELSE {10 * diskPlan.transfers + Len(diskSent)}
    PROVE  w \in Nat
<1>1. diskPlan.transfers \in Nat /\ Len(diskSent) \in Nat /\ FirstWords \subseteq Nat
  BY DEF DInv, DiskControl, DiskPlanType, DiskAssumption
<1>2. 10 * diskPlan.transfers + Len(diskSent) \in Nat
  BY <1>1
<1> QED
  BY <1>1, <1>2

\* A step of a write: w is the word, n what is left.
WriteStep(u, w, n) ==
    /\ diskFcode = "write" /\ recordLength' = n /\ n = recordLength - 1
    /\ diskFcode' = IF n > 0 THEN diskFcode ELSE "none"
    /\ diskSent' = IF recordLength = 1 THEN <<>> ELSE Append(diskSent, w)
    /\ UNCHANGED <<opened, classic, readonly, interlace, diskUnit, diskAsked, diskPlan>>

\* What a word that is written does.
LEMMA WriteIs ==
    ASSUME DiskAssumption, DInv, NEW u, u = diskUnit, NEW w \in Nat, NEW n, WriteStep(u, w, n)
    PROVE  /\ u \in Units /\ u \in opened /\ u \notin fresh /\ Settled(u) /\ Gathered(u)
           /\ recordLength \in 1 .. SectorSize /\ n \in Nat /\ n < SectorSize /\ n \in -1 .. SectorSize
           /\ diskSent' \in Seq(Nat) /\ diskSent \in Seq(Nat)
           /\ diskFcode' # "none" => Len(diskSent') = SectorSize - n
<1>1. /\ u \in Units /\ u \in opened /\ u \notin fresh /\ Settled(u) /\ MidSector(u)
      /\ recordLength \in 1 .. SectorSize
  BY InTransfer DEF WriteStep
<1>2. Gathered(u)
  BY <1>1 DEF MidSector, WriteStep
<1>3. n \in Nat /\ n < SectorSize /\ n \in -1 .. SectorSize
  BY <1>1, SizeIs DEF WriteStep
<1>4. diskSent \in Seq(Nat)
  BY DEF DInv, DiskControl
<1>5. diskSent' \in Seq(Nat)
  BY <1>4 DEF WriteStep
<1>6. ASSUME diskFcode' # "none" PROVE Len(diskSent') = SectorSize - n
  <2>1. n > 0
    BY <1>6 DEF WriteStep
  <2>2. recordLength # 1
    BY <1>1, <2>1 DEF WriteStep
  <2>3. diskSent' = Append(diskSent, w)
    BY <2>2 DEF WriteStep
  <2>4. Len(diskSent') = Len(diskSent) + 1
    BY <1>4, <2>3
  <2> QED
    BY <1>1, <1>2, <2>4, SizeIs DEF Gathered, WriteStep
<1> QED
  BY <1>1, <1>2, <1>3, <1>4, <1>5, <1>6

\* A word for a pack that cannot be written.
LEMMA ReadonlyKeeps ==
    ASSUME DiskAssumption, DInv, NEW u, u = diskUnit, NEW w \in Nat, NEW n, WriteStep(u, w, n),
           u \in readonly, status' = "none",
           UNCHANGED <<container, content, place, bufPtr, buffer, pos, at, fresh>>
    PROVE  DInv'
<1>1. /\ u \in Units /\ u \in opened /\ u \notin fresh /\ Settled(u)
      /\ n \in -1 .. SectorSize /\ diskSent' \in Seq(Nat)
      /\ diskFcode' # "none" => Len(diskSent') = SectorSize - n
  BY WriteIs
<1>2. /\ diskFcode = "write" /\ recordLength' = n /\ diskFcode' = IF n > 0 THEN diskFcode ELSE "none"
      /\ UNCHANGED <<opened, classic, readonly, interlace, diskUnit, diskAsked, diskPlan>>
  BY DEF WriteStep
<1>3. DiskFiles' /\ DiskPlaces' /\ Fresh'
  BY <1>2 DEF DInv, DiskFiles, DiskPlaces, Fresh, Settled
<1>4. DiskControl'
  BY <1>1, <1>2 DEF DInv, DiskControl
<1>5. ASSUME diskFcode' # "none" PROVE MidSector(u)'
  <2>1. diskFcode' = "write" /\ recordLength' > 0
    BY <1>2, <1>5
  <2>2. Gathered(u)'
    BY <1>1, <1>2, <1>5 DEF Gathered
  <2>3. Settled(u)'
    BY <1>1, <1>2 DEF Settled
  <2> QED
    BY <1>1, <1>2, <2>1, <2>2, <2>3 DEF MidSector
<1> QED
  BY <1>2, <1>3, <1>4, <1>5 DEF DInv

\* The block with the word that is written.
LEMMA BlockNow ==
    ASSUME DiskAssumption, DInv, NEW u, u = diskUnit, NEW w \in Nat, NEW n, WriteStep(u, w, n),
           u \notin readonly
    PROVE  \E b \in Block, k \in Nat :
              /\ b = [buffer[u] EXCEPT ![Disk!Index(u) + 1] = w]
              /\ Disk!Index(u) = k /\ Len(diskSent) = k /\ k < SectorSize /\ k = SectorSize - recordLength
              /\ Append(diskSent, w) \in Seq(Nat) /\ Len(Append(diskSent, w)) = k + 1
              /\ \A i \in 1 .. k + 1 : b[i] = Append(diskSent, w)[i]
<1>1. /\ u \in Units /\ Gathered(u) /\ recordLength \in 1 .. SectorSize /\ diskSent \in Seq(Nat)
  BY WriteIs
<1>2. buffer[u] \in Block
  BY <1>1 DEF DInv, DiskPlaces
<1>3. PICK k \in Nat : k = Len(diskSent)
  BY <1>1
<1>4. Disk!Index(u) = k /\ k = SectorSize - recordLength /\ \A i \in 1 .. k : buffer[u][i] = diskSent[i]
  BY <1>1, <1>3 DEF Gathered
<1>5. k < SectorSize /\ k + 1 \in 1 .. SectorSize
  BY <1>1, <1>3, <1>4, SizeIs
<1>6. PICK b : b = [buffer[u] EXCEPT ![k + 1] = w]
  OBVIOUS
<1>7. b \in Block /\ b[k + 1] = w /\ \A i \in 1 .. k : b[i] = buffer[u][i]
  <2>1. \A i \in 1 .. k : i \in 1 .. SectorSize /\ i # k + 1
    BY <1>3, <1>5, SizeIs
  <2> QED
    BY <1>2, <1>5, <1>6, <2>1 DEF Block
<1>8. PICK s : s = Append(diskSent, w)
  OBVIOUS
<1>9. s \in Seq(Nat) /\ Len(s) = k + 1 /\ s[k + 1] = w /\ \A i \in 1 .. k : s[i] = diskSent[i]
  BY <1>1, <1>3, <1>8
<1>10. \A i \in 1 .. k + 1 : b[i] = s[i]
  <2>1. \A i \in 1 .. k + 1 : i \in 1 .. k \/ i = k + 1
    BY <1>3
  <2> QED
    BY <1>4, <1>7, <1>9, <2>1
<1>11. /\ b = [buffer[u] EXCEPT ![Disk!Index(u) + 1] = w]
       /\ Disk!Index(u) = k /\ Len(diskSent) = k /\ k < SectorSize /\ k = SectorSize - recordLength
  BY <1>3, <1>4, <1>5, <1>6
<1>12. /\ Append(diskSent, w) \in Seq(Nat) /\ Len(Append(diskSent, w)) = k + 1
       /\ \A i \in 1 .. k + 1 : b[i] = Append(diskSent, w)[i]
  BY <1>8, <1>9, <1>10
<1>13. b \in Block /\ k \in Nat
  BY <1>3, <1>7
<1> QED
  BY <1>11, <1>12, <1>13, Zenon

\* The last word of a sector: it is stored where the PP takes it to be.
LEMMA LastWritten ==
    ASSUME DiskAssumption, DInv, NEW u, u = diskUnit, NEW w \in Nat, NEW n, WriteStep(u, w, n),
           u \notin readonly, recordLength = 1, Disk!Stored(u, w), Disk!SectorDone(u, FALSE),
           content' = [content EXCEPT ![u][at[u]] = Append(diskSent, w)]
    PROVE  DInv'
<1>1. /\ u \in Units /\ Settled(u) /\ n \in -1 .. SectorSize /\ diskSent' \in Seq(Nat)
  BY WriteIs
<1>2. /\ diskFcode = "write" /\ recordLength' = n /\ diskFcode' = "none"
      /\ UNCHANGED <<opened, classic, readonly, interlace, diskUnit, diskAsked, diskPlan>>
  BY DEF WriteStep
<1>3. PICK b \in Block, k \in Nat :
         /\ b = [buffer[u] EXCEPT ![Disk!Index(u) + 1] = w]
         /\ Disk!Index(u) = k /\ k < SectorSize /\ k = SectorSize - recordLength
         /\ Append(diskSent, w) \in Seq(Nat) /\ Len(Append(diskSent, w)) = k + 1
         /\ \A i \in 1 .. k + 1 : b[i] = Append(diskSent, w)[i]
  BY BlockNow
<1>4. k + 1 = SectorSize
  BY <1>3, SizeIs
<1>5. Append(diskSent, w) = b
  <2>1. PICK s \in Seq(Nat) : s = Append(diskSent, w)
    BY <1>3
  <2>2. PICK m \in Nat : m = SectorSize
    BY SizeIs
  <2>3. b \in [1 .. m -> Nat] /\ Len(s) = m /\ \A i \in 1 .. m : b[i] = s[i]
    BY <1>3, <1>4, <2>1, <2>2 DEF Block
  <2>4. b = s
    BY <2>3, BlockIs
  <2> QED
    BY <2>1, <2>4
<1>6. buffer' = [buffer EXCEPT ![u] = b] /\ container' = [container EXCEPT ![u][pos[u]] = b]
  <2>1. Disk!Index(u) # SectorSize /\ Disk!Index(u) + 1 = SectorSize
    BY <1>3, <1>4, SizeIs
  <2> QED
    BY <1>3, <2>1 DEF Disk!Stored
<1>7. content' = container'
  BY <1>1, <1>5, <1>6 DEF DInv, DiskFiles, Settled
<1>8. DiskFiles'
  <2>1. pos[u] \in Disk!Places
    BY <1>1 DEF DInv, DiskPlaces
  <2>2. [container[u] EXCEPT ![pos[u]] = b] \in [Disk!Places -> Block]
    BY <1>1, <1>3 DEF DInv, DiskFiles
  <2>3. container' = [container EXCEPT ![u] = [container[u] EXCEPT ![pos[u]] = b]]
    BY <1>6
  <2>4. container' \in [Units -> [Disk!Places -> Block]]
    BY <1>1, <2>2, <2>3 DEF DInv, DiskFiles
  <2> QED
    BY <1>2, <1>7, <2>4 DEF DInv, DiskFiles
<1>9. /\ place' \in [Units -> Disk!Place] /\ pos' \in [Units -> Disk!Places]
      /\ at' \in [Units -> Disk!Places] /\ bufPtr' \in [Units -> Disk!Null .. SectorSize]
      /\ status' = "ok" /\ fresh' = fresh \cup {u}
      /\ Fresh'
  <2>1. diskFcode # "none" /\ UNCHANGED <<interlace, diskAsked>>
    BY <1>2
  <2> QED
    BY <2>1, SectorIsDone
<1>10. DiskPlaces'
  BY <1>1, <1>2, <1>3, <1>6, <1>9 DEF DInv, DiskPlaces
<1>11. DiskControl'
  BY <1>1, <1>2, <1>9 DEF DInv, DiskControl
<1> QED
  BY <1>2, <1>8, <1>9, <1>10, <1>11 DEF DInv

\* Another word is gathered in the buffer.
LEMMA OneWritten ==
    ASSUME DiskAssumption, DInv, NEW u, u = diskUnit, NEW w \in Nat, NEW n, WriteStep(u, w, n),
           u \notin readonly, recordLength # 1, Disk!Stored(u, w),
           bufPtr' = [bufPtr EXCEPT ![u] = Disk!Limit(Disk!Index(u) + 1, SectorSize)],
           UNCHANGED <<content, place, pos, status, at, fresh>>
    PROVE  DInv'
<1>1. /\ u \in Units /\ u \in opened /\ u \notin fresh /\ Settled(u)
      /\ recordLength \in 1 .. SectorSize /\ n \in Nat /\ n \in -1 .. SectorSize /\ diskSent' \in Seq(Nat)
      /\ diskFcode' # "none" => Len(diskSent') = SectorSize - n
  BY WriteIs
<1>2. /\ diskFcode = "write" /\ recordLength' = n /\ n = recordLength - 1
      /\ diskFcode' = IF n > 0 THEN diskFcode ELSE "none"
      /\ diskSent' = Append(diskSent, w)
      /\ UNCHANGED <<opened, classic, readonly, interlace, diskUnit, diskAsked, diskPlan>>
  BY DEF WriteStep
<1>3. PICK b \in Block, k \in Nat :
         /\ b = [buffer[u] EXCEPT ![Disk!Index(u) + 1] = w]
         /\ Disk!Index(u) = k /\ k < SectorSize /\ k = SectorSize - recordLength
         /\ Len(Append(diskSent, w)) = k + 1
         /\ \A i \in 1 .. k + 1 : b[i] = Append(diskSent, w)[i]
  BY BlockNow
<1>4. k + 1 # SectorSize /\ k + 1 < SectorSize /\ k + 1 \in Disk!Null .. SectorSize /\ k + 1 # Disk!Null
  BY <1>1, <1>3, SizeIs DEF Disk!Null
<1>5. buffer' = [buffer EXCEPT ![u] = b] /\ container' = container
  <2>1. Disk!Index(u) # SectorSize /\ Disk!Index(u) + 1 # SectorSize
    BY <1>3, <1>4, SizeIs
  <2> QED
    BY <1>3, <2>1 DEF Disk!Stored
<1>6. bufPtr' = [bufPtr EXCEPT ![u] = k + 1]
  BY <1>3, <1>4 DEF Disk!Limit
<1>7. DiskFiles'
  BY <1>2, <1>5 DEF DInv, DiskFiles
<1>8. DiskPlaces'
  BY <1>1, <1>2, <1>3, <1>4, <1>5, <1>6 DEF DInv, DiskPlaces
<1>9. DiskControl'
  BY <1>1, <1>2 DEF DInv, DiskControl
<1>10. Fresh'
  BY <1>1, <1>2, <1>6 DEF DInv, DiskPlaces, DiskControl, Fresh, Settled
<1>11. ASSUME diskFcode' # "none" PROVE MidSector(u)'
  <2>1. diskFcode' = "write" /\ recordLength' > 0
    BY <1>2, <1>11
  <2>2. bufPtr'[u] = k + 1 /\ buffer'[u] = b
    BY <1>1, <1>5, <1>6 DEF DInv, DiskPlaces
  <2>3. Disk!Index(u)' = k + 1
    BY <1>4, <2>2 DEF Disk!Index
  <2>4. Gathered(u)'
    BY <1>1, <1>2, <1>3, <1>11, <2>2, <2>3 DEF Gathered
  <2>5. Settled(u)'
    BY <1>1, <1>2 DEF Settled
  <2> QED
    BY <1>1, <1>2, <2>1, <2>4, <2>5 DEF MidSector
<1> QED
  BY <1>2, <1>7, <1>8, <1>9, <1>10, <1>11 DEF DInv

\* A word is written.
LEMMA WordWrittenKeeps == ASSUME DiskAssumption, DInv, Disk!WriteWord PROVE DInv'
<1>1. PICK u : u = diskUnit
  OBVIOUS
<1>2. PICK w \in IF diskSent = <<>> THEN FirstWords ELSE {10 * diskPlan.transfers + Len(diskSent)} :
       /\ diskFcode = "write" /\ recordLength > 0
       /\ Disk!Left(recordLength - 1)
       /\ diskSent' = IF recordLength = 1 THEN <<>> ELSE Append(diskSent, w)
       /\ IF u \in readonly
          THEN /\ status' = "none"
               /\ UNCHANGED <<container, content, place, bufPtr, buffer, pos, at, fresh>>
          ELSE /\ Disk!Stored(u, w)
               /\ IF recordLength = 1
                  THEN /\ Disk!SectorDone(u, FALSE)
                       /\ content' = [content EXCEPT ![u][at[u]] = Append(diskSent, w)]
                  ELSE /\ bufPtr' = [bufPtr EXCEPT ![u] = Disk!Limit(Disk!Index(u) + 1, SectorSize)]
                       /\ UNCHANGED <<content, place, pos, status, at, fresh>>
       /\ UNCHANGED <<opened, classic, readonly, interlace, diskUnit, diskAsked, diskPlan>>
  BY <1>1, Zenon DEF Disk!WriteWord
<1>3. w \in Nat
  BY WrittenIs
<1>4. PICK n : n = recordLength - 1
  OBVIOUS
<1>5. WriteStep(u, w, n)
  BY <1>2, <1>4 DEF WriteStep, Disk!Left
<1>6. CASE u \in readonly
  <2>1. status' = "none" /\ UNCHANGED <<container, content, place, bufPtr, buffer, pos, at, fresh>>
    BY <1>2, <1>6, Zenon
  <2> QED
    BY <1>1, <1>3, <1>5, <1>6, <2>1, ReadonlyKeeps
<1>7. CASE u \notin readonly /\ recordLength = 1
  <2>1. /\ Disk!Stored(u, w) /\ Disk!SectorDone(u, FALSE)
        /\ content' = [content EXCEPT ![u][at[u]] = Append(diskSent, w)]
    BY <1>2, <1>7, Zenon
  <2> QED
    BY <1>1, <1>3, <1>5, <1>7, <2>1, LastWritten, Zenon
<1>8. CASE u \notin readonly /\ recordLength # 1
  <2>1. /\ Disk!Stored(u, w)
        /\ bufPtr' = [bufPtr EXCEPT ![u] = Disk!Limit(Disk!Index(u) + 1, SectorSize)]
        /\ UNCHANGED <<content, place, pos, status, at, fresh>>
    BY <1>2, <1>8, Zenon
  <2> QED
    BY <1>1, <1>3, <1>5, <1>8, <2>1, OneWritten, Zenon
<1> QED
  BY <1>6, <1>7, <1>8

\* The least of some numbers is one of them.
LEMMA FirstIs ==
    ASSUME NEW S \in SUBSET Nat, S # {}
    PROVE  Disk!First(S) \in S
<1> DEFINE R == OpToRel(<, Nat)
<1>1. \A m, n \in Nat : m < n => <<m, n>> \in R
  BY DEF OpToRel
<1>2. IsWellFoundedOn(R, Nat)
  BY NatLessThanWellFounded
<1> HIDE DEF R
<1>3. \E n \in S : \A m \in S : ~ (<<m, n>> \in R)
  BY <1>2, WFMin, Zenon
<1>4. PICK n \in S : \A m \in S : ~ (m < n)
  BY <1>1, <1>3
<1>5. \A m \in S : n <= m
  BY <1>4
<1> QED
  BY <1>5 DEF Disk!First

\* The map with a flaw more or less: an entry was free or is free now, and the others are as before.
FlawChange(map, new) ==
    /\ new \in Block
    /\ \E i \in Nat : /\ Disk!Even(i)
                      /\ \A j \in 0 .. SectorSize - 1 :
                            Disk!Even(j) /\ new[j + 1] # map[j + 1] =>
                                j = i /\ 0 \in {new[j + 1], map[j + 1]}

\* Two words of a map, an entry, are replaced.
Entry(map, i, a, b) == [map EXCEPT ![i + 1] = a, ![i + 2] = b]

\* A map that stays as it is.
LEMMA NoChange == ASSUME NEW map \in Block PROVE FlawChange(map, map)
<1>1. 0 \in Nat /\ Disk!Even(0)
  BY DEF Disk!Even
<1> QED
  BY <1>1 DEF FlawChange

\* An entry of the map is replaced, and it or the old one is free.
LEMMA EntryChange ==
    ASSUME DiskAssumption, NEW map \in Block, NEW i \in 0 .. SectorSize - 1, Disk!Even(i),
           NEW a \in Nat, NEW b \in Nat, 0 \in {a, map[i + 1]}
    PROVE  FlawChange(map, Entry(map, i, a, b))
<1>1. PICK n \in Nat : n = SectorSize
  BY SizeIs
<1>2. i \in Nat /\ i + 1 \in 1 .. n
  BY <1>1
<1>3. PICK new : new = Entry(map, i, a, b)
  OBVIOUS
<1>4. /\ new \in Block /\ new[i + 1] = a
      /\ \A k \in 1 .. n : k # i + 1 /\ k # i + 2 => new[k] = map[k]
  <2>1. map \in [1 .. n -> Nat] /\ i \in Nat /\ Block = [1 .. n -> Nat]
    BY <1>1, <1>2 DEF Block
  <2>2. PICK one : one = [map EXCEPT ![i + 1] = a]
    OBVIOUS
  <2>3. /\ one \in [1 .. n -> Nat]
        /\ one[i + 1] = a
        /\ \A k \in 1 .. n : k # i + 1 => one[k] = map[k]
    BY <2>1, <2>2, <1>2
  <2>4. new = [one EXCEPT ![i + 2] = b]
    BY <1>3, <2>2 DEF Entry
  <2>5. /\ new \in [1 .. n -> Nat]
        /\ \A k \in 1 .. n : k # i + 2 => new[k] = one[k]
    BY <2>3, <2>4
  <2>6. i + 1 # i + 2
    BY <2>1
  <2> QED
    BY <2>1, <2>3, <2>5, <2>6, <1>2
<1>5. ASSUME NEW j \in 0 .. SectorSize - 1, Disk!Even(j), new[j + 1] # map[j + 1]
      PROVE  j = i /\ 0 \in {new[j + 1], map[j + 1]}
  <2>1. j + 1 \in 1 .. n
    BY <1>1
  <2>2. j + 1 = i + 1 \/ j + 1 = i + 2
    BY <1>4, <1>5, <2>1
  <2>3. j # i + 1
    BY <1>2, <1>5 DEF Disk!Even
  <2>4. j = i
    BY <1>2, <2>2, <2>3
  <2> QED
    BY <1>4, <2>4
<1> QED
  BY <1>2, <1>3, <1>4, <1>5 DEF FlawChange

\* The words that stand for a flaw are numbers.
LEMMA FlawIs ==
    ASSUME NEW p \in Disk!Place, NEW track \in BOOLEAN, DiskAssumption
    PROVE  Disk!Flaw(p, track) \in Nat \X Nat
<1>1. p.c \in Nat /\ p.t \in Nat /\ p.s \in Nat
  BY DEF Disk!Place, DiskAssumption
<1>2. 64 * p.t + p.s \in Nat /\ 1000 + (IF track THEN 500 ELSE 0) + p.c \in Nat
  BY <1>1
<1> QED
  BY <1>2 DEF Disk!Flaw

\* A flaw is set: into a free entry, if there is one.
LEMMA SetIs ==
    ASSUME DiskAssumption, NEW map \in Block, NEW f \in Nat \X Nat
    PROVE  FlawChange(map, Disk!FlawSet(map, f))
<1>1. PICK free : free = {i \in 2 .. SectorSize - 1 : Disk!Even(i) /\ map[i + 1] = 0}
  OBVIOUS
<1>2. CASE free = {}
  BY <1>1, <1>2, NoChange DEF Disk!FlawSet
<1>3. CASE free # {}
  <2>1. free \in SUBSET Nat
    BY <1>1
  <2>2. PICK i \in free : i = Disk!First(free)
    BY <1>3, <2>1, FirstIs
  <2>3. i \in 0 .. SectorSize - 1 /\ Disk!Even(i) /\ map[i + 1] = 0
    BY <1>1, <2>2, SizeIs
  <2>4. Disk!FlawSet(map, f) = Entry(map, i, f[1], f[2])
    BY <1>1, <1>3, <2>2 DEF Disk!FlawSet, Entry
  <2>5. f[1] \in Nat /\ f[2] \in Nat
    OBVIOUS
  <2> QED
    BY <2>3, <2>4, <2>5, EntryChange
<1> QED
  BY <1>2, <1>3

\* A flaw is cleared: its entry becomes free.
LEMMA ClearIs ==
    ASSUME DiskAssumption, NEW map \in Block, NEW f \in Nat \X Nat
    PROVE  FlawChange(map, Disk!FlawClear(map, f))
<1>1. PICK same : same = {i \in 0 .. SectorSize - 1 : Disk!Even(i) /\ <<map[i + 1], map[i + 2]>> = f}
  OBVIOUS
<1>2. CASE same = {}
  BY <1>1, <1>2, NoChange DEF Disk!FlawClear
<1>3. CASE same # {}
  <2>1. same \in SUBSET Nat
    BY <1>1
  <2>2. PICK i \in same : i = Disk!First(same)
    BY <1>3, <2>1, FirstIs
  <2>3. i \in 0 .. SectorSize - 1 /\ Disk!Even(i)
    BY <1>1, <2>2
  <2>4. Disk!FlawClear(map, f) = Entry(map, i, 0, 0)
    BY <1>1, <1>3, <2>2 DEF Disk!FlawClear, Entry
  <2>5. 0 \in Nat /\ 0 \in {0, map[i + 1]}
    OBVIOUS
  <2> QED
    BY <2>3, <2>4, <2>5, EntryChange
<1> QED
  BY <1>2, <1>3

\* The new map is in the file of the drive; the position is the map's.
LEMMA FlawStep ==
    ASSUME DiskAssumption, DInv, NEW set \in BOOLEAN, NEW track \in BOOLEAN,
           Disk!SetClearFlaw(set, track), NEW u, u = diskUnit
    PROVE  \E new \in Block :
              /\ u \in Units /\ FlawChange(container[u][Disk!UtilityMap], new)
              /\ container' = [container EXCEPT ![u][Disk!UtilityMap] = new]
              /\ content' = [content EXCEPT ![u][Disk!UtilityMap] = new]
              /\ bufPtr' = [bufPtr EXCEPT ![u] = SectorSize] /\ status' = "ok"
              /\ buffer' = [buffer EXCEPT ![u] = new]
<1>1. PICK map : map = container[u][Disk!UtilityMap]
  OBVIOUS
<1>2. PICK f : f = Disk!Flaw(place[u], track)
  OBVIOUS
<1>3. PICK new : new = IF set THEN Disk!FlawSet(map, f) ELSE Disk!FlawClear(map, f)
  OBVIOUS
<1>4. /\ u \in opened
      /\ container' = [container EXCEPT ![u][Disk!UtilityMap] = new]
      /\ content' = [content EXCEPT ![u][Disk!UtilityMap] = new]
      /\ bufPtr' = [bufPtr EXCEPT ![u] = SectorSize] /\ status' = "ok"
      /\ buffer' = [buffer EXCEPT ![u] = new]
  BY <1>1, <1>2, <1>3 DEF Disk!SetClearFlaw, Disk!Ready
<1>5. u \in Units /\ map \in Block /\ place[u] \in Disk!Place
  BY <1>1, <1>4, SpecialPlaces DEF DInv, DiskFiles, DiskPlaces
<1>6. f \in Nat \X Nat
  BY <1>2, <1>5, FlawIs
<1>7. FlawChange(map, new)
  BY <1>3, <1>5, <1>6, SetIs, ClearIs
<1>8. new \in Block
  BY <1>7 DEF FlawChange
<1> QED
  BY <1>1, <1>4, <1>5, <1>7, <1>8

\* A flaw is set or cleared.
LEMMA FlawKeeps ==
    ASSUME DiskAssumption, DInv, NEW set \in BOOLEAN, NEW track \in BOOLEAN,
           Disk!SetClearFlaw(set, track)
    PROVE  DInv'
<1>1. PICK u : u = diskUnit
  OBVIOUS
<1>2. PICK new \in Block :
         /\ u \in Units
         /\ container' = [container EXCEPT ![u][Disk!UtilityMap] = new]
         /\ content' = [content EXCEPT ![u][Disk!UtilityMap] = new]
         /\ bufPtr' = [bufPtr EXCEPT ![u] = SectorSize] /\ status' = "ok"
         /\ buffer' = [buffer EXCEPT ![u] = new]
  BY <1>1, FlawStep
<1>3. /\ diskFcode' = "none" /\ recordLength' = 0 /\ diskSent' = <<>>
      /\ diskPlan' \in DiskPlanType /\ diskPlan'.loads = diskPlan.loads
  <2>1. Disk!Transfer("none", 0)
    BY DEF Disk!SetClearFlaw
  <2> QED
    BY <2>1, SizeIs, TransferIs
<1>4. PICK m \in Disk!Places : m = Disk!UtilityMap /\ m \in Disk!Place
  BY SpecialPlaces, PlacesIn
<1>5. /\ place' = [place EXCEPT ![u] = m] /\ pos' = [pos EXCEPT ![u] = m]
      /\ at' = [at EXCEPT ![u] = m] /\ fresh' = fresh \ {u}
      /\ UNCHANGED <<opened, classic, readonly, interlace, diskUnit, diskAsked>>
  BY <1>1, <1>4 DEF Disk!SetClearFlaw
<1>6. DiskFiles'
  <2>1. [container[u] EXCEPT ![m] = new] \in [Disk!Places -> Block]
    BY <1>2 DEF DInv, DiskFiles
  <2>2. container' = [container EXCEPT ![u] = [container[u] EXCEPT ![m] = new]]
    BY <1>2, <1>4
  <2>3. container' \in [Units -> [Disk!Places -> Block]]
    BY <1>2, <2>1, <2>2 DEF DInv, DiskFiles
  <2>4. content' = container'
    BY <1>2 DEF DInv, DiskFiles
  <2> QED
    BY <1>5, <2>3, <2>4 DEF DInv, DiskFiles
<1>7. DiskPlaces'
  BY <1>2, <1>4, <1>5, SizeIs DEF DInv, DiskPlaces
<1>8. DiskControl'
  <2>1. <<>> \in Seq(Nat)
    OBVIOUS
  <2> QED
    BY <1>2, <1>3, <1>5, <2>1, SizeIs DEF DInv, DiskControl
<1>9. Fresh'
  BY <1>2, <1>5 DEF DInv, DiskPlaces, DiskControl, Fresh, Settled
<1> QED
  BY <1>3, <1>6, <1>7, <1>8, <1>9 DEF DInv

-----------------------------------------------------------------------------
\* Every step keeps the invariant.
LEMMA DNextKeeps == ASSUME DiskAssumption, DInv, Disk!Next PROVE DInv'
<1>1. CASE Disk!Functions
  BY <1>1, OtherKeeps, ReadKeeps, WriteKeeps, GapKeeps, DeadstartKeeps, ConnectKeeps, SeekKeeps,
     FlawKeeps DEF Disk!Functions
<1>2. CASE Disk!Words
  BY <1>2, WordReadKeeps, DeadstartWordKeeps, WordWrittenKeeps DEF Disk!Words
<1>3. CASE \E u \in Units : Disk!Unload(u) \/ \E mode \in {"r", "w"} : Disk!Load(u, mode)
  BY <1>3, UnloadKeeps, LoadKeeps
<1> QED
  BY <1>1, <1>2, <1>3 DEF Disk!Next

\* A disk that rests keeps the invariant.
LEMMA DStays == ASSUME DInv, UNCHANGED diskVars PROVE DInv'
BY DEF DInv, DiskFiles, DiskPlaces, DiskControl, Fresh, Settled, MidSector, OnWord, Gathered,
       Disk!Index, diskVars

\* It is more than what is claimed.
LEMMA DInvSafe == ASSUME DiskAssumption, DInv PROVE Disk!DiskSafe
<1>1. Disk!DiskTypeOK
  <2>1. \A u \in Units : place[u] \in Disk!Place /\ Disk!Valid(pos[u]) /\ bufPtr[u] \in Disk!Null .. SectorSize
    BY PlacesIn DEF DInv, DiskPlaces
  <2> QED
    BY <2>1 DEF Disk!DiskTypeOK, DInv, DiskFiles, DiskControl
<1>2. Disk!StoreExact
  BY DEF DInv, DiskFiles, Disk!StoreExact
<1>3. Disk!WherePpThinks
  BY DEF DInv, Fresh, Settled, Disk!WherePpThinks
<1> QED
  BY <1>1, <1>2, <1>3 DEF Disk!DiskSafe

\* A word that is read is the one that was last written there.
LEMMA ReadIsBack == ASSUME DiskAssumption, DInv PROVE Disk!ReadsBack
<1>1. SUFFICES ASSUME Disk!ReadWord, NEW u, u = diskUnit, diskFcode # "gapread"
               PROVE  Disk!Word(u) = content[u][at[u]][SectorSize - recordLength + 1]
  BY DEF Disk!ReadsBack
<1>2. diskFcode \in {"read", "readmap"}
  BY <1>1 DEF Disk!ReadWord
<1>3. /\ Settled(u) /\ MidSector(u) /\ recordLength \in 1 .. SectorSize
  BY <1>1, <1>2, InTransfer
<1>4. OnWord(u)
  BY <1>2, <1>3 DEF MidSector
<1>5. Disk!Filled(u) = container[u][pos[u]]
  BY <1>4 DEF OnWord, Disk!Filled
<1>6. Disk!Index(u) = SectorSize - recordLength /\ Disk!Index(u) < SectorSize
  BY <1>3, <1>4, SizeIs DEF OnWord
<1>7. Disk!Word(u) = container[u][pos[u]][SectorSize - recordLength + 1]
  BY <1>5, <1>6 DEF Disk!Word
<1>8. content = container /\ at[u] = pos[u]
  BY <1>3 DEF Settled, DInv, DiskFiles
<1> QED
  BY <1>7, <1>8

\* The functions that set and clear flaws change one entry of the map.
LEMMA FlawsAreKept == ASSUME DiskAssumption, DInv, Disk!Next PROVE Disk!FlawsKept
<1>u. PICK u : u = diskUnit
  OBVIOUS
<1>c. PICK changed :
         changed = {i \in 0 .. SectorSize - 1 :
                      Disk!Even(i) /\ container'[u][Disk!UtilityMap][i + 1]
                                           # container[u][Disk!UtilityMap][i + 1]}
  OBVIOUS
<1>1. ASSUME diskFcode' = "none", diskPlan'.transfers # diskPlan.transfers
      PROVE  /\ \A i, j \in changed : i = j
             /\ \A i \in changed : 0 \in {container'[u][Disk!UtilityMap][i + 1],
                                         container[u][Disk!UtilityMap][i + 1]}
  <2>2. PICK set \in BOOLEAN, track \in BOOLEAN : Disk!SetClearFlaw(set, track)
    <3>1. CASE Disk!Functions
      <4>1. ~Disk!FuncOther /\ ~Disk!FuncGapRead
        BY <1>1 DEF Disk!FuncOther, Disk!FuncGapRead
      <4>2. ~Disk!FuncRead /\ ~Disk!FuncWrite /\ ~Disk!FuncReadMap /\ ~Disk!FuncDeadstart
        BY <1>1 DEF Disk!FuncRead, Disk!FuncWrite, Disk!FuncReadMap, Disk!FuncDeadstart,
                    Disk!Transfer, Disk!Function
      <4>3. \A n \in Units : ~Disk!Connect(n)
        BY <1>1 DEF Disk!Connect
      <4>4. \A n \in Units : \A step \in diskPlan.steps, p \in diskPlan.seeks : ~Disk!SeekFunction(n, step, p)
        BY <1>1 DEF Disk!SeekFunction
      <4> QED
        BY <3>1, <4>1, <4>2, <4>3, <4>4 DEF Disk!Functions
    <3>2. ~Disk!Words
      BY <1>1 DEF Disk!Words, Disk!ReadWord, Disk!DeadstartWord, Disk!WriteWord
    <3>3. \A v \in Units : ~Disk!Unload(v)
      BY <1>1 DEF Disk!Unload
    <3>4. \A v \in Units : \A mode \in {"r", "w"} : ~Disk!Load(v, mode)
      <4>1. ASSUME NEW v \in Units, NEW mode \in {"r", "w"}, Disk!Load(v, mode)
            PROVE  diskPlan'.transfers = diskPlan.transfers
        <5>1. diskPlan' = [diskPlan EXCEPT !.loads = @ \ {v}]
          BY <4>1 DEF Disk!Load
        <5> QED
          BY <5>1 DEF DInv, DiskControl, DiskPlanType
      <4> QED
        BY <1>1, <4>1
    <3> QED
      BY <3>1, <3>2, <3>3, <3>4 DEF Disk!Next
  <2>3. PICK new \in Block :
           /\ u \in Units /\ FlawChange(container[u][Disk!UtilityMap], new)
           /\ container' = [container EXCEPT ![u][Disk!UtilityMap] = new]
    BY <1>u, <1>1, <2>2, FlawStep
  <2>4. container'[u][Disk!UtilityMap] = new
    <3>1. Disk!UtilityMap \in Disk!Places
      BY SpecialPlaces
    <3> QED
      BY <2>3, <3>1 DEF DInv, DiskFiles
  <2>5. PICK i \in Nat : \A j \in changed :
            j = i /\ 0 \in {container'[u][Disk!UtilityMap][j + 1], container[u][Disk!UtilityMap][j + 1]}
    BY <1>c, <2>3, <2>4 DEF FlawChange
  <2> QED
    BY <2>5
<1> QED
  BY <1>u, <1>c, <1>1 DEF Disk!FlawsKept

-----------------------------------------------------------------------------
\* The devices' assumption is enough.
LEMMA DiskAssumed == DiskAssumption
<1>1. DiskPlans \subseteq DiskPlanType
  BY DevicesAssumption DEF DevicesAssumption, DiskPlanType, Disk!Place
<1>2. Tracks \in Nat \ {0} /\ Cylinders \in Nat \ {0, 1}
  BY DevicesAssumption DEF DevicesAssumption
<1> QED
  BY <1>1, <1>2, DevicesAssumption DEF DevicesAssumption, DiskAssumption

\* The other devices leave the disks alone.
LEMMA OthersKeepDisks ==
    ASSUME [Next]_vars, device' = "disk"
    PROVE  device = "disk" /\ (Disk!Next \/ UNCHANGED diskVars)
<1>1. CASE TapeStep \/ CardStep \/ OldStep \/ ClockStep \/ MuxStep
  <2>1. device # "disk" /\ device' = device
    BY <1>1 DEF TapeStep, CardStep, OldStep, ClockStep, MuxStep, OldOnes
  <2> QED
    BY <2>1
<1>2. CASE DiskStep
  BY <1>2 DEF DiskStep
<1>3. CASE UNCHANGED vars
  BY <1>3 DEF vars
<1> QED
  BY <1>1, <1>2, <1>3 DEF Next

\* The inductive invariant of the 844 and 885 disks holds whenever they are the device in use.
THEOREM DiskInvariance == Spec => [](device = "disk" => DInv)
<1>1. Init => (device = "disk" => DInv)
  BY DiskStarts, DiskAssumed DEF Init
<1>2. (device = "disk" => DInv) /\ [Next]_vars => (device = "disk" => DInv)'
  <2>1. ASSUME device = "disk" => DInv, [Next]_vars, device' = "disk" PROVE DInv'
    BY <2>1, OthersKeepDisks, DNextKeeps, DStays, DiskAssumed
  <2> QED
    BY <2>1
<1> QED
  BY <1>1, <1>2, PTL DEF Spec

\* However seeks, transfers that are cut off, gap sectors, deadstarts, flaws and the operator's
\* loads and unloads of any number of drives interleave, a pack holds at each place the last whole
\* sector that was sent to it, also after it was unloaded and loaded again, and a drive that goes on
\* without a seek is where the PP takes it to be, with full and with half tracking (dd8xxIo,
\* dd8xxSeek, dd8xxSeekNextSector, dd8xxLoad).
THEOREM DisksCorrect == Spec => []DiskSafe
<1>1. (device = "disk" => DInv) => DiskSafe
  BY DInvSafe, DiskAssumed DEF DiskSafe
<1> QED
  BY <1>1, DiskInvariance, PTL

\* A word the PP reads is the one last written at its place, and setting or clearing a flaw changes
\* at most one entry of the utility map, a free one or one that becomes free (dd8xxReadClassic,
\* dd8xxReadPacked, dd844SetClearFlaw).
THEOREM DisksReadBack == Spec => DiskSteps
<1>1. (device = "disk" => DInv) /\ [Next]_vars
         => [device = "disk" => Disk!ReadsBack /\ Disk!FlawsKept]_diskVars
  <2>1. SUFFICES ASSUME device = "disk" => DInv, [Next]_vars, diskVars' # diskVars, device = "disk"
                 PROVE  Disk!ReadsBack /\ Disk!FlawsKept
    OBVIOUS
  <2>2. Disk!Next
    <3>1. CASE TapeStep \/ CardStep \/ OldStep \/ ClockStep \/ MuxStep
      BY <2>1, <3>1 DEF TapeStep, CardStep, OldStep, ClockStep, MuxStep
    <3>2. CASE DiskStep
      BY <3>2 DEF DiskStep
    <3>3. CASE UNCHANGED vars
      BY <2>1, <3>3 DEF vars
    <3> QED
      BY <2>1, <3>1, <3>2, <3>3 DEF Next
  <2> QED
    BY <2>1, <2>2, DiskAssumed, ReadIsBack, FlawsAreKept
<1> QED
  BY <1>1, DiskInvariance, PTL DEF Spec, DiskSteps

\* Cells of different kinds differ.
LEMMA CellKinds ==
    ASSUME NEW n, NEW w
    PROVE  /\ Tape!Length(n).v = n /\ Tape!Word(w).v = w
           /\ Tape!Length(n) # Tape!Nothing /\ Tape!Word(w) # Tape!Length(n) /\ Tape!Pad # Tape!Length(n)
<1>1. Tape!Length(n).v = n /\ Tape!Word(w).v = w
  BY DEF Tape!Length, Tape!Word
<1>2. /\ Tape!Length(n).kind = "length" /\ Tape!Nothing.kind = "end of file"
      /\ Tape!Word(w).kind = "word" /\ Tape!Pad.kind = "pad"
  BY DEF Tape!Length, Tape!Word, Tape!Pad, Tape!Nothing
<1> QED
  BY <1>1, <1>2

\* The cells of a record, as seen from either end.
LEMMA RecordIs ==
    ASSUME NEW f \in Seq(Tape!ACell), NEW p \in Nat, NEW q \in Nat, NEW block \in Seq(Nat),
           NEW padded \in BOOLEAN, Tape!IsRecord(f, p, q, block, padded)
    PROVE  /\ p < q /\ q <= Len(f) /\ q >= p + 1
           /\ Tape!Cell(f, p) = Tape!Length(Len(block)) /\ Tape!Cell(f, q - 1) = Tape!Length(Len(block))
           /\ Tape!RecordEnd(f, p) = q /\ Tape!RecordStart(f, q) = p
           /\ Tape!Body(f, p, Len(block)) = block
           /\ ~padded => q = IF Len(block) = 0 THEN p + 1 ELSE p + Len(block) + 2
<1>1. PICK n \in Nat : n = Len(block)
  OBVIOUS
<1>2. /\ Tape!Cell(f, p) = Tape!Length(n) /\ \A i \in 1..n : Tape!Cell(f, p + i) = Tape!Word(block[i])
      /\ Tape!Cell(f, q - 1) = Tape!Length(n)
      /\ \/ n = 0 /\ q = p + 1
         \/ n > 0 /\ q = p + n + 2
         \/ n > 0 /\ q = p + n + 3 /\ padded /\ Tape!Cell(f, q - 2) = Tape!Pad
  BY <1>1 DEF Tape!IsRecord
<1>3. p < q /\ q >= p + 1 /\ (~padded => q = IF n = 0 THEN p + 1 ELSE p + n + 2)
  BY <1>2
<1>4. q <= Len(f)
  <2>1. Tape!Cell(f, q - 1) # Tape!Nothing
    BY <1>2, CellKinds
  <2> QED
    BY <2>1, <1>3 DEF Tape!Cell
<1>5. Tape!Cell(f, p).v = n /\ Tape!Cell(f, q - 1).v = n
  BY <1>2, CellKinds
<1>6. \A w : Tape!Word(w) # Tape!Length(n) /\ Tape!Pad # Tape!Length(n)
  BY CellKinds
<1>7. Tape!RecordEnd(f, p) = q
  <2>1. CASE n = 0
    BY <2>1, <1>2, <1>5 DEF Tape!RecordEnd
  <2>2. CASE n > 0 /\ q = p + n + 2
    <3>1. p + n + 1 = q - 1
      BY <2>2
    <3> QED
      BY <2>2, <3>1, <1>2, <1>5 DEF Tape!RecordEnd
  <2>3. CASE n > 0 /\ q = p + n + 3 /\ Tape!Cell(f, q - 2) = Tape!Pad
    <3>1. p + n + 1 = q - 2
      BY <2>3
    <3> QED
      BY <2>3, <3>1, <1>2, <1>5, <1>6 DEF Tape!RecordEnd
  <2> QED
    BY <1>2, <2>1, <2>2, <2>3
<1>8. Tape!RecordStart(f, q) = p
  <2>0. Tape!RecordStart(f, q) =
            IF n = 0 THEN q - 1
            ELSE IF Tape!Cell(f, q - n - 2) = Tape!Cell(f, q - 1) THEN q - n - 2 ELSE q - n - 3
    BY <1>5, Zenon DEF Tape!RecordStart
  <2>1. CASE n = 0
    BY <2>1, <1>2, <1>5 DEF Tape!RecordStart
  <2>2. PICK c : c = Tape!Cell(f, q - n - 2)
    OBVIOUS
  <2>3. CASE n > 0 /\ q = p + n + 2
    <3>1. q - n - 2 = p
      BY <2>3
    <3>2. c = Tape!Cell(f, q - 1)
      BY <2>2, <3>1, <1>2
    <3> QED
      BY <2>0, <2>2, <2>3, <3>1, <3>2
  <2>4. CASE n > 0 /\ q = p + n + 3
    <3>1. q - n - 2 = p + 1 /\ q - n - 3 = p /\ 1 \in 1..n
      BY <2>4
    <3>2. Tape!Cell(f, p + 1) = Tape!Word(block[1])
      BY <1>2, <3>1
    <3>3. c # Tape!Cell(f, q - 1)
      BY <2>2, <3>1, <3>2, <1>2, <1>6
    <3> QED
      BY <2>0, <2>2, <2>4, <3>1, <3>3
  <2> QED
    BY <1>2, <2>1, <2>3, <2>4
<1>9. Tape!Body(f, p, n) = block
  <2>1. Tape!Body(f, p, n) = [i \in 1..n |-> block[i]]
    <3>1. \A i \in 1..n : Tape!Cell(f, p + i).v = block[i]
      BY <1>2, CellKinds
    <3> QED
      BY <3>1 DEF Tape!Body
  <2>2. block = [i \in 1..n |-> block[i]]
    BY <1>1
  <2> QED
    BY <2>1, <2>2
<1> QED
  BY <1>1, <1>2, <1>3, <1>4, <1>7, <1>8, <1>9

\* It is in the cells before q.
LEMMA RecordStays ==
    ASSUME NEW f, NEW g, NEW p \in Nat, NEW q \in Nat, NEW block \in Seq(Nat), NEW padded, p < q,
           Tape!IsRecord(f, p, q, block, padded), \A k \in 0..q - 1 : Tape!Cell(g, k) = Tape!Cell(f, k)
    PROVE  Tape!IsRecord(g, p, q, block, padded)
<1>1. PICK n \in Nat : n = Len(block)
  OBVIOUS
<1>2. /\ Tape!Cell(f, p) = Tape!Length(n) /\ \A i \in 1..n : Tape!Cell(f, p + i) = Tape!Word(block[i])
      /\ Tape!Cell(f, q - 1) = Tape!Length(n)
      /\ \/ n = 0 /\ q = p + 1
         \/ n > 0 /\ q = p + n + 2
         \/ n > 0 /\ q = p + n + 3 /\ padded /\ Tape!Cell(f, q - 2) = Tape!Pad
  BY <1>1 DEF Tape!IsRecord
<1>3. p \in 0..q - 1 /\ q - 1 \in 0..q - 1 /\ (q = p + n + 3 => q - 2 \in 0..q - 1)
      /\ \A i \in 1..n : p + i \in 0..q - 1
  BY <1>2
<1>4. /\ Tape!Cell(g, p) = Tape!Length(n) /\ \A i \in 1..n : Tape!Cell(g, p + i) = Tape!Word(block[i])
      /\ Tape!Cell(g, q - 1) = Tape!Length(n)
      /\ q = p + n + 3 => Tape!Cell(g, q - 2) = Tape!Cell(f, q - 2)
  BY <1>2, <1>3
<1> QED
  BY <1>1, <1>2, <1>4 DEF Tape!IsRecord

\* Where the head is, so many records are behind it.
LEMMA PassedAt ==
    ASSUME NEW e \in Seq(Nat), \A i \in DOMAIN e : e[i] > 0,
           \A i, k \in DOMAIN e : i < k => e[i] < e[k], NEW j \in 0..Len(e)
    PROVE  Tape!LastBehind(e, Tape!Behind(e, j)) = j
<1> DEFINE p == Tape!Behind(e, j)
           Last(i) == Tape!Behind(e, i) <= p /\ \A k \in DOMAIN e : k > i => e[k] > p
<1>1. PICK n \in Nat : n = Len(e) /\ DOMAIN e = 1..n
  OBVIOUS
<1>2. \A i \in 1..n : e[i] \in Nat /\ e[i] > 0
  BY <1>1
<1>3. p = (IF j = 0 THEN 0 ELSE e[j]) /\ p \in Nat
  BY <1>1, <1>2 DEF Tape!Behind
<1>4. Last(j)
  BY <1>1, <1>2, <1>3
<1>5. ASSUME NEW i \in 0..Len(e), Last(i) PROVE i = j
  <2>1. CASE i < j
    <3>1. j \in DOMAIN e /\ j > i
      BY <1>1, <2>1
    <3>2. e[j] > p /\ p = e[j]
      BY <1>5, <3>1, <1>3
    <3> QED
      BY <3>2, <1>2, <1>1, <3>1
  <2>2. CASE i > j
    <3>1. i \in 1..n /\ Tape!Behind(e, i) = e[i] /\ e[i] <= p
      BY <1>1, <1>5, <2>2 DEF Tape!Behind
    <3>2. p < e[i]
      <4>1. CASE j = 0
        BY <1>2, <1>3, <3>1, <4>1
      <4>2. CASE j # 0
        <5>1. j \in 1..n /\ j < i
          BY <1>1, <2>2, <4>2
        <5>2. e[j] < e[i]
          BY <1>1, <3>1, <5>1
        <5> QED
          BY <1>3, <4>2, <5>2
      <4> QED
        BY <4>1, <4>2
    <3> QED
      BY <3>1, <3>2, <1>2, <1>3
  <2> QED
    BY <1>1, <2>1, <2>2
<1> HIDE DEF Last
<1>6. (CHOOSE i \in 0..Len(e) : Last(i)) = j
  BY <1>4, <1>5
<1> QED
  BY <1>6 DEF Tape!LastBehind, Last

\* The ends of the records of a file.
LEMMA EndsGrow ==
    ASSUME NEW f, NEW blocks \in Seq(Tape!ABlock), NEW e \in Seq(Nat), NEW padded,
           Tape!HoldsBlocks(f, blocks, e, padded)
    PROVE  /\ Len(e) = Len(blocks) /\ \A i \in DOMAIN e : e[i] > 0
           /\ \A i, k \in DOMAIN e : i < k => e[i] < e[k]
<1>1. /\ Len(e) = Len(blocks)
      /\ \A i \in DOMAIN e : Tape!IsRecord(f, Tape!Behind(e, i - 1), e[i], blocks[i], padded)
      /\ \A i, k \in DOMAIN e : i < k => e[i] < e[k]
  BY DEF Tape!HoldsBlocks
<1>2. ASSUME NEW i \in DOMAIN e PROVE e[i] > 0
  <2>1. CASE i = 1
    <3>1. Tape!IsRecord(f, 0, e[i], blocks[i], padded)
      BY <1>1, <2>1 DEF Tape!Behind
    <3>2. blocks[i] \in Tape!ABlock
      BY <1>1
    <3>3. PICK n \in Nat : n = Len(blocks[i])
      BY <3>2 DEF Tape!ABlock
    <3> QED
      BY <3>1, <3>3 DEF Tape!IsRecord
  <2>2. CASE i # 1
    <3>1. 1 \in DOMAIN e /\ 1 < i
      BY <2>2
    <3>2. e[1] < e[i] /\ e[1] \in Nat /\ e[i] \in Nat
      BY <1>1, <3>1
    <3> QED
      BY <3>2
  <2> QED
    BY <2>1, <2>2
<1> QED
  BY <1>1, <1>2

\* On a mounted reel too.
LEMMA EndsAre ==
    ASSUME TInv, NEW u \in Units
    PROVE  /\ ends[u] \in Seq(Nat) /\ Len(ends[u]) = Len(recorded[u]) /\ recorded[u] \in Seq(Tape!ABlock)
           /\ \A i \in DOMAIN ends[u] : ends[u][i] > 0
           /\ \A i, k \in DOMAIN ends[u] : i < k => ends[u][i] < ends[u][k]
<1>1. /\ ends[u] \in Seq(Nat) /\ recorded[u] \in Seq(Tape!ABlock)
      /\ Tape!HoldsBlocks(file[u], recorded[u], ends[u], image[u].padded)
  BY DEF TInv, ReelTypes, OnReel
<1> QED
  BY <1>1, EndsGrow

\* Each record of a reel is where its ends say.
LEMMA RecordsAt ==
    ASSUME TInv, NEW u \in Units, NEW i \in 1..Len(ends[u])
    PROVE  RecordAt(u, i)
<1>1. /\ file[u] \in Seq(Tape!ACell) /\ recorded[u] \in Seq(Tape!ABlock) /\ ends[u] \in Seq(Nat)
      /\ image[u].padded \in BOOLEAN
      /\ Tape!HoldsBlocks(file[u], recorded[u], ends[u], image[u].padded)
  BY DEF TInv, ReelTypes, OnReel
<1>2. PICK p, q, block, pad, f : /\ p = Tape!Behind(ends[u], i - 1) /\ q = ends[u][i]
                                 /\ block = recorded[u][i] /\ pad = image[u].padded /\ f = file[u]
  OBVIOUS
<1>3. p \in Nat /\ q \in Nat
  <2>1. i \in DOMAIN ends[u] /\ (i - 1 # 0 => i - 1 \in DOMAIN ends[u])
    BY <1>1
  <2> QED
    BY <1>1, <1>2, <2>1 DEF Tape!Behind
<1>4. block \in Seq(Nat) /\ Len(block) <= MaxRecord
  <2>1. i \in 1..Len(recorded[u])
    BY <1>1 DEF Tape!HoldsBlocks
  <2>2. block \in Tape!ABlock
    BY <1>1, <1>2, <2>1
  <2> QED
    BY <2>2 DEF Tape!ABlock
<1>5. Tape!IsRecord(f, p, q, block, pad)
  <2>1. i \in DOMAIN ends[u]
    BY <1>1
  <2> QED
    BY <1>1, <1>2, <2>1 DEF Tape!HoldsBlocks
<1>6. /\ p < q /\ q <= Len(f)
      /\ Tape!Cell(f, p) = Tape!Length(Len(block)) /\ Tape!Cell(f, q - 1) = Tape!Length(Len(block))
      /\ Tape!RecordEnd(f, p) = q /\ Tape!RecordStart(f, q) = p
      /\ Tape!Body(f, p, Len(block)) = block
      /\ ~pad => q = IF Len(block) = 0 THEN p + 1 ELSE p + Len(block) + 2
  <2>1. f \in Seq(Tape!ACell) /\ pad \in BOOLEAN
    BY <1>1, <1>2
  <2>2. p \in Nat /\ q \in Nat /\ block \in Seq(Nat)
    BY <1>3, <1>4
  <2> QED
    BY <2>1, <2>2, <1>5, RecordIs
<1>7. Tape!Cell(f, p).v = Len(block) /\ Tape!Cell(f, q - 1).v = Len(block)
  BY <1>6, CellKinds
<1>8. ~pad => p = IF Len(block) = 0 THEN q - 1 ELSE q - (Len(block) + 2)
  BY <1>3, <1>4, <1>6
<1> QED
  BY <1>2, <1>3, <1>4, <1>6, <1>7, <1>8 DEF RecordAt

\* Every drive that is not lost is behind some block.
LEMMA BlockBehind == ASSUME TInv, NEW u \in Units, u \notin lost PROVE \E j \in Nat : AtBlock(u, j)
<1>1. PICK j \in Nat : HeadAt(u, j) /\ CountIs(u, IF anyWrite /\ u = tapeUnit THEN j + 1 ELSE j)
  BY DEF TInv, Placed
<1>2. PICK e \in Seq(Nat) : e = ends[u]
  BY EndsAre
<1>3. PICK n \in Nat : n = Len(e) /\ n = Len(recorded[u]) /\ DOMAIN e = 1..n
  BY <1>2, EndsAre
<1>4. (\A i \in 1..n : e[i] > 0) /\ \A i, k \in 1..n : i < k => e[i] < e[k]
  BY <1>2, <1>3, EndsAre
<1>5. j \in 0..n /\ head[u] = Tape!Behind(e, j)
  BY <1>1, <1>2, <1>3 DEF HeadAt
<1>6. Tape!Passed(u) = j
  BY <1>2, <1>3, <1>4, <1>5, PassedAt DEF Tape!Passed
<1>7. (j = 0 <=> head[u] = 0) /\ (j > 0 => head[u] = e[j])
  BY <1>3, <1>4, <1>5 DEF Tape!Behind
<1>8. j > 0 => RecordAt(u, j)
  BY <1>2, <1>3, <1>5, RecordsAt
<1>9. ASSUME j < n PROVE RecordAt(u, j + 1) /\ head[u] # Tape!End(u) /\ head[u] < Len(file[u])
  <2>1. j + 1 \in 1..n /\ n \in 1..n
    BY <1>9, <1>5
  <2>2. RecordAt(u, j + 1)
    BY <1>2, <1>3, <2>1, RecordsAt
  <2>3. head[u] \in Nat /\ e[j + 1] \in Nat /\ head[u] < e[j + 1] /\ e[j + 1] <= Len(file[u])
    <3>1. (j + 1) - 1 = j
      OBVIOUS
    <3> QED
      BY <2>2, <3>1, <1>2, <1>5 DEF RecordAt
  <2>4. head[u] # Tape!End(u)
    <3>1. Tape!End(u) = e[n]
      BY <1>2, <1>3, <2>1 DEF Tape!End, Tape!Behind
    <3>2. e[j + 1] = e[n] \/ e[j + 1] < e[n]
      BY <1>4, <2>1
    <3>3. e[n] \in Nat
      BY <1>3, <2>1
    <3> QED
      BY <2>3, <3>1, <3>2, <3>3
  <2>5. Len(file[u]) \in Nat
    BY DEF TInv, ReelTypes
  <2> QED
    BY <2>2, <2>3, <2>4, <2>5
<1>10. j = n => head[u] = Tape!End(u)
  BY <1>2, <1>3, <1>5 DEF Tape!End
<1>11. n = Len(recorded[u]) /\ Len(ends[u]) = n
  BY <1>2, <1>3
<1> QED
  BY <1>1, <1>2, <1>5, <1>6, <1>7, <1>8, <1>9, <1>10, <1>11 DEF AtBlock

\* Nothing but the head of u moves: to the end of block i, and the count is then b.
MovesTo(u, p, i, cs, b) ==
    /\ i \in 0..Len(ends[u]) /\ p = Tape!Behind(ends[u], i) /\ cs \in SUBSET Conditions /\ b \in Int
    /\ UNCHANGED <<file, fcb, image, recorded, ends>>
    /\ Tape!Moved(u, p, cs, b)
    /\ u \in fcb /\ (u \in counted \/ (i = 0 /\ b = 0)) => b = i

\* Only the load point is position zero, and each end has its record behind it.
LEMMA StartIsZero ==
    ASSUME TInv, NEW u \in Units, NEW i \in 0..Len(ends[u])
    PROVE  /\ Tape!Behind(ends[u], i) \in Nat /\ (Tape!Behind(ends[u], i) = 0 <=> i = 0)
           /\ Tape!LastBehind(ends[u], Tape!Behind(ends[u], i)) = i
<1>1. PICK e \in Seq(Nat) : e = ends[u]
  BY EndsAre
<1>2. (\A k \in DOMAIN e : e[k] > 0) /\ \A l, k \in DOMAIN e : l < k => e[l] < e[k]
  BY <1>1, EndsAre
<1>3. i > 0 => e[i] \in Nat /\ e[i] > 0
  BY <1>1, <1>2
<1>4. i \in 0..Len(e)
  BY <1>1
<1>5. Tape!LastBehind(e, Tape!Behind(e, i)) = i
  BY <1>2, <1>4, PassedAt
<1> QED
  BY <1>1, <1>3, <1>4, <1>5 DEF Tape!Behind

\* What the drives look like then.
Shows(u, i, cs) ==
    /\ UNCHANGED <<file, fcb, image, recorded, ends>> /\ lost' = lost \ {u}
    /\ Tape!Passed(u)' = i /\ deviceStatus'[u] = cs
    /\ \A v \in Units \ {u} : Tape!Passed(v)' = Tape!Passed(v) /\ deviceStatus'[v] = deviceStatus[v]

\* Another unit keeps its place.
LEMMA OthersStay ==
    ASSUME TInv, ~anyWrite, ~anyWrite', NEW v \in Units, UNCHANGED <<fcb, ends>>,
           head'[v] = head[v], blockNo'[v] = blockNo[v], v \in counted' <=> v \in counted,
           v \in lost' <=> v \in lost
    PROVE  Placed(v)'
<1>1. CASE v \in lost /\ head[v] = 0
  BY <1>1 DEF Placed
<1>2. CASE v \notin lost
  <2>1. PICK k \in Nat : HeadAt(v, k) /\ CountIs(v, k)
    BY <1>2 DEF TInv, Placed
  <2>2. HeadAt(v, k)' /\ CountIs(v, k)'
    BY <2>1 DEF HeadAt, CountIs
  <2> QED
    BY <1>2, <2>2 DEF Placed
<1> QED
  BY <1>1, <1>2 DEF TInv, Placed

\* A motion without a write keeps the reels and the places of the heads.
LEMMA MotionKeeps ==
    ASSUME TInv, NEW u \in Units, NEW p, NEW i, NEW cs, NEW b, MovesTo(u, p, i, cs, b),
           ~anyWrite, ~anyWrite'
    PROVE  /\ ReelTypes' /\ HeadTypes' /\ (\A v \in Units : OnReel(v)' /\ Placed(v)')
           /\ Shows(u, i, cs)
<1>1. /\ i \in 0..Len(ends[u]) /\ p = Tape!Behind(ends[u], i) /\ cs \in SUBSET Conditions /\ b \in Int
      /\ UNCHANGED <<file, fcb, image, recorded, ends>>
      /\ head' = [head EXCEPT ![u] = p] /\ deviceStatus' = [deviceStatus EXCEPT ![u] = cs]
      /\ blockNo' = [blockNo EXCEPT ![u] = b] /\ lost' = lost \ {u}
      /\ counted' = IF p = 0 /\ b = 0 THEN counted \cup {u} ELSE counted
      /\ u \in fcb /\ (u \in counted \/ (i = 0 /\ b = 0)) => b = i
  BY DEF MovesTo, Tape!Moved
<1>2. p \in Nat /\ (p = 0 <=> i = 0) /\ Tape!LastBehind(ends[u], p) = i
  BY <1>1, StartIsZero
<1>3. ReelTypes'
  <2>1. counted' \subseteq Units \ lost' /\ lost' \subseteq fcb
    BY <1>1 DEF TInv, ReelTypes
  <2> QED
    BY <1>1, <2>1 DEF TInv, ReelTypes
<1>4. head \in [Units -> Nat] /\ blockNo \in [Units -> Int] /\ deviceStatus \in [Units -> SUBSET Conditions]
  BY DEF TInv, HeadTypes
<1>5. HeadTypes'
  BY <1>1, <1>2, <1>4 DEF HeadTypes
<1>6. /\ head'[u] = p /\ blockNo'[u] = b /\ deviceStatus'[u] = cs
      /\ \A v \in Units \ {u} : head'[v] = head[v] /\ blockNo'[v] = blockNo[v] /\ deviceStatus'[v] = deviceStatus[v]
                                /\ (v \in counted' <=> v \in counted) /\ (v \in lost' <=> v \in lost)
      /\ u \in counted' <=> (u \in counted \/ (i = 0 /\ b = 0))
  BY <1>1, <1>2, <1>4
<1>7. ASSUME NEW v \in Units PROVE OnReel(v)' /\ Placed(v)'
  <2>1. OnReel(v)
    BY DEF TInv
  <2>2. OnReel(v)'
    BY <2>1, <1>1 DEF OnReel
  <2>3. CASE v = u
    <3>1. i \in Nat /\ HeadAt(v, i)'
      <4>1. i \in Nat
        BY <1>1
      <4> QED
        BY <4>1, <2>3, <1>1, <1>6 DEF HeadAt
    <3>2. CountIs(v, i)'
      BY <2>3, <1>1, <1>6 DEF CountIs
    <3>3. v \notin lost'
      BY <2>3, <1>1
    <3> QED
      BY <2>2, <3>1, <3>2, <3>3 DEF Placed
  <2>4. CASE v # u
    <3>1. Placed(v)'
      BY <2>4, <1>1, <1>6, OthersStay
    <3> QED
      BY <2>2, <3>1
  <2> QED
    BY <2>3, <2>4
<1>8. Shows(u, i, cs)
  <2>1. Tape!Passed(u)' = i
    BY <1>1, <1>2, <1>6 DEF Tape!Passed
  <2>2. \A v \in Units \ {u} : Tape!Passed(v)' = Tape!Passed(v)
    BY <1>1, <1>6 DEF Tape!Passed
  <2> QED
    BY <1>1, <1>6, <2>1, <2>2 DEF Shows
<1> QED
  BY <1>3, <1>5, <1>7, <1>8

\* Padding and older recordings are in the files.
LEMMA FilesStay ==
    ASSUME UNCHANGED <<file, fcb, image, ends>>
    PROVE  /\ UNCHANGED {u \in fcb : image[u].padded}
           /\ UNCHANGED {u \in fcb : Tape!End(u) < Len(file[u])}
<1>1. \A u : Tape!End(u)' = Tape!End(u)
  BY DEF Tape!End
<1> QED
  BY <1>1

\* It is a motion of the abstract drives.
LEMMA DriveMoves ==
    ASSUME TInv, NEW u \in Units, NEW i, NEW cs, Shows(u, i, cs)
    PROVE  Tape!Drive!Moves(u)
<1>1. UNCHANGED <<file, fcb, image, ends, recorded>>
  BY DEF Shows
<1>2. lost' \ {u} = lost \ {u}
  BY DEF Shows
<1> QED
  BY <1>1, <1>2, FilesStay DEF Shows, Tape!Drive!Moves

\* Every motion is a step of theirs.
LEMMA MotionStep ==
    ASSUME NEW u \in Units, Tape!Drive!Moves(u),
           \/ Tape!Drive!Known(u) \/ Tape!Drive!Rewind(u) \/ Tape!Drive!RewindRead(u)
           \/ Tape!Drive!GetsLost(u) \/ Tape!Drive!Wander(u)
    PROVE  Tape!DriveStep
<1>1. Tape!Drive!Motion(u)
  BY DEF Tape!Drive!Motion
<1> QED
  BY <1>1 DEF Tape!DriveStep, Tape!Drive!Next

\* The head of u gets lost or stays so, and the count is then b.
Strays(u, cs, b) ==
    /\ cs \in SUBSET Conditions /\ b \in Int
    /\ UNCHANGED <<file, fcb, image, recorded, ends>>
    /\ head' = [head EXCEPT ![u] = 0] /\ deviceStatus' = [deviceStatus EXCEPT ![u] = cs]
    /\ blockNo' = [blockNo EXCEPT ![u] = b]
    /\ lost' = lost \cup {u} /\ counted' = counted \ {u}

\* That keeps the reels and is a motion too.
LEMMA StrayKeeps ==
    ASSUME TInv, NEW u \in fcb, NEW cs, NEW b, Strays(u, cs, b), ~anyWrite, ~anyWrite'
    PROVE  /\ ReelTypes' /\ HeadTypes' /\ (\A v \in Units : OnReel(v)' /\ Placed(v)')
           /\ Tape!Drive!Moves(u) /\ u \in lost'
<1>1. /\ cs \in SUBSET Conditions /\ b \in Int
      /\ UNCHANGED <<file, fcb, image, recorded, ends>>
      /\ head' = [head EXCEPT ![u] = 0] /\ deviceStatus' = [deviceStatus EXCEPT ![u] = cs]
      /\ blockNo' = [blockNo EXCEPT ![u] = b]
      /\ lost' = lost \cup {u} /\ counted' = counted \ {u}
  BY DEF Strays
<1>2. /\ head \in [Units -> Nat] /\ blockNo \in [Units -> Int]
      /\ deviceStatus \in [Units -> SUBSET Conditions] /\ u \in Units
  BY DEF TInv, HeadTypes, ReelTypes
<1>3. ReelTypes'
  <2>1. lost' \subseteq fcb /\ counted' \subseteq Units \ lost'
    BY <1>1 DEF TInv, ReelTypes
  <2> QED
    BY <1>1, <2>1 DEF TInv, ReelTypes
<1>4. HeadTypes'
  BY <1>1, <1>2 DEF HeadTypes
<1>5. /\ head'[u] = 0 /\ u \in lost'
      /\ \A v \in Units \ {u} : head'[v] = head[v] /\ blockNo'[v] = blockNo[v] /\ deviceStatus'[v] = deviceStatus[v]
                                /\ (v \in counted' <=> v \in counted) /\ (v \in lost' <=> v \in lost)
  BY <1>1, <1>2
<1>6. ASSUME NEW v \in Units PROVE OnReel(v)' /\ Placed(v)'
  <2>1. OnReel(v)'
    BY <1>1 DEF TInv, OnReel
  <2>2. CASE v = u
    BY <2>1, <2>2, <1>5 DEF Placed
  <2>3. CASE v # u
    BY <2>1, <2>3, <1>1, <1>5, OthersStay
  <2> QED
    BY <2>2, <2>3
<1>7. Tape!Drive!Moves(u)
  <2>1. \A v \in Units \ {u} : Tape!Passed(v)' = Tape!Passed(v)
    BY <1>1, <1>5 DEF Tape!Passed
  <2>2. lost' \ {u} = lost \ {u}
    BY <1>1
  <2> QED
    BY <2>1, <2>2, <1>1, <1>5, FilesStay DEF Tape!Drive!Moves
<1> QED
  BY <1>3, <1>4, <1>5, <1>6, <1>7

\* What leaves the reels, the heads and the words of the PP alone is no step of theirs.
LEMMA Stutters ==
    ASSUME UNCHANGED <<file, fcb, image, recorded, deviceStatus, ends, head, lost>>,
           Tape!Given' = Tape!Given
    PROVE  Tape!DriveStep
<1>1. \A u \in Units : Tape!Passed(u)' = Tape!Passed(u)
  BY DEF Tape!Passed
<1> QED
  BY <1>1, FilesStay DEF Tape!DriveStep, Tape!Drive!vars

\* Without a transfer nothing is being written.
LEMMA NoWrite == ASSUME TInv, ~active PROVE ~anyWrite /\ Tape!Given = <<>>
BY DEF TInv, InBuffer, Tape!Given

\* A buffer has room for an index.
LEMMA Record0 == MaxRecord \in Nat /\ 0 \in 0..MaxRecord
BY DevicesAssumption DEF DevicesAssumption

\* The buffer after a function without data.
LEMMA EmptyIs ==
    ASSUME TransferTypes, NEW u \in Units, Tape!Empty(u), UNCHANGED ioBuffer,
           bp' = bp \/ bp' = [bp EXCEPT ![u] = 0]
    PROVE  TransferTypes' /\ tapeLength'[u] = 0
<1>1. devLength' = 0 /\ tapeLength' = [tapeLength EXCEPT ![u] = 0]
  BY DEF Tape!Empty
<1>2. 0 \in 0..MaxRecord
  BY Record0
<1> QED
  BY <1>1, <1>2 DEF TransferTypes

\* The buffer after words were unpacked into it.
LEMMA DataIs ==
    ASSUME TransferTypes, NEW u \in Units, NEW words \in Seq(Nat), Len(words) <= MaxRecord,
           NEW n \in 0..MaxRecord, Tape!Data(u, words, n)
    PROVE  /\ TransferTypes' /\ tapeLength'[u] = Len(words) /\ bp'[u] = n
           /\ \A i \in 1..Len(words) : ioBuffer'[u][i - 1] = words[i]
<1>1. PICK k \in Nat : k = Len(words)
  OBVIOUS
<1>2. k \in 0..MaxRecord /\ MaxRecord \in Nat
  BY <1>1, Record0
<1>3. PICK old \in [0..MaxRecord -> Nat] : old = ioBuffer[u]
  BY DEF TransferTypes
<1>4. PICK new : new = [i \in 0..MaxRecord |-> IF i < k THEN words[i + 1] ELSE old[i]]
  OBVIOUS
<1>5. new \in [0..MaxRecord -> Nat]
  <2>1. \A i \in 0..MaxRecord : i < k => i + 1 \in 1..k
    BY <1>1
  <2>2. \A i \in 1..k : words[i] \in Nat
    BY <1>1
  <2>3. \A i \in 0..MaxRecord : (IF i < k THEN words[i + 1] ELSE old[i]) \in Nat
    BY <2>1, <2>2, <1>3
  <2> QED
    BY <2>3, <1>4
<1>6. /\ devLength' = k /\ tapeLength' = [tapeLength EXCEPT ![u] = k]
      /\ bp' = [bp EXCEPT ![u] = n] /\ ioBuffer' = [ioBuffer EXCEPT ![u] = new]
  <2>1. DOMAIN old = 0..MaxRecord
    BY <1>3
  <2>2. ioBuffer' = [ioBuffer EXCEPT ![u] = [i \in DOMAIN ioBuffer[u] |->
                        IF i < Len(words) THEN words[i + 1] ELSE ioBuffer[u][i]]]
    BY DEF Tape!Data
  <2>3. [i \in DOMAIN ioBuffer[u] |-> IF i < Len(words) THEN words[i + 1] ELSE ioBuffer[u][i]] = new
    BY <1>1, <1>3, <1>4, <2>1
  <2> QED
    BY <1>1, <2>2, <2>3 DEF Tape!Data
<1>7. TransferTypes' /\ tapeLength'[u] = k /\ bp'[u] = n /\ ioBuffer'[u] = new
  BY <1>2, <1>5, <1>6 DEF TransferTypes
<1>8. \A i \in 1..k : new[i - 1] = words[i]
  <2>1. \A i \in 1..k : i - 1 \in 0..MaxRecord /\ i - 1 < k /\ (i - 1) + 1 = i
    BY <1>2
  <2> QED
    BY <2>1, <1>4
<1> QED
  BY <1>1, <1>7, <1>8

\* What the PP will be given.
LEMMA NothingGiven ==
    ASSUME ~active' \/ tapeFcode' = "write" \/ tapeLength'[tapeUnit'] = 0
    PROVE  Tape!Given' = <<>>
BY DEF Tape!Given

\* Forward, the PP is given the words of the block.
LEMMA WordsGiven ==
    ASSUME active', tapeFcode' = "readfwd", NEW words \in Seq(Nat), tapeLength'[tapeUnit'] = Len(words),
           bp'[tapeUnit'] = 0, \A i \in 1..Len(words) : ioBuffer'[tapeUnit'][i - 1] = words[i]
    PROVE  Tape!Given' = words
<1>1. \A i \in 1..Len(words) : ioBuffer'[tapeUnit'][0 + i - 1] = words[i]
  <2>1. \A i \in 1..Len(words) : 0 + i - 1 = i - 1
    OBVIOUS
  <2> QED
    BY <2>1
<1>2. [i \in 1..Len(words) |-> ioBuffer'[tapeUnit'][0 + i - 1]] = words
  BY <1>1
<1> QED
  BY <1>2 DEF Tape!Given

\* What the PP is given of a block backward: as many words as the block has, the first of them stale.
ReadBack(given, block) ==
    /\ given \in Seq(Nat) /\ Len(given) = Len(block)
    /\ \A i \in 2..Len(block) : given[i] = block[Len(block) + 2 - i]

\* Backward, as many words as the block has; and its own from the second one on.
LEMMA BackwardGiven ==
    ASSUME active', tapeFcode' = "readbkw", TransferTypes', tapeUnit' \in Units,
           NEW block \in Seq(Nat), tapeLength'[tapeUnit'] = Len(block), bp'[tapeUnit'] = Len(block),
           \A i \in 1..Len(block) : ioBuffer'[tapeUnit'][i - 1] = block[i]
    PROVE  ReadBack(Tape!Given', block)
<1>1. PICK n, buf : n = Len(block) /\ buf = ioBuffer'[tapeUnit']
  OBVIOUS
<1>2. n \in 0..MaxRecord /\ n \in Nat /\ buf \in [0..MaxRecord -> Nat] /\ MaxRecord \in Nat
  BY <1>1, Record0 DEF TransferTypes
<1>3. Tape!Given' = [i \in 1..n |-> buf[n - i + 1]]
  BY <1>1 DEF Tape!Given
<1>4. \A i \in 1..n : buf[n - i + 1] \in Nat
  <2>1. \A i \in 1..n : n - i + 1 \in 0..MaxRecord
    BY <1>2
  <2> QED
    BY <2>1, <1>2
<1>5. PICK g : g = [i \in 1..n |-> buf[n - i + 1]]
  OBVIOUS
<1>6. g \in [1..n -> Nat]
  BY <1>4, <1>5
<1>7. Len(g) = n /\ g \in Seq(Nat)
  BY <1>2, <1>6
<1>8. ASSUME NEW i \in 2..n PROVE g[i] = block[n + 2 - i]
  <2>1. PICK k : k = n + 2 - i
    OBVIOUS
  <2>2. k \in 1..n /\ n - i + 1 = k - 1 /\ i \in 1..n
    BY <2>1, <1>2
  <2>3. buf[k - 1] = block[k]
    BY <2>2, <1>1
  <2> QED
    BY <2>1, <2>2, <2>3, <1>5
<1> QED
  BY <1>1, <1>3, <1>5, <1>7, <1>8 DEF ReadBack

\* A function without data, or one that reads.
LEMMA FlowIs ==
    ASSUME TInv, ~active, TransferTypes', tapeUnit' \in Units, UNCHANGED <<anyWrite, writes, crashed>>,
           active' \in {active, TRUE},
           \/ ~active' /\ tapeFcode' \in {"motion", tapeFcode}
           \/ tapeFcode' = "readfwd" /\ bp'[tapeUnit'] + tapeLength'[tapeUnit'] <= MaxRecord
           \/ tapeFcode' = "readbkw" /\ tapeLength'[tapeUnit'] <= bp'[tapeUnit']
    PROVE  TapeFlowTypes' /\ InBuffer'
<1>1. tapeFcode' # "write" \/ ~active'
  BY NoWrite
<1>2. anyWrite' = FALSE /\ active' \in BOOLEAN
  BY NoWrite DEF TInv, TapeFlowTypes
<1>3. TapeFlowTypes'
  BY <1>2 DEF TInv, TapeFlowTypes, TransferTypes
<1>4. InBuffer'
  BY <1>1, <1>2 DEF InBuffer
<1> QED
  BY <1>3, <1>4

Mark(block) == IF block = <<>> THEN {"tapemark"} ELSE {}


\* The head went back over block i + 1, or it was at the load point.
WentBack(u, j, i, cs) ==
    \/ j = 0 /\ i = 0 /\ cs = (IF u \in fcb THEN {"loadpoint"} ELSE {})
    \/ /\ u \in fcb /\ j > 0 /\ i = j - 1
       /\ cs = Mark(recorded[u][j]) \cup (IF i = 0 THEN {"loadpoint"} ELSE {})

\* A length of zero is a tape mark.
LEMMA MarkIs ==
    ASSUME NEW block \in Seq(Nat)
    PROVE  (IF Len(block) = 0 THEN {"tapemark"} ELSE {}) = Mark(block)
<1>1. Len(block) = 0 <=> block = <<>>
  OBVIOUS
<1> QED
  BY <1>1 DEF Mark

\* Back over a block that is behind the head.
LEMMA MovesBack ==
    ASSUME TInv, ~anyWrite, NEW u \in Units, NEW j \in Nat, AtBlock(u, j), u \in fcb, j > 0,
           UNCHANGED <<file, fcb, image, recorded, ends>>,
           NEW p, p = Tape!Behind(ends[u], j - 1), Tape!MovedBack(u, p)
    PROVE  \E i, cs, b : MovesTo(u, p, i, cs, b) /\ WentBack(u, j, i, cs)
<1>1. PICK i \in Nat : i = j - 1
  OBVIOUS
<1>2. RecordAt(u, j) /\ head[u] = ends[u][j] /\ i \in 0..Len(ends[u])
  BY <1>1 DEF AtBlock
<1>3. p \in Nat /\ (p = 0 <=> i = 0)
  BY <1>1, <1>2, StartIsZero
<1>4. PICK block \in Seq(Nat) : block = recorded[u][j]
  BY <1>2 DEF RecordAt
<1>5. Tape!Cell(file[u], head[u] - 1).v = Len(block)
  BY <1>2, <1>4 DEF RecordAt
<1>6. PICK cs : cs = Mark(block) \cup (IF i = 0 THEN {"loadpoint"} ELSE {})
  OBVIOUS
<1>7. PICK b : b = IF i = 0 THEN 0 ELSE blockNo[u] - 1
  OBVIOUS
<1>8. Tape!Moved(u, p, cs, b)
  <2>1. (IF Tape!Cell(file[u], head[u] - 1).v = 0 THEN {"tapemark"} ELSE {}) = Mark(block)
    BY <1>5, MarkIs
  <2>2. (IF p = 0 THEN {"loadpoint"} ELSE {}) = (IF i = 0 THEN {"loadpoint"} ELSE {})
    BY <1>3
  <2>3. (IF p = 0 THEN 0 ELSE blockNo[u] - 1) = b
    BY <1>3, <1>7
  <2> QED
    BY <2>1, <2>2, <2>3, <1>6 DEF Tape!MovedBack
<1>9. blockNo[u] \in Int /\ (u \in counted => blockNo[u] = j)
  BY DEF TInv, HeadTypes, AtBlock, CountIs
<1>10. b \in Int /\ (u \in counted \/ (i = 0 /\ b = 0) => b = i)
  BY <1>1, <1>7, <1>9
<1>11. cs \in SUBSET Conditions
  BY <1>6 DEF Mark, Conditions
<1>12. MovesTo(u, p, i, cs, b)
  BY <1>1, <1>2, <1>8, <1>10, <1>11 DEF MovesTo
<1>13. WentBack(u, j, i, cs)
  BY <1>1, <1>4, <1>6 DEF WentBack
<1> QED
  BY <1>12, <1>13

\* To the start of the reel.
LEMMA ToLoadPoint ==
    ASSUME TInv, NEW u \in Units, UNCHANGED <<file, fcb, image, recorded, ends>>, Tape!AtLoadPoint(u)
    PROVE  MovesTo(u, 0, 0, {"loadpoint"}, 0)
<1>1. 0 \in 0..Len(ends[u]) /\ Tape!Behind(ends[u], 0) = 0
  <2>1. Len(ends[u]) \in Nat
    BY EndsAre
  <2> QED
    BY <2>1 DEF Tape!Behind
<1>2. {"loadpoint"} \in SUBSET Conditions /\ 0 \in Nat
  BY DEF Conditions
<1> QED
  BY <1>1, <1>2 DEF MovesTo, Tape!AtLoadPoint

\* Without a reel nothing moves.
LEMMA Unmounted ==
    ASSUME TInv, NEW u \in Units, u \notin fcb, NEW j \in Nat, AtBlock(u, j),
           UNCHANGED <<file, fcb, image, recorded, ends>>, NEW b \in Int,
           Tape!Moved(u, head[u], {}, b)
    PROVE  j = 0 /\ Len(recorded[u]) = 0 /\ MovesTo(u, head[u], 0, {}, b)
<1>1. recorded[u] = <<>>
  BY DEF TInv, OnReel
<1>2. Len(recorded[u]) = 0 /\ j = 0 /\ head[u] = 0 /\ Len(ends[u]) = 0
  BY <1>1 DEF AtBlock
<1>3. 0 \in 0..Len(ends[u]) /\ Tape!Behind(ends[u], 0) = 0
  BY <1>2 DEF Tape!Behind
<1>4. {} \in SUBSET Conditions
  OBVIOUS
<1> QED
  BY <1>2, <1>3, <1>4 DEF MovesTo

\* What backspacing and reading backward do to a drive.
LEMMA GoesBack ==
    ASSUME TInv, ~anyWrite, NEW u \in Units, NEW j \in Nat, AtBlock(u, j), Tape!GoBack(u),
           UNCHANGED <<file, fcb, image, recorded, ends>>
    PROVE  \E p, i, cs, b : MovesTo(u, p, i, cs, b) /\ WentBack(u, j, i, cs)
<1>1. CASE ~Tape!Ready(u) /\ Tape!Moved(u, head[u], {}, blockNo[u])
  <2>1. u \notin fcb /\ blockNo[u] \in Int
    BY <1>1 DEF Tape!Ready, TInv, HeadTypes
  <2>2. j = 0 /\ MovesTo(u, head[u], 0, {}, blockNo[u])
    BY <1>1, <2>1, Unmounted
  <2> QED
    BY <2>1, <2>2 DEF WentBack
<1>2. CASE Tape!Ready(u) /\ head[u] = 0 /\ Tape!AtLoadPoint(u)
  <2>1. u \in fcb /\ j = 0
    BY <1>2 DEF Tape!Ready, AtBlock
  <2>2. MovesTo(u, 0, 0, {"loadpoint"}, 0)
    BY <1>2, ToLoadPoint
  <2> QED
    BY <2>1, <2>2 DEF WentBack
<1>3. CASE Tape!Ready(u) /\ head[u] # 0 /\ Tape!MovedBack(u, Tape!RecordStart(file[u], head[u]))
  <2>1. u \in fcb /\ j > 0
    BY <1>3 DEF Tape!Ready, AtBlock
  <2>2. PICK p : p = Tape!RecordStart(file[u], head[u])
    OBVIOUS
  <2>3. p = Tape!Behind(ends[u], j - 1)
    BY <2>1, <2>2 DEF AtBlock, RecordAt
  <2> QED
    BY <1>3, <2>1, <2>2, <2>3, MovesBack
<1> QED
  BY <1>1, <1>2, <1>3 DEF Tape!GoBack

\* The head went over block j + 1, or it was at the end.
WentForward(u, j, i, cs) ==
    \/ j = Len(recorded[u]) /\ i = j /\ cs = (IF j = 0 THEN {} ELSE {"eot"})
    \/ u \in fcb /\ j < Len(recorded[u]) /\ i = j + 1 /\ cs = Mark(recorded[u][j + 1])

\* What reading and spacing forward do to a drive.
LEMMA GoesForward ==
    ASSUME TInv, NEW u \in Units, NEW j \in 0..Len(recorded[u]), NEW p, NEW b \in Int,
           UNCHANGED <<file, fcb, image, recorded, ends>>, Tape!GoForward(u, p, b),
           p = Tape!Behind(ends[u], j), u \in fcb /\ u \in counted => b = j,
           j = 0 /\ b = 0 => b = j,
           u \in fcb /\ j = Len(recorded[u]) => p >= Len(file[u])
    PROVE  \E q, i, cs, c : MovesTo(u, q, i, cs, c) /\ WentForward(u, j, i, cs)
<1>1. Len(ends[u]) = Len(recorded[u]) /\ Len(recorded[u]) \in Nat /\ j \in Nat
  BY EndsAre
<1>2. p \in Nat /\ (p = 0 <=> j = 0)
  BY <1>1, StartIsZero
<1>3. Len(file[u]) \in Nat
  BY DEF TInv, ReelTypes
<1>4. ASSUME j < Len(recorded[u]) PROVE RecordAt(u, j + 1) /\ p < Len(file[u])
  <2>1. j + 1 \in 1..Len(ends[u]) /\ (j + 1) - 1 = j
    BY <1>1, <1>4
  <2>2. RecordAt(u, j + 1)
    BY <2>1, RecordsAt
  <2>3. p < ends[u][j + 1] /\ ends[u][j + 1] <= Len(file[u]) /\ ends[u][j + 1] \in Nat
    BY <2>1, <2>2 DEF RecordAt
  <2> QED
    BY <2>2, <2>3, <1>2, <1>3
<1>5. CASE ~Tape!Ready(u) /\ Tape!Moved(u, head[u], {}, blockNo[u])
  <2>1. u \notin fcb /\ blockNo[u] \in Int /\ u \notin lost
    BY <1>5 DEF Tape!Ready, TInv, HeadTypes, ReelTypes
  <2>2. PICK k \in Nat : AtBlock(u, k)
    BY <2>1, BlockBehind
  <2>3. Len(recorded[u]) = 0 /\ MovesTo(u, head[u], 0, {}, blockNo[u])
    BY <1>5, <2>1, <2>2, Unmounted
  <2>4. WentForward(u, j, 0, {})
    BY <2>3, <1>1 DEF WentForward
  <2> QED
    BY <2>3, <2>4
<1>6. CASE /\ Tape!Ready(u) /\ p >= Len(file[u])
           /\ IF p = 0 THEN Tape!Moved(u, p, {}, 0) ELSE Tape!Moved(u, p, {"eot"}, b)
  <2>1. j = Len(recorded[u]) /\ u \in fcb /\ j \in 0..Len(ends[u])
    BY <1>1, <1>2, <1>3, <1>4, <1>6 DEF Tape!Ready
  <2>2. {} \in SUBSET Conditions /\ {"eot"} \in SUBSET Conditions /\ 0 \in Int
    BY DEF Conditions
  <2>3. CASE p = 0
    <3>1. MovesTo(u, p, j, {}, 0)
      BY <1>2, <1>6, <2>1, <2>2, <2>3 DEF MovesTo
    <3>2. WentForward(u, j, j, {})
      BY <1>2, <2>1, <2>3 DEF WentForward
    <3> QED
      BY <3>1, <3>2
  <2>4. CASE p # 0
    <3>1. MovesTo(u, p, j, {"eot"}, b)
      BY <1>2, <1>6, <2>1, <2>2, <2>4 DEF MovesTo
    <3>2. WentForward(u, j, j, {"eot"})
      BY <1>2, <2>1, <2>4 DEF WentForward
    <3> QED
      BY <3>1, <3>2
  <2> QED
    BY <2>3, <2>4
<1>7. CASE /\ Tape!Ready(u) /\ p < Len(file[u])
           /\ Tape!Moved(u, Tape!RecordEnd(file[u], p),
                         IF Tape!Cell(file[u], p).v = 0 THEN {"tapemark"} ELSE {}, b + 1)
  <2>1. u \in fcb /\ j < Len(recorded[u])
    BY <1>1, <1>2, <1>3, <1>7 DEF Tape!Ready
  <2>2. PICK i \in Nat : i = j + 1
    BY <1>1
  <2>3. RecordAt(u, i) /\ i \in 0..Len(ends[u]) /\ i - 1 = j /\ i # 0
    BY <1>1, <1>4, <2>1, <2>2
  <2>4. PICK block \in Seq(Nat) : block = recorded[u][i]
    BY <2>3 DEF RecordAt
  <2>5. /\ Tape!RecordEnd(file[u], p) = ends[u][i] /\ Tape!Cell(file[u], p).v = Len(block)
        /\ Tape!Behind(ends[u], i) = ends[u][i]
    BY <2>3, <2>4 DEF RecordAt, Tape!Behind
  <2>6. (IF Tape!Cell(file[u], p).v = 0 THEN {"tapemark"} ELSE {}) = Mark(block)
    BY <2>5, MarkIs
  <2>7. Tape!Moved(u, ends[u][i], Mark(block), b + 1)
    BY <1>7, <2>5, <2>6
  <2>8. b + 1 \in Int /\ (u \in counted => b + 1 = i)
    BY <1>1, <2>1, <2>2
  <2>9. Mark(block) \in SUBSET Conditions
    BY DEF Mark, Conditions
  <2>10. MovesTo(u, ends[u][i], i, Mark(block), b + 1)
    BY <2>3, <2>5, <2>7, <2>8, <2>9 DEF MovesTo
  <2>11. WentForward(u, j, i, Mark(block))
    BY <2>1, <2>2, <2>4 DEF WentForward
  <2> QED
    BY <2>10, <2>11
<1> QED
  BY <1>5, <1>6, <1>7 DEF Tape!GoForward

\* The blocks of a reel are blocks.
LEMMA BlockIsOne ==
    ASSUME TInv, NEW u \in Units, NEW i \in 1..Len(recorded[u])
    PROVE  recorded[u][i] \in Seq(Nat) /\ Len(recorded[u][i]) <= MaxRecord
<1>1. recorded[u] \in Seq(Tape!ABlock)
  BY DEF TInv, ReelTypes
<1>2. recorded[u][i] \in Tape!ABlock
  BY <1>1
<1> QED
  BY <1>2 DEF Tape!ABlock

\* These are steps of the abstract drives.
LEMMA BackStep ==
    ASSUME TInv, NEW u \in Units, u \notin lost, NEW j \in Nat, AtBlock(u, j), NEW i, NEW cs,
           Shows(u, i, cs), WentBack(u, j, i, cs),
           Tape!Given' = <<>> \/ (j > 0 /\ ReadBack(Tape!Given', recorded[u][j]))
    PROVE  Tape!DriveStep
<1>1. Tape!Drive!Moves(u) /\ u \notin lost'
  BY DriveMoves DEF Shows
<1>2. Tape!Passed(u) = j /\ Tape!Passed(u)' = i /\ deviceStatus'[u] = cs
  BY DEF AtBlock, Shows
<1>3. CASE j = 0 /\ i = 0 /\ cs = (IF u \in fcb THEN {"loadpoint"} ELSE {})
  <2>1. Tape!Given' = <<>>
    BY <1>3
  <2>2. Tape!Drive!AtLoadPoint(u)
    BY <1>2, <1>3, <2>1 DEF Tape!Drive!AtLoadPoint
  <2>3. Tape!Drive!Known(u)
    BY <1>1, <2>2 DEF Tape!Drive!Known
  <2> QED
    BY <1>1, <2>3, MotionStep
<1>4. CASE /\ u \in fcb /\ j > 0 /\ i = j - 1
           /\ cs = Mark(recorded[u][j]) \cup (IF i = 0 THEN {"loadpoint"} ELSE {})
  <2>1. j \in 1..Len(recorded[u])
    BY <1>4 DEF AtBlock
  <2>2. recorded[u][j] \in Seq(Nat)
    BY <2>1, BlockIsOne
  <2>3. Tape!Drive!Mark(recorded[u][j]) = Mark(recorded[u][j])
    BY DEF Tape!Drive!Mark, Mark
  <2>4. i = 0 <=> j = 1
    BY <1>4
  <2>5. PICK given : given = Tape!Given'
    OBVIOUS
  <2>6. /\ given \in Seq(Nat)
        /\ given = <<>> \/ (/\ Len(given) = Len(recorded[u][j])
                            /\ \A k \in 2..Len(recorded[u][j]) :
                                  given[k] = recorded[u][j][Len(recorded[u][j]) + 2 - k])
    <3>1. CASE given = <<>>
      <4>1. <<>> \in Seq(Nat)
        OBVIOUS
      <4> QED
        BY <3>1, <4>1, Zenon
    <3>2. CASE given # <<>>
      BY <3>2, <2>5 DEF ReadBack
    <3> QED
      BY <3>1, <3>2
  <2>7. Tape!Drive!Backward(u)
    <3>1. [v \in Units |-> Tape!Passed(v)][u] = j /\ [v \in Units |-> Tape!Passed(v)]'[u] = i
      BY <1>2
    <3> QED
      BY <3>1, <1>2, <1>4, <2>3, <2>4, <2>5, <2>6 DEF Tape!Drive!Backward, Tape!Drive!Block
  <2>8. Tape!Drive!Known(u)
    BY <1>1, <2>7 DEF Tape!Drive!Known
  <2> QED
    BY <1>1, <2>8, MotionStep
<1> QED
  BY <1>3, <1>4 DEF WentBack

\* Forward over a block is a step of theirs.
LEMMA ForwardStep ==
    ASSUME TInv, NEW u \in Units, u \notin lost, NEW j \in Nat, AtBlock(u, j), NEW i, NEW cs,
           Shows(u, i, cs), WentForward(u, j, i, cs),
           u \in fcb /\ j = Len(recorded[u]) => head[u] >= Len(file[u]),
           \/ Tape!Given' = <<>>
           \/ j < Len(recorded[u]) /\ Tape!Given' = recorded[u][j + 1]
    PROVE  Tape!DriveStep
<1>1. Tape!Drive!Moves(u) /\ u \notin lost'
  BY DriveMoves DEF Shows
<1>2. Tape!Passed(u) = j /\ Tape!Passed(u)' = i /\ deviceStatus'[u] = cs
  BY DEF AtBlock, Shows
<1>3. [v \in Units |-> Tape!Passed(v)][u] = j /\ [v \in Units |-> Tape!Passed(v)]'[u] = i
  BY <1>2
<1>4. CASE j = Len(recorded[u]) /\ i = j /\ cs = (IF j = 0 THEN {} ELSE {"eot"})
  <2>1. Tape!Given' = <<>>
    BY <1>4
  <2>2. u \notin {v \in fcb : Tape!End(v) < Len(file[v])}
    <3>1. head[u] = Tape!End(u) /\ head[u] \in Nat /\ Len(file[u]) \in Nat
      BY <1>4 DEF AtBlock, TInv, HeadTypes, ReelTypes
    <3> QED
      BY <3>1, <1>4
  <2>3. Tape!Drive!EndOfTape(u)
    BY <1>2, <1>3, <1>4, <2>1, <2>2 DEF Tape!Drive!EndOfTape
  <2>4. Tape!Drive!Known(u)
    BY <1>1, <2>3 DEF Tape!Drive!Known
  <2> QED
    BY <1>1, <2>4, MotionStep
<1>5. CASE u \in fcb /\ j < Len(recorded[u]) /\ i = j + 1 /\ cs = Mark(recorded[u][j + 1])
  <2>1. Tape!Drive!Mark(recorded[u][j + 1]) = Mark(recorded[u][j + 1])
    BY DEF Tape!Drive!Mark, Mark
  <2>2. Tape!Drive!Forward(u)
    BY <1>2, <1>3, <1>5, <2>1 DEF Tape!Drive!Forward
  <2>3. Tape!Drive!Known(u)
    BY <1>1, <2>2 DEF Tape!Drive!Known
  <2> QED
    BY <1>1, <2>3, MotionStep
<1> QED
  BY <1>4, <1>5 DEF WentForward

\* The rewound drive reads its first block.
LEMMA RewoundStep ==
    ASSUME TInv, NEW u \in fcb, NEW i, NEW cs, Shows(u, i, cs), WentForward(u, 0, i, cs),
           0 = Len(recorded[u]) => 0 >= Len(file[u]),
           IF recorded[u] = <<>> THEN Tape!Given' = <<>> ELSE Tape!Given' = recorded[u][1]
    PROVE  Tape!DriveStep
<1>0. u \in Units /\ recorded[u] \in Seq(Tape!ABlock) /\ Len(file[u]) \in Nat
  BY DEF TInv, ReelTypes
<1>1. Tape!Drive!Moves(u) /\ u \notin lost'
  BY <1>0, DriveMoves DEF Shows
<1>2. Tape!Passed(u)' = i /\ deviceStatus'[u] = cs
  BY DEF Shows
<1>3. [v \in Units |-> Tape!Passed(v)]'[u] = i
  BY <1>0, <1>2
<1>4. recorded[u] = <<>> <=> Len(recorded[u]) = 0
  BY <1>0
<1>5. Tape!Drive!RewindRead(u)
  <2>1. CASE recorded[u] = <<>>
    <3>1. i = 0 /\ cs = {}
      BY <2>1, <1>4 DEF WentForward
    <3>2. Tape!End(u) = 0
      <4>1. Len(ends[u]) = 0
        BY <2>1, <1>0, <1>4, EndsAre
      <4> QED
        BY <4>1 DEF Tape!End, Tape!Behind
    <3>3. u \notin {v \in fcb : Tape!End(v) < Len(file[v])}
      BY <3>2, <2>1, <1>0, <1>4
    <3> QED
      BY <2>1, <3>1, <3>3, <1>1, <1>2, <1>3 DEF Tape!Drive!RewindRead
  <2>2. CASE recorded[u] # <<>>
    <3>1. i = 1 /\ cs = Mark(recorded[u][1])
      BY <2>2, <1>4, <1>0 DEF WentForward
    <3>2. Tape!Drive!Mark(Tape!Given') = Mark(recorded[u][1])
      BY <2>2 DEF Tape!Drive!Mark, Mark
    <3> QED
      BY <2>2, <3>1, <3>2, <1>1, <1>2, <1>3 DEF Tape!Drive!RewindRead
  <2> QED
    BY <2>1, <2>2
<1> QED
  BY <1>0, <1>1, <1>5, MotionStep

\* So is a rewind.
LEMMA RewindStep ==
    ASSUME TInv, NEW u \in fcb, Shows(u, 0, {"loadpoint"}), UNCHANGED Tape!Given
    PROVE  Tape!DriveStep
<1>0. u \in Units
  BY DEF TInv, ReelTypes
<1>1. Tape!Drive!Moves(u) /\ u \notin lost'
  BY <1>0, DriveMoves DEF Shows
<1>2. [v \in Units |-> Tape!Passed(v)]'[u] = 0 /\ deviceStatus'[u] = {"loadpoint"}
  BY <1>0 DEF Shows
<1>3. Tape!Drive!Rewind(u)
  BY <1>1, <1>2 DEF Tape!Drive!Rewind
<1> QED
  BY <1>0, <1>1, <1>3, MotionStep

\* The head of a lost drive comes to the load point.
LEMMA ComesBack ==
    ASSUME TInv, NEW u \in Units, u \in lost, NEW cs, Shows(u, 0, cs), "loadpoint" \in cs
    PROVE  Tape!DriveStep
<1>1. Tape!Drive!Moves(u)
  BY DriveMoves
<1>2. [v \in Units |-> Tape!Passed(v)]'[u] = 0 /\ deviceStatus'[u] = cs
  BY DEF Shows
<1>3. Tape!Drive!Wander(u)
  BY <1>2 DEF Tape!Drive!Wander
<1> QED
  BY <1>1, <1>3, MotionStep

\* Between transfers: nothing is written, and the PP is given nothing.
LEMMA AtRest ==
    ASSUME TInv, ~active
    PROVE  /\ ~anyWrite /\ Tape!Given = <<>> /\ tapeUnit \in Units /\ TransferTypes
           /\ tapeUnit \notin lost => \E j \in Nat : AtBlock(tapeUnit, j)
<1>1. tapeUnit \in Units
  BY DEF TInv, TapeFlowTypes
<1> QED
  BY <1>1, NoWrite, BlockBehind DEF TInv, TapeFlowTypes, TransferTypes

\* A unit that stays where it is.
LEMMA Remains ==
    ASSUME TInv, UNCHANGED <<file, fcb, image, recorded, ends, head, lost, deviceStatus, blockNo, counted>>,
           ~anyWrite, ~anyWrite'
    PROVE  ReelTypes' /\ HeadTypes' /\ \A v \in Units : OnReel(v)' /\ Placed(v)'
<1>1. ASSUME NEW v \in Units PROVE OnReel(v)' /\ Placed(v)'
  <2>1. OnReel(v)'
    BY DEF TInv, OnReel
  <2> QED
    BY <2>1, OthersStay
<1> QED
  BY <1>1 DEF TInv, ReelTypes, HeadTypes

\* The motions (mt669Func).
LEMMA RewindKeeps == ASSUME TInv, Tape!Rewind PROVE TInv' /\ Tape!DriveStep
<1> DEFINE u == tapeUnit
<1>1. /\ ~active /\ tapeFcode' = "motion" /\ u \in fcb /\ Tape!AtLoadPoint(u)
      /\ UNCHANGED <<tapeLength, bp, ioBuffer, devLength, tapeUnit, active, file, fcb, image, recorded,
                     ends, anyWrite, crashed, writes, loads>>
  BY DEF Tape!Rewind, Tape!Function, Tape!Ready, Tape!transfer, Tape!unmoving, Tape!reels
<1>2. ~anyWrite /\ Tape!Given = <<>> /\ u \in Units /\ TransferTypes
  BY <1>1, AtRest
<1>3. MovesTo(u, 0, 0, {"loadpoint"}, 0)
  BY <1>1, <1>2, ToLoadPoint
<1>4. ReelTypes' /\ HeadTypes' /\ (\A v \in Units : OnReel(v)' /\ Placed(v)') /\ Shows(u, 0, {"loadpoint"})
  BY <1>1, <1>2, <1>3, MotionKeeps
<1>5. TransferTypes'
  BY <1>1, <1>2 DEF TransferTypes
<1>6. TapeFlowTypes' /\ InBuffer'
  BY <1>1, <1>2, <1>5, FlowIs
<1>7. Tape!Given' = <<>>
  BY <1>1, NothingGiven
<1>8. Tape!DriveStep
  BY <1>1, <1>2, <1>4, <1>7, RewindStep
<1> QED
  BY <1>4, <1>6, <1>8 DEF TInv

\* A drive whose head comes to bytes that are no lengths.
LEMMA AstrayStrays ==
    ASSUME TInv, NEW u \in Units, Tape!Astray(u), UNCHANGED <<file, fcb, image, recorded, ends>>
    PROVE  Strays(u, {"astray"}, blockNo[u])
<1>1. /\ head' = [head EXCEPT ![u] = 0] /\ deviceStatus' = [deviceStatus EXCEPT ![u] = {"astray"}]
      /\ lost' = lost \cup {u} /\ counted' = counted \ {u} /\ blockNo' = blockNo
  BY DEF Tape!Astray
<1>2. blockNo \in [Units -> Int]
  BY DEF TInv, HeadTypes
<1>3. blockNo' = [blockNo EXCEPT ![u] = blockNo[u]] /\ blockNo[u] \in Int
  BY <1>1, <1>2
<1>4. {"astray"} \in SUBSET Conditions
  BY DEF Conditions
<1> QED
  BY <1>1, <1>3, <1>4 DEF Strays

\* A lost drive that goes backward.
LEMMA BackAstrayKeeps ==
    ASSUME TInv, NEW u \in Units, u \in lost, Tape!BackAstray(u),
           UNCHANGED <<file, fcb, image, recorded, ends>>, ~anyWrite, ~anyWrite'
    PROVE  ReelTypes' /\ HeadTypes' /\ (\A v \in Units : OnReel(v)' /\ Placed(v)') /\ Tape!DriveStep
<1>1. u \in fcb
  BY DEF TInv, ReelTypes
<1>2. CASE Tape!Astray(u)
  <2>1. Strays(u, {"astray"}, blockNo[u])
    BY <1>2, AstrayStrays
  <2>2. /\ ReelTypes' /\ HeadTypes' /\ (\A v \in Units : OnReel(v)' /\ Placed(v)')
        /\ Tape!Drive!Moves(u) /\ u \in lost'
    BY <1>1, <2>1, StrayKeeps
  <2>3. Tape!Drive!Wander(u)
    BY <2>2 DEF Tape!Drive!Wander
  <2> QED
    BY <2>2, <2>3, MotionStep
<1>3. CASE Tape!Moved(u, 0, {"astray", "loadpoint"}, 0)
  <2>1. 0 \in 0..Len(ends[u]) /\ Tape!Behind(ends[u], 0) = 0
    <3>1. Len(ends[u]) \in Nat
      BY EndsAre
    <3> QED
      BY <3>1 DEF Tape!Behind
  <2>2. {"astray", "loadpoint"} \in SUBSET Conditions /\ 0 \in Int
    BY DEF Conditions
  <2>3. MovesTo(u, 0, 0, {"astray", "loadpoint"}, 0)
    BY <1>3, <2>1, <2>2 DEF MovesTo
  <2>4. /\ ReelTypes' /\ HeadTypes' /\ (\A v \in Units : OnReel(v)' /\ Placed(v)')
        /\ Shows(u, 0, {"astray", "loadpoint"})
    BY <2>3, MotionKeeps
  <2> QED
    BY <2>4, ComesBack
<1> QED
  BY <1>2, <1>3 DEF Tape!BackAstray

\* mt669FuncBackspace.
LEMMA BackspaceKeeps == ASSUME TInv, Tape!Backspace PROVE TInv' /\ Tape!DriveStep
<1> DEFINE u == tapeUnit
<1>1. /\ ~active /\ tapeFcode' = "motion" /\ Tape!Empty(u)
      /\ (u \notin lost /\ Tape!GoBack(u)) \/ (u \in lost /\ Tape!BackAstray(u))
      /\ UNCHANGED <<bp, ioBuffer, tapeUnit, active, file, fcb, image, recorded,
                     ends, anyWrite, crashed, writes, loads>>
  BY DEF Tape!Backspace, Tape!Function, Tape!NoData, Tape!unmoving, Tape!reels
<1>2. ~anyWrite /\ ~anyWrite' /\ u \in Units /\ TransferTypes
  BY <1>1, AtRest
<1>3. TransferTypes'
  BY <1>1, <1>2, EmptyIs
<1>4. TapeFlowTypes' /\ InBuffer'
  BY <1>1, <1>2, <1>3, FlowIs
<1>5. Tape!Given' = <<>>
  BY <1>1, NothingGiven
<1>6. CASE u \notin lost /\ Tape!GoBack(u)
  <2>1. PICK j \in Nat : AtBlock(u, j)
    BY <1>1, <1>6, AtRest
  <2>2. PICK p, i, cs, b : MovesTo(u, p, i, cs, b) /\ WentBack(u, j, i, cs)
    BY <1>1, <1>2, <1>6, <2>1, GoesBack
  <2>3. ReelTypes' /\ HeadTypes' /\ (\A v \in Units : OnReel(v)' /\ Placed(v)') /\ Shows(u, i, cs)
    BY <1>2, <2>2, MotionKeeps
  <2>4. Tape!DriveStep
    BY <1>2, <1>5, <1>6, <2>1, <2>2, <2>3, BackStep
  <2> QED
    BY <2>3, <1>4, <2>4 DEF TInv
<1>7. CASE u \in lost /\ Tape!BackAstray(u)
  <2>1. ReelTypes' /\ HeadTypes' /\ (\A v \in Units : OnReel(v)' /\ Placed(v)') /\ Tape!DriveStep
    BY <1>1, <1>2, <1>7, BackAstrayKeeps
  <2> QED
    BY <2>1, <1>4 DEF TInv
<1> QED
  BY <1>1, <1>6, <1>7

\* mt669FuncReposition over a padded record: the head is lost.
LEMMA OverPadding ==
    ASSUME TInv, NEW u \in Units, u \in fcb, u \notin lost, ~active, UNCHANGED active,
           UNCHANGED <<file, fcb, image, recorded, ends>>, ~anyWrite, ~anyWrite',
           NEW j \in Nat, AtBlock(u, j), j > 0,
           NEW n, n = Tape!Cell(file[u], head[u] - 1).v,
           head[u] - (IF n = 0 THEN 1 ELSE n + 2) # Tape!RecordStart(file[u], head[u]),
           Strays(u, {}, blockNo[u] - 1)
    PROVE  ReelTypes' /\ HeadTypes' /\ (\A v \in Units : OnReel(v)' /\ Placed(v)') /\ Tape!DriveStep
<1>1. /\ ReelTypes' /\ HeadTypes' /\ (\A v \in Units : OnReel(v)' /\ Placed(v)')
      /\ Tape!Drive!Moves(u) /\ u \in lost'
  BY StrayKeeps
<1>2. RecordAt(u, j) /\ head[u] = ends[u][j]
  BY DEF AtBlock
<1>3. /\ n = Len(recorded[u][j]) /\ n \in Nat /\ head[u] \in Nat
      /\ Tape!RecordStart(file[u], head[u]) = Tape!Behind(ends[u], j - 1)
  BY <1>2 DEF RecordAt
<1>4. image[u].padded
  <2>1. ASSUME ~image[u].padded PROVE FALSE
    <3>1. Tape!Behind(ends[u], j - 1) = IF n = 0 THEN head[u] - 1 ELSE head[u] - (n + 2)
      BY <1>2, <1>3, <2>1 DEF RecordAt
    <3> QED
      BY <1>3, <3>1
  <2> QED
    BY <2>1
<1>5. Tape!Given' = Tape!Given
  BY DEF Tape!Given
<1>6. [v \in Units |-> Tape!Passed(v)][u] > 0
  BY DEF AtBlock
<1>7. Tape!Drive!GetsLost(u)
  BY <1>1, <1>4, <1>5, <1>6 DEF Tape!Drive!GetsLost
<1> QED
  BY <1>1, <1>7, MotionStep

\* mt669FuncReposition.
LEMMA RepositionKeeps == ASSUME TInv, Tape!Reposition PROVE TInv' /\ Tape!DriveStep
<1> DEFINE u == tapeUnit
           n == Tape!Cell(file[u], head[u] - 1).v
           behind == Tape!RecordStart(file[u], head[u])
           far == head[u] - (IF n = 0 THEN 1 ELSE n + 2) # behind
<1>1. /\ ~active /\ tapeFcode' = "motion" /\ u \in fcb
      /\ UNCHANGED <<tapeLength, bp, ioBuffer, devLength, tapeUnit, active, file, fcb, image, recorded,
                     ends, anyWrite, crashed, writes, loads>>
      /\ \/ u \notin lost /\ head[u] = 0 /\ Tape!AtLoadPoint(u)
         \/ u \notin lost /\ head[u] # 0 /\ ~far /\ Tape!MovedBack(u, behind)
         \/ /\ u \notin lost /\ head[u] # 0 /\ far
            /\ head' = [head EXCEPT ![u] = 0] /\ deviceStatus' = [deviceStatus EXCEPT ![u] = {}]
            /\ blockNo' = [blockNo EXCEPT ![u] = @ - 1]
            /\ lost' = lost \cup {u} /\ counted' = counted \ {u}
         \/ u \in lost /\ Tape!BackAstray(u)
  BY DEF Tape!Reposition, Tape!Function, Tape!Ready, Tape!transfer, Tape!unmoving, Tape!reels
<1>2. ~anyWrite /\ ~anyWrite' /\ u \in Units /\ TransferTypes
  BY <1>1, AtRest
<1>3. TransferTypes'
  BY <1>1, <1>2 DEF TransferTypes
<1>4. TapeFlowTypes' /\ InBuffer'
  BY <1>1, <1>2, <1>3, FlowIs
<1>5. Tape!Given' = <<>>
  BY <1>1, NothingGiven
<1>6. ASSUME NEW j \in Nat, AtBlock(u, j), u \notin lost,
             \E p, i, cs, b : MovesTo(u, p, i, cs, b) /\ WentBack(u, j, i, cs)
      PROVE  TInv' /\ Tape!DriveStep
  <2>1. PICK p, i, cs, b : MovesTo(u, p, i, cs, b) /\ WentBack(u, j, i, cs)
    BY <1>6
  <2>2. ReelTypes' /\ HeadTypes' /\ (\A v \in Units : OnReel(v)' /\ Placed(v)') /\ Shows(u, i, cs)
    BY <1>2, <2>1, MotionKeeps
  <2>3. Tape!DriveStep
    BY <1>2, <1>5, <1>6, <2>1, <2>2, BackStep
  <2> QED
    BY <2>2, <2>3, <1>4 DEF TInv
<1>7. CASE u \notin lost /\ head[u] = 0 /\ Tape!AtLoadPoint(u)
  <2>1. PICK j \in Nat : AtBlock(u, j)
    BY <1>1, <1>7, AtRest
  <2>2. j = 0
    BY <2>1, <1>7 DEF AtBlock
  <2>3. MovesTo(u, 0, 0, {"loadpoint"}, 0)
    BY <1>1, <1>2, <1>7, ToLoadPoint
  <2>4. WentBack(u, j, 0, {"loadpoint"})
    BY <2>2, <1>1 DEF WentBack
  <2> QED
    BY <2>1, <2>3, <2>4, <1>6, <1>7
<1>8. CASE u \notin lost /\ head[u] # 0 /\ ~far /\ Tape!MovedBack(u, behind)
  <2>1. PICK j \in Nat : AtBlock(u, j)
    BY <1>1, <1>8, AtRest
  <2>2. j > 0 /\ behind = Tape!Behind(ends[u], j - 1)
    BY <2>1, <1>8 DEF AtBlock, RecordAt
  <2>3. \E p, i, cs, b : MovesTo(u, p, i, cs, b) /\ WentBack(u, j, i, cs)
    <3>1. PICK p : p = behind
      OBVIOUS
    <3>2. \E i, cs, b : MovesTo(u, p, i, cs, b) /\ WentBack(u, j, i, cs)
      BY <1>1, <1>2, <1>8, <2>1, <2>2, <3>1, MovesBack
    <3> QED
      BY <3>2
  <2> QED
    BY <2>1, <2>3, <1>6, <1>8
<1>9. CASE /\ u \notin lost /\ head[u] # 0 /\ far
           /\ head' = [head EXCEPT ![u] = 0] /\ deviceStatus' = [deviceStatus EXCEPT ![u] = {}]
           /\ blockNo' = [blockNo EXCEPT ![u] = @ - 1]
           /\ lost' = lost \cup {u} /\ counted' = counted \ {u}
  <2>1. PICK j \in Nat : AtBlock(u, j)
    BY <1>1, <1>9, AtRest
  <2>2. j > 0
    BY <2>1, <1>9 DEF AtBlock
  <2>3. Strays(u, {}, blockNo[u] - 1)
    <3>1. {} \in SUBSET Conditions
      OBVIOUS
    <3>2. blockNo[u] - 1 \in Int
      BY <1>2 DEF TInv, HeadTypes
    <3> QED
      BY <3>1, <3>2, <1>1, <1>9 DEF Strays
  <2>4. ReelTypes' /\ HeadTypes' /\ (\A v \in Units : OnReel(v)' /\ Placed(v)') /\ Tape!DriveStep
    BY <1>1, <1>2, <1>9, <2>1, <2>2, <2>3, OverPadding
  <2> QED
    BY <2>4, <1>4 DEF TInv
<1>10. CASE u \in lost /\ Tape!BackAstray(u)
  <2>1. ReelTypes' /\ HeadTypes' /\ (\A v \in Units : OnReel(v)' /\ Placed(v)') /\ Tape!DriveStep
    BY <1>1, <1>2, <1>10, BackAstrayKeeps
  <2> QED
    BY <2>1, <1>4 DEF TInv
<1> QED
  BY <1>1, <1>7, <1>8, <1>9, <1>10

\* Words read where there is no record: what counts is that they are in the buffer.
LEMMA UnknownIs ==
    ASSUME TransferTypes, NEW u \in Units, Tape!UnknownForward(u) \/ Tape!UnknownBackward(u)
    PROVE  /\ TransferTypes'
           /\ Tape!UnknownForward(u) => bp'[u] + tapeLength'[u] <= MaxRecord
           /\ Tape!UnknownBackward(u) => tapeLength'[u] <= bp'[u]
<1>1. ASSUME Tape!NoData(u)
      PROVE  TransferTypes' /\ bp'[u] + tapeLength'[u] <= MaxRecord /\ tapeLength'[u] <= bp'[u]
  <2>1. Tape!Empty(u) /\ UNCHANGED <<bp, ioBuffer>>
    BY <1>1 DEF Tape!NoData
  <2>2. TransferTypes' /\ tapeLength'[u] = 0
    BY <2>1, EmptyIs
  <2>3. bp'[u] \in 0..MaxRecord
    BY <2>2 DEF TransferTypes
  <2> QED
    BY <2>2, <2>3, Record0
<1>2. ASSUME NEW words \in Tape!Unknown, NEW first, Tape!Data(u, words, first), first \in {0, Len(words)}
      PROVE  /\ TransferTypes' /\ tapeLength'[u] \in 0..MaxRecord /\ bp'[u] = first
             /\ tapeLength'[u] = Len(words)
  <2>1. PICK n \in 1..MaxRecord : words = [i \in 1..n |-> 0]
    BY <1>2 DEF Tape!Unknown
  <2>2. n \in Nat /\ MaxRecord \in Nat /\ n <= MaxRecord
    BY <2>1, Record0
  <2>3. words \in [1..n -> Nat]
    BY <2>1
  <2>4. words \in Seq(Nat) /\ Len(words) = n
    BY <2>2, <2>3
  <2>5. first \in 0..MaxRecord
    BY <1>2, <2>2, <2>4
  <2> QED
    BY <1>2, <2>2, <2>4, <2>5, DataIs
<1>3. CASE Tape!UnknownForward(u)
  <2>1. TransferTypes' /\ bp'[u] + tapeLength'[u] <= MaxRecord
    <3>1. CASE Tape!NoData(u)
      BY <1>1, <3>1
    <3>2. ASSUME NEW words \in Tape!Unknown, Tape!Data(u, words, 0)
          PROVE  TransferTypes' /\ bp'[u] + tapeLength'[u] <= MaxRecord
      BY <1>2, <3>2, Record0
    <3> QED
      BY <1>3, <3>1, <3>2 DEF Tape!UnknownForward
  <2>2. ASSUME Tape!UnknownBackward(u) PROVE tapeLength'[u] <= bp'[u]
    <3>1. CASE Tape!NoData(u)
      BY <1>1, <3>1
    <3>2. ASSUME NEW words \in Tape!Unknown, Tape!Data(u, words, Len(words))
          PROVE  tapeLength'[u] <= bp'[u]
      BY <1>2, <3>2
    <3> QED
      BY <2>2, <3>1, <3>2 DEF Tape!UnknownBackward
  <2> QED
    BY <2>1, <2>2
<1>4. CASE Tape!UnknownBackward(u)
  <2>1. TransferTypes' /\ tapeLength'[u] <= bp'[u]
    <3>1. CASE Tape!NoData(u)
      BY <1>1, <3>1
    <3>2. ASSUME NEW words \in Tape!Unknown, Tape!Data(u, words, Len(words))
          PROVE  TransferTypes' /\ tapeLength'[u] <= bp'[u]
      BY <1>2, <3>2
    <3> QED
      BY <1>4, <3>1, <3>2 DEF Tape!UnknownBackward
  <2> QED
    BY <2>1, <1>3
<1> QED
  BY <1>3, <1>4

\* mt669FuncReadBkw.
LEMMA ReadBkwKeeps == ASSUME TInv, Tape!ReadBkw PROVE TInv' /\ Tape!DriveStep
<1> DEFINE u == tapeUnit
           n == Tape!Cell(file[u], head[u] - 1).v
           words == Tape!Body(file[u], Tape!RecordStart(file[u], head[u]), n)
<1>1. /\ ~active /\ tapeFcode' = "readbkw" /\ active' = TRUE
      /\ UNCHANGED <<tapeUnit, file, fcb, image, recorded, ends, anyWrite, crashed, writes, loads>>
      /\ \/ /\ u \notin lost /\ Tape!GoBack(u)
            /\ Tape!NoData(u) \/ (head[u] # 0 /\ Tape!Data(u, words, n))
         \/ u \in lost /\ Tape!BackAstray(u) /\ Tape!UnknownBackward(u)
  BY DEF Tape!ReadBkw, Tape!Function, Tape!unmoving, Tape!reels
<1>2. ~anyWrite /\ ~anyWrite' /\ u \in Units /\ TransferTypes
  BY <1>1, AtRest
<1>3. CASE u \notin lost /\ Tape!GoBack(u) /\ (Tape!NoData(u) \/ (head[u] # 0 /\ Tape!Data(u, words, n)))
  <2>1. PICK j \in Nat : AtBlock(u, j)
    BY <1>1, <1>3, AtRest
  <2>2. PICK p, i, cs, b : MovesTo(u, p, i, cs, b) /\ WentBack(u, j, i, cs)
    BY <1>1, <1>2, <1>3, <2>1, GoesBack
  <2>3. ReelTypes' /\ HeadTypes' /\ (\A v \in Units : OnReel(v)' /\ Placed(v)') /\ Shows(u, i, cs)
    BY <1>2, <2>2, MotionKeeps
  <2>4. /\ TransferTypes' /\ tapeLength'[u] <= bp'[u]
        /\ Tape!Given' = <<>> \/ (j > 0 /\ ReadBack(Tape!Given', recorded[u][j]))
    <3>1. CASE Tape!NoData(u)
      <4>1. Tape!Empty(u) /\ UNCHANGED <<bp, ioBuffer>>
        BY <3>1 DEF Tape!NoData
      <4>2. TransferTypes' /\ tapeLength'[u] = 0
        BY <4>1, <1>2, EmptyIs
      <4>3. bp'[u] \in 0..MaxRecord
        BY <4>2, <1>2 DEF TransferTypes
      <4>4. Tape!Given' = <<>>
        BY <4>2, <1>1, NothingGiven
      <4> QED
        BY <4>2, <4>3, <4>4, Record0
    <3>2. CASE head[u] # 0 /\ Tape!Data(u, words, n)
      <4>1. j > 0 /\ RecordAt(u, j) /\ head[u] = ends[u][j]
        BY <3>2, <2>1 DEF AtBlock
      <4>2. PICK block \in Seq(Nat) : block = recorded[u][j] /\ Len(block) <= MaxRecord
        BY <4>1 DEF RecordAt
      <4>3. n = Len(block)
        BY <4>1, <4>2 DEF RecordAt
      <4>4. words = block
        BY <4>1, <4>2, <4>3 DEF RecordAt
      <4>5. Tape!Data(u, block, n) /\ n \in 0..MaxRecord
        BY <3>2, <4>2, <4>3, <4>4, Record0
      <4>6. /\ TransferTypes' /\ tapeLength'[u] = Len(block) /\ bp'[u] = Len(block)
            /\ \A k \in 1..Len(block) : ioBuffer'[u][k - 1] = block[k]
        BY <4>2, <4>3, <4>5, <1>2, DataIs
      <4>7. ReadBack(Tape!Given', block)
        BY <1>1, <1>2, <4>6, BackwardGiven
      <4> QED
        BY <4>1, <4>2, <4>6, <4>7
    <3> QED
      BY <1>3, <3>1, <3>2
  <2>5. TapeFlowTypes' /\ InBuffer'
    BY <1>1, <1>2, <2>4, FlowIs
  <2>6. Tape!DriveStep
    BY <1>2, <1>3, <2>1, <2>2, <2>3, <2>4, BackStep
  <2> QED
    BY <2>3, <2>5, <2>6 DEF TInv
<1>4. CASE u \in lost /\ Tape!BackAstray(u) /\ Tape!UnknownBackward(u)
  <2>1. ReelTypes' /\ HeadTypes' /\ (\A v \in Units : OnReel(v)' /\ Placed(v)') /\ Tape!DriveStep
    BY <1>1, <1>2, <1>4, BackAstrayKeeps
  <2>2. TransferTypes' /\ tapeLength'[u] <= bp'[u]
    BY <1>2, <1>4, UnknownIs
  <2>3. TapeFlowTypes' /\ InBuffer'
    BY <1>1, <1>2, <2>2, FlowIs
  <2> QED
    BY <2>1, <2>3 DEF TInv
<1> QED
  BY <1>1, <1>3, <1>4

\* Fc669ClearUnit and the like.
LEMMA ClearKeeps == ASSUME TInv, Tape!ClearUnit PROVE TInv' /\ Tape!DriveStep
<1>1. /\ ~active /\ tapeFcode' = "motion" /\ Tape!Empty(tapeUnit)
      /\ UNCHANGED <<bp, ioBuffer, tapeUnit, active, file, fcb, image, recorded, ends, anyWrite, crashed,
                     writes, loads, head, lost, deviceStatus, blockNo, counted>>
  BY DEF Tape!ClearUnit, Tape!Function, Tape!NoData, Tape!unmoving, Tape!reels, Tape!position
<1>2. ~anyWrite /\ Tape!Given = <<>> /\ tapeUnit \in Units /\ TransferTypes
  BY <1>1, AtRest
<1>3. ReelTypes' /\ HeadTypes' /\ \A v \in Units : OnReel(v)' /\ Placed(v)'
  BY <1>1, <1>2, Remains
<1>4. TransferTypes'
  BY <1>1, <1>2, EmptyIs
<1>5. TapeFlowTypes' /\ InBuffer'
  BY <1>1, <1>2, <1>4, FlowIs
<1>6. Tape!Given' = <<>>
  BY <1>1, NothingGiven
<1>7. Tape!DriveStep
  BY <1>1, <1>2, <1>6, Stutters
<1> QED
  BY <1>3, <1>5, <1>7 DEF TInv

\* Selecting another unit changes nothing on the drives.
LEMMA ConnectedKeeps ==
    ASSUME TInv, ~active, tapeUnit' \in Units, tapeFcode' \in {"motion", tapeFcode},
           UNCHANGED <<tapeLength, bp, ioBuffer, devLength, active, file, fcb, image, recorded, ends,
                       anyWrite, crashed, writes, head, lost, deviceStatus, blockNo, counted>>
    PROVE  TInv' /\ Tape!DriveStep
<1>1. ~anyWrite /\ Tape!Given = <<>> /\ TransferTypes
  BY AtRest
<1>2. ReelTypes' /\ HeadTypes' /\ \A v \in Units : OnReel(v)' /\ Placed(v)'
  BY <1>1, Remains
<1>3. TransferTypes'
  BY <1>1 DEF TransferTypes
<1>4. TapeFlowTypes' /\ InBuffer'
  BY <1>1, <1>3, FlowIs
<1>5. Tape!Given' = <<>>
  BY NothingGiven
<1>6. Tape!DriveStep
  BY <1>1, <1>5, Stutters
<1> QED
  BY <1>2, <1>4, <1>6 DEF TInv

\* The same for the function that does nothing else; between a write and its words the two units
\* are no longer counted.
LEMMA ConnectUnitKeeps == ASSUME TInv, NEW u \in Units, Tape!Connect(u) PROVE TInv' /\ Tape!DriveStep
<1>1. /\ active => tapeFcode = "write" /\ devLength = 0
      /\ tapeUnit' = u
      /\ counted' = IF active /\ u # tapeUnit THEN counted \ {u, tapeUnit} ELSE counted
      /\ UNCHANGED <<tapeFcode, tapeLength, bp, ioBuffer, devLength, active, file, fcb, image, recorded,
                     ends, anyWrite, crashed, writes, head, lost, deviceStatus, blockNo>>
  BY DEF Tape!Connect, Tape!transfer, Tape!unmoving, Tape!reels
<1>2. CASE ~active
  <2>1. counted' = counted
    BY <1>1, <1>2
  <2> QED
    BY <1>1, <1>2, <2>1, ConnectedKeeps
<1>3. CASE active
  <2>1. tapeFcode = "write" /\ devLength = 0 /\ anyWrite
    BY <1>1, <1>3 DEF TInv, InBuffer
  <2>2. /\ counted' \subseteq counted
        /\ \A v \in Units : v \in counted' => (v = tapeUnit <=> v = u)
    BY <1>1, <1>3
  <2>3. ReelTypes' /\ HeadTypes'
    BY <1>1, <2>2 DEF TInv, ReelTypes, HeadTypes
  <2>4. TapeFlowTypes' /\ InBuffer'
    <3>1. TapeFlowTypes'
      BY <1>1 DEF TInv, TapeFlowTypes
    <3>2. 0 <= bp[u]
      BY Record0 DEF TInv, TapeFlowTypes
    <3>3. u \in counted' => image[u].ring
      <4>1. u \in counted' => u = tapeUnit /\ u \in counted
        BY <2>2
      <4> QED
        BY <4>1, <2>1 DEF TInv, InBuffer
    <3>4. InBuffer'
      BY <1>1, <1>3, <2>1, <3>2, <3>3 DEF InBuffer
    <3> QED
      BY <3>1, <3>4
  <2>5. ASSUME NEW v \in Units PROVE OnReel(v)' /\ Placed(v)'
    <3>1. OnReel(v)' /\ Placed(v)
      BY <1>1 DEF TInv, OnReel
    <3>2. CASE v \in lost /\ head[v] = 0
      BY <1>1, <3>1, <3>2 DEF Placed
    <3>3. CASE v \notin lost
      <4>1. PICK k \in Nat : HeadAt(v, k) /\ CountIs(v, IF anyWrite /\ v = tapeUnit THEN k + 1 ELSE k)
        BY <3>1, <3>3 DEF Placed
      <4>2. HeadAt(v, k)'
        BY <4>1, <1>1 DEF HeadAt
      <4>3. CountIs(v, IF anyWrite /\ v = tapeUnit THEN k + 1 ELSE k)'
        <5>1. v \in counted' => v \in counted /\ (v = tapeUnit <=> v = tapeUnit')
          BY <1>1, <2>2
        <5> QED
          BY <5>1, <4>1, <1>1 DEF CountIs
      <4> QED
        BY <3>1, <3>3, <4>2, <4>3, <1>1 DEF Placed
    <3> QED
      BY <3>1, <3>2, <3>3 DEF Placed
  <2>6. Tape!Given = <<>> /\ Tape!Given' = <<>>
    BY <1>1, <2>1 DEF Tape!Given
  <2>7. Tape!DriveStep
    BY <1>1, <2>6, Stutters
  <2> QED
    BY <2>3, <2>4, <2>5, <2>7 DEF TInv
<1> QED
  BY <1>2, <1>3

\* The words of the block before which the head was.
LEMMA UnpackedIs ==
    ASSUME TInv, TransferTypes, NEW u \in Units, NEW j \in 0..Len(recorded[u]), NEW p,
           p = Tape!Behind(ends[u], j), Tape!Unpacked(u, p),
           u \in fcb /\ j = Len(recorded[u]) => p >= Len(file[u]),
           active', tapeFcode' = "readfwd", tapeUnit' = u
    PROVE  /\ TransferTypes' /\ bp'[u] + tapeLength'[u] <= MaxRecord
           /\ IF u \in fcb /\ j < Len(recorded[u]) THEN Tape!Given' = recorded[u][j + 1]
                                                   ELSE Tape!Given' = <<>>
<1>1. Len(ends[u]) = Len(recorded[u]) /\ Len(recorded[u]) \in Nat /\ j \in Nat
  BY EndsAre
<1>2. ASSUME Tape!NoData(u) PROVE TransferTypes' /\ bp'[u] + tapeLength'[u] <= MaxRecord /\ Tape!Given' = <<>>
  <2>1. Tape!Empty(u) /\ UNCHANGED <<bp, ioBuffer>>
    BY <1>2 DEF Tape!NoData
  <2>2. TransferTypes' /\ tapeLength'[u] = 0
    BY <2>1, EmptyIs
  <2>3. bp'[u] \in 0..MaxRecord
    BY <2>2 DEF TransferTypes
  <2>4. Tape!Given' = <<>>
    BY <2>2, NothingGiven
  <2> QED
    BY <2>2, <2>3, <2>4, Record0
<1>3. CASE u \in fcb /\ j < Len(recorded[u])
  <2>1. j + 1 \in 1..Len(ends[u]) /\ (j + 1) - 1 = j
    BY <1>1, <1>3
  <2>2. RecordAt(u, j + 1)
    BY <2>1, RecordsAt
  <2>3. PICK block \in Seq(Nat) : block = recorded[u][j + 1] /\ Len(block) <= MaxRecord
    BY <2>2 DEF RecordAt
  <2>4. Tape!Cell(file[u], p).v = Len(block) /\ Tape!Body(file[u], p, Len(block)) = block
    BY <2>1, <2>2, <2>3 DEF RecordAt
  <2>5. CASE Len(block) = 0
    <3>1. Tape!NoData(u) /\ block = <<>>
      BY <2>3, <2>4, <2>5 DEF Tape!Unpacked
    <3> QED
      BY <3>1, <1>2, <1>3, <2>3
  <2>6. CASE Len(block) # 0
    <3>1. Tape!Data(u, block, 0)
      BY <1>3, <2>4, <2>6 DEF Tape!Unpacked, Tape!Ready
    <3>2. /\ TransferTypes' /\ tapeLength'[u] = Len(block) /\ bp'[u] = 0
          /\ \A i \in 1..Len(block) : ioBuffer'[u][i - 1] = block[i]
      BY <2>3, <3>1, DataIs, Record0
    <3>3. Tape!Given' = block
      BY <2>3, <3>2, WordsGiven
    <3>4. bp'[u] + tapeLength'[u] <= MaxRecord
      BY <2>3, <3>2
    <3> QED
      BY <3>2, <3>3, <3>4, <1>3, <2>3
  <2> QED
    BY <2>5, <2>6
<1>4. CASE u \in fcb /\ ~(j < Len(recorded[u]))
  <2>1. p >= Len(file[u]) /\ Len(file[u]) \in Nat /\ p \in Nat
    BY <1>1, <1>4, StartIsZero DEF TInv, ReelTypes
  <2>2. Tape!Cell(file[u], p) = Tape!Nothing
    BY <2>1 DEF Tape!Cell
  <2>3. Tape!Nothing.v = 0
    BY DEF Tape!Nothing
  <2>4. Tape!NoData(u)
    BY <2>2, <2>3 DEF Tape!Unpacked
  <2> QED
    BY <1>2, <1>4, <2>4
<1>5. CASE u \notin fcb
  <2>1. Tape!NoData(u)
    BY <1>5 DEF Tape!Unpacked, Tape!Ready
  <2> QED
    BY <1>2, <1>5, <2>1
<1> QED
  BY <1>3, <1>4, <1>5

\* From the head on: at the end of what is recorded the file ends too.
LEMMA FromHead ==
    ASSUME TInv, ~anyWrite, NEW u \in Units, Tape!Known(u, head[u])
    PROVE  /\ u \notin lost /\ blockNo[u] \in Int
           /\ \E j \in Nat :
                 /\ AtBlock(u, j) /\ j \in 0..Len(recorded[u]) /\ head[u] = Tape!Behind(ends[u], j)
                 /\ u \in fcb /\ u \in counted => blockNo[u] = j
                 /\ j = 0 /\ blockNo[u] = 0 => blockNo[u] = j
                 /\ u \in fcb /\ j = Len(recorded[u]) => head[u] >= Len(file[u])
<1>1. u \notin lost /\ ~Tape!Leftover(u, head[u])
  BY DEF Tape!Known
<1>2. PICK j \in Nat : AtBlock(u, j)
  BY <1>1, BlockBehind
<1>3. /\ j \in 0..Len(recorded[u]) /\ head[u] = Tape!Behind(ends[u], j) /\ blockNo[u] \in Int
      /\ head[u] \in Nat /\ Len(file[u]) \in Nat
  <2>1. Len(recorded[u]) \in Nat
    BY EndsAre
  <2> QED
    BY <2>1, <1>2 DEF AtBlock, HeadAt, TInv, HeadTypes, ReelTypes
<1>4. u \in fcb /\ u \in counted => blockNo[u] = j
  BY <1>2 DEF AtBlock, CountIs
<1>5. ASSUME u \in fcb, j = Len(recorded[u]) PROVE head[u] >= Len(file[u])
  <2>1. head[u] = Tape!End(u)
    BY <1>2, <1>5 DEF AtBlock
  <2>2. ~(head[u] < Len(file[u]))
    BY <1>1, <1>5, <2>1 DEF Tape!Leftover, Tape!Ready
  <2> QED
    BY <2>2, <1>3
<1> QED
  BY <1>1, <1>2, <1>3, <1>4, <1>5

\* Forward on a lost drive, or into the rest of an older recording.
LEMMA ForwardAstray ==
    ASSUME TInv, NEW u \in Units, Tape!Astray(u), UNCHANGED <<file, fcb, image, recorded, ends>>,
           ~anyWrite, ~anyWrite',
           \/ u \in lost
           \/ /\ u \in fcb /\ Tape!End(u) < Len(file[u])
              /\ Tape!Passed(u) = Len(recorded[u]) \/ recorded[u] = <<>>
    PROVE  ReelTypes' /\ HeadTypes' /\ (\A v \in Units : OnReel(v)' /\ Placed(v)') /\ Tape!DriveStep
<1>1. u \in fcb
  BY DEF TInv, ReelTypes
<1>2. Strays(u, {"astray"}, blockNo[u])
  BY AstrayStrays
<1>3. /\ ReelTypes' /\ HeadTypes' /\ (\A v \in Units : OnReel(v)' /\ Placed(v)')
      /\ Tape!Drive!Moves(u) /\ u \in lost'
  BY <1>1, <1>2, StrayKeeps
<1>4. CASE u \in lost
  <2>1. Tape!Drive!Wander(u)
    BY <1>3, <1>4 DEF Tape!Drive!Wander
  <2> QED
    BY <1>3, <2>1, MotionStep
<1>5. CASE /\ u \in fcb /\ Tape!End(u) < Len(file[u])
           /\ Tape!Passed(u) = Len(recorded[u]) \/ recorded[u] = <<>>
  <2>1. u \in {v \in fcb : Tape!End(v) < Len(file[v])}
    BY <1>5
  <2>2. [v \in Units |-> Tape!Passed(v)][u] = Len(recorded[u]) \/ recorded[u] = <<>>
    BY <1>5
  <2>3. Tape!Drive!GetsLost(u)
    BY <1>1, <1>3, <2>1, <2>2 DEF Tape!Drive!GetsLost
  <2> QED
    BY <1>3, <2>3, MotionStep
<1> QED
  BY <1>4, <1>5

\* At the head.
LEMMA FromUnknown ==
    ASSUME TInv, NEW u \in Units, ~Tape!Known(u, head[u]), Tape!Astray(u),
           UNCHANGED <<file, fcb, image, recorded, ends>>, ~anyWrite, ~anyWrite'
    PROVE  ReelTypes' /\ HeadTypes' /\ (\A v \in Units : OnReel(v)' /\ Placed(v)') /\ Tape!DriveStep
<1>1. CASE u \in lost
  BY <1>1, ForwardAstray
<1>2. CASE u \notin lost
  <2>1. u \in fcb /\ head[u] = Tape!End(u) /\ head[u] < Len(file[u])
    BY <1>2 DEF Tape!Known, Tape!Leftover, Tape!Ready
  <2>2. PICK j \in Nat : AtBlock(u, j)
    BY <1>2, BlockBehind
  <2>3. j = Len(recorded[u])
    <3>1. j <= Len(recorded[u]) /\ ~(j < Len(recorded[u])) /\ Len(recorded[u]) \in Nat
      BY <2>1, <2>2, EndsAre DEF AtBlock
    <3> QED
      BY <3>1
  <2>4. Tape!Passed(u) = Len(recorded[u])
    BY <2>2, <2>3 DEF AtBlock
  <2> QED
    BY <2>1, <2>4, ForwardAstray
<1> QED
  BY <1>1, <1>2

\* mt669FuncForespace.
LEMMA ForespaceKeeps == ASSUME TInv, Tape!Forespace PROVE TInv' /\ Tape!DriveStep
<1> DEFINE u == tapeUnit
<1>1. /\ ~active /\ tapeFcode' = "motion"
      /\ \/ Tape!Known(u, head[u]) /\ Tape!GoForward(u, head[u], blockNo[u])
         \/ ~Tape!Known(u, head[u]) /\ Tape!Astray(u)
      /\ Tape!Empty(u) /\ (bp' = bp \/ bp' = [bp EXCEPT ![u] = 0])
      /\ UNCHANGED <<ioBuffer, tapeUnit, active, file, fcb, image, recorded, ends, anyWrite, crashed,
                     writes, loads>>
  BY DEF Tape!Forespace, Tape!Function, Tape!unmoving, Tape!reels
<1>2. ~anyWrite /\ ~anyWrite' /\ u \in Units /\ TransferTypes
  BY <1>1, AtRest
<1>3. TransferTypes'
  BY <1>1, <1>2, EmptyIs
<1>4. TapeFlowTypes' /\ InBuffer'
  BY <1>1, <1>2, <1>3, FlowIs
<1>5. Tape!Given' = <<>>
  BY <1>1, NothingGiven
<1>6. CASE Tape!Known(u, head[u]) /\ Tape!GoForward(u, head[u], blockNo[u])
  <2>1. u \notin lost /\ blockNo[u] \in Int
    BY <1>2, <1>6, FromHead
  <2>2. PICK j \in Nat :
           /\ AtBlock(u, j) /\ j \in 0..Len(recorded[u]) /\ head[u] = Tape!Behind(ends[u], j)
           /\ u \in fcb /\ u \in counted => blockNo[u] = j
           /\ j = 0 /\ blockNo[u] = 0 => blockNo[u] = j
           /\ u \in fcb /\ j = Len(recorded[u]) => head[u] >= Len(file[u])
    BY <1>2, <1>6, FromHead
  <2>3. PICK q, i, cs, c : MovesTo(u, q, i, cs, c) /\ WentForward(u, j, i, cs)
    BY <1>1, <1>2, <1>6, <2>1, <2>2, GoesForward
  <2>4. ReelTypes' /\ HeadTypes' /\ (\A v \in Units : OnReel(v)' /\ Placed(v)') /\ Shows(u, i, cs)
    BY <1>2, <2>3, MotionKeeps
  <2>5. Tape!DriveStep
    BY <1>2, <1>5, <2>1, <2>2, <2>3, <2>4, ForwardStep
  <2> QED
    BY <1>4, <2>4, <2>5 DEF TInv
<1>7. CASE ~Tape!Known(u, head[u]) /\ Tape!Astray(u)
  <2>1. ReelTypes' /\ HeadTypes' /\ (\A v \in Units : OnReel(v)' /\ Placed(v)') /\ Tape!DriveStep
    BY <1>1, <1>2, <1>7, FromUnknown
  <2> QED
    BY <2>1, <1>4 DEF TInv
<1> QED
  BY <1>1, <1>6, <1>7

\* mt669FuncRead.
LEMMA ReadFwdKeeps == ASSUME TInv, Tape!ReadFwd PROVE TInv' /\ Tape!DriveStep
<1> DEFINE u == tapeUnit
<1>1. /\ ~active /\ tapeFcode' = "readfwd" /\ active' = TRUE
      /\ \/ /\ Tape!Known(u, head[u]) /\ Tape!GoForward(u, head[u], blockNo[u])
            /\ Tape!Unpacked(u, head[u])
         \/ ~Tape!Known(u, head[u]) /\ Tape!Astray(u) /\ Tape!UnknownForward(u)
      /\ UNCHANGED <<tapeUnit, file, fcb, image, recorded, ends, anyWrite, crashed, writes, loads>>
  BY DEF Tape!ReadFwd, Tape!Function, Tape!unmoving, Tape!reels
<1>2. ~anyWrite /\ ~anyWrite' /\ u \in Units /\ TransferTypes
  BY <1>1, AtRest
<1>3. CASE /\ Tape!Known(u, head[u]) /\ Tape!GoForward(u, head[u], blockNo[u])
           /\ Tape!Unpacked(u, head[u])
  <2>1. u \notin lost /\ blockNo[u] \in Int
    BY <1>2, <1>3, FromHead
  <2>2. PICK j \in Nat :
           /\ AtBlock(u, j) /\ j \in 0..Len(recorded[u]) /\ head[u] = Tape!Behind(ends[u], j)
           /\ u \in fcb /\ u \in counted => blockNo[u] = j
           /\ j = 0 /\ blockNo[u] = 0 => blockNo[u] = j
           /\ u \in fcb /\ j = Len(recorded[u]) => head[u] >= Len(file[u])
    BY <1>2, <1>3, FromHead
  <2>3. PICK q, i, cs, c : MovesTo(u, q, i, cs, c) /\ WentForward(u, j, i, cs)
    BY <1>1, <1>2, <1>3, <2>1, <2>2, GoesForward
  <2>4. ReelTypes' /\ HeadTypes' /\ (\A v \in Units : OnReel(v)' /\ Placed(v)') /\ Shows(u, i, cs)
    BY <1>2, <2>3, MotionKeeps
  <2>5. /\ TransferTypes' /\ bp'[u] + tapeLength'[u] <= MaxRecord
        /\ IF u \in fcb /\ j < Len(recorded[u]) THEN Tape!Given' = recorded[u][j + 1]
                                                ELSE Tape!Given' = <<>>
    BY <1>1, <1>2, <1>3, <2>2, UnpackedIs
  <2>6. TapeFlowTypes' /\ InBuffer'
    BY <1>1, <1>2, <2>5, FlowIs
  <2>7. Tape!DriveStep
    BY <1>2, <2>1, <2>2, <2>3, <2>4, <2>5, ForwardStep
  <2> QED
    BY <2>4, <2>6, <2>7 DEF TInv
<1>4. CASE ~Tape!Known(u, head[u]) /\ Tape!Astray(u) /\ Tape!UnknownForward(u)
  <2>1. ReelTypes' /\ HeadTypes' /\ (\A v \in Units : OnReel(v)' /\ Placed(v)') /\ Tape!DriveStep
    BY <1>1, <1>2, <1>4, FromUnknown
  <2>2. TransferTypes' /\ bp'[u] + tapeLength'[u] <= MaxRecord
    BY <1>2, <1>4, UnknownIs
  <2>3. TapeFlowTypes' /\ InBuffer'
    BY <1>1, <1>2, <2>2, FlowIs
  <2> QED
    BY <2>1, <2>3 DEF TInv
<1> QED
  BY <1>1, <1>3, <1>4

\* The function that connects, rewinds and reads.
LEMMA RewindReadKeeps ==
    ASSUME TInv, NEW u \in Units, Tape!ConnectRewindRead(u)
    PROVE  TInv' /\ Tape!DriveStep
<1>1. /\ ~active /\ tapeUnit' = u
      /\ UNCHANGED <<file, fcb, image, recorded, ends, anyWrite, crashed, writes, loads>>
  BY DEF Tape!ConnectRewindRead, Tape!Function, Tape!unmoving, Tape!reels
<1>2. ~anyWrite /\ ~anyWrite' /\ TransferTypes
  BY <1>1, AtRest
<1>3. CASE u \notin fcb
  <2>1. /\ tapeFcode' = "motion"
        /\ UNCHANGED <<tapeLength, bp, ioBuffer, devLength, active, head, lost, deviceStatus, blockNo,
                       counted>>
    BY <1>3 DEF Tape!ConnectRewindRead, Tape!Function, Tape!Ready, Tape!position, Tape!transfer
  <2> QED
    BY <1>1, <2>1, ConnectedKeeps
<1>4. ASSUME u \in fcb PROVE tapeFcode' = "readfwd" /\ active' = TRUE
  BY <1>4 DEF Tape!ConnectRewindRead, Tape!Function, Tape!Ready
<1>5. CASE u \in fcb /\ Tape!Leftover(u, 0) /\ Tape!Astray(u) /\ Tape!UnknownForward(u)
  <2>1. 0 = Tape!End(u) /\ 0 < Len(file[u])
    BY <1>5 DEF Tape!Leftover
  <2>2. recorded[u] = <<>>
    <3>1. /\ ends[u] \in Seq(Nat) /\ Len(ends[u]) = Len(recorded[u])
          /\ Len(ends[u]) \in Nat /\ recorded[u] \in Seq(Tape!ABlock)
          /\ \A i \in 1..Len(ends[u]) : ends[u][i] > 0
      BY EndsAre DEF TInv, ReelTypes
    <3>2. Len(recorded[u]) = 0
      <4>1. ASSUME Len(recorded[u]) # 0 PROVE FALSE
        <5>1. Len(ends[u]) \in 1..Len(ends[u])
          BY <3>1, <4>1
        <5>2. Tape!End(u) = ends[u][Len(ends[u])]
          BY <3>1, <4>1 DEF Tape!End, Tape!Behind
        <5> QED
          BY <5>1, <5>2, <3>1, <2>1
      <4> QED
        BY <4>1
    <3>3. PICK r \in Seq(Tape!ABlock) : r = recorded[u]
      BY <3>1
    <3>4. Len(r) = 0
      BY <3>2, <3>3
    <3>5. r = <<>>
      BY <3>4
    <3> QED
      BY <3>3, <3>5
  <2>3. ReelTypes' /\ HeadTypes' /\ (\A v \in Units : OnReel(v)' /\ Placed(v)') /\ Tape!DriveStep
    BY <1>1, <1>2, <1>5, <2>1, <2>2, ForwardAstray
  <2>4. TransferTypes' /\ bp'[u] + tapeLength'[u] <= MaxRecord
    BY <1>2, <1>5, UnknownIs
  <2>5. TapeFlowTypes' /\ InBuffer'
    BY <1>1, <1>2, <1>4, <1>5, <2>4, FlowIs
  <2> QED
    BY <2>3, <2>5 DEF TInv
<1>6. CASE u \in fcb /\ ~Tape!Leftover(u, 0) /\ Tape!GoForward(u, 0, 0) /\ Tape!Unpacked(u, 0)
  <2>1. /\ recorded[u] \in Seq(Tape!ABlock) /\ 0 \in 0..Len(recorded[u]) /\ 0 = Tape!Behind(ends[u], 0)
        /\ Len(file[u]) \in Nat /\ Len(ends[u]) = Len(recorded[u])
    BY EndsAre DEF Tape!Behind, TInv, ReelTypes
  <2>2. 0 = Len(recorded[u]) => 0 >= Len(file[u])
    <3>1. 0 = Len(recorded[u]) => Tape!End(u) = 0
      BY <2>1 DEF Tape!End, Tape!Behind
    <3>2. Tape!End(u) = 0 => ~(0 < Len(file[u]))
      BY <1>6 DEF Tape!Leftover, Tape!Ready
    <3> QED
      BY <3>1, <3>2, <2>1
  <2>3. PICK q, i, cs, c : MovesTo(u, q, i, cs, c) /\ WentForward(u, 0, i, cs)
    BY <1>1, <1>6, <2>1, <2>2, GoesForward
  <2>4. ReelTypes' /\ HeadTypes' /\ (\A v \in Units : OnReel(v)' /\ Placed(v)') /\ Shows(u, i, cs)
    BY <1>2, <2>3, MotionKeeps
  <2>5. /\ TransferTypes' /\ bp'[u] + tapeLength'[u] <= MaxRecord
        /\ IF u \in fcb /\ 0 < Len(recorded[u]) THEN Tape!Given' = recorded[u][0 + 1]
                                                ELSE Tape!Given' = <<>>
    BY <1>1, <1>2, <1>4, <1>6, <2>1, <2>2, UnpackedIs
  <2>6. TapeFlowTypes' /\ InBuffer'
    BY <1>1, <1>2, <1>4, <1>6, <2>5, FlowIs
  <2>7. IF recorded[u] = <<>> THEN Tape!Given' = <<>> ELSE Tape!Given' = recorded[u][1]
    <3>1. Len(recorded[u]) \in Nat /\ (recorded[u] = <<>> <=> Len(recorded[u]) = 0) /\ 0 + 1 = 1
      BY <2>1
    <3> QED
      BY <3>1, <2>5, <1>6
  <2>8. Tape!DriveStep
    BY <1>6, <2>2, <2>3, <2>4, <2>7, RewoundStep
  <2> QED
    BY <2>4, <2>6, <2>8 DEF TInv
<1> QED
  BY <1>3, <1>5, <1>6 DEF Tape!ConnectRewindRead, Tape!Ready

\* Words taken from the channel change nothing on the reels.
LEMMA ReelsStay ==
    ASSUME TInv, UNCHANGED <<file, fcb, image, recorded, ends, head, lost, deviceStatus, blockNo,
                             counted, anyWrite, tapeUnit>>
    PROVE  ReelTypes' /\ HeadTypes' /\ \A v \in Units : OnReel(v)' /\ Placed(v)'
<1>1. ASSUME NEW v \in Units PROVE OnReel(v)' /\ Placed(v)'
  BY DEF TInv, OnReel, Placed, HeadAt, CountIs
<1> QED
  BY <1>1 DEF TInv, ReelTypes, HeadTypes

\* Nor does the number of blocks behind a head.
LEMMA PassedStays ==
    ASSUME UNCHANGED <<ends, head>>
    PROVE  UNCHANGED [u \in Units |-> Tape!Passed(u)]
<1>1. \A u : Tape!Passed(u)' = Tape!Passed(u)
  BY DEF Tape!Passed
<1> QED
  BY <1>1

\* mt669Io gives the PP the next word, in the direction of the function.
LEMMA ReadWordKeeps == ASSUME TInv, Tape!ReadWord PROVE TInv' /\ Tape!DriveStep
<1> DEFINE u == tapeUnit
<1>1. /\ active /\ tapeFcode \in {"readfwd", "readbkw"} /\ tapeLength[u] > 0
      /\ tapeLength' = [tapeLength EXCEPT ![u] = @ - 1]
      /\ bp' = [bp EXCEPT ![u] = IF tapeFcode = "readfwd" THEN @ + 1 ELSE @ - 1]
      /\ active' = (tapeLength[u] > 1)
      /\ UNCHANGED <<ioBuffer, devLength, file, fcb, image, recorded, ends, head, lost, deviceStatus,
                     blockNo, counted, tapeUnit, tapeFcode, anyWrite, crashed, writes, loads>>
  BY DEF Tape!ReadWord, Tape!untransferred, Tape!reels, Tape!position
<1>2. PICK n, b, buf : n = tapeLength[u] /\ b = bp[u] /\ buf = ioBuffer[u]
  OBVIOUS
<1>3. u \in Units /\ n \in 0..MaxRecord /\ b \in 0..MaxRecord /\ n > 0 /\ MaxRecord \in Nat
  BY <1>1, <1>2, Record0 DEF TInv, TapeFlowTypes
<1>4. (tapeFcode = "readfwd" => b + n <= MaxRecord) /\ (tapeFcode = "readbkw" => n <= b) /\ ~anyWrite
  BY <1>1, <1>2 DEF TInv, InBuffer
<1>5. PICK c : c = IF tapeFcode = "readfwd" THEN b + 1 ELSE b - 1
  OBVIOUS
<1>6. n - 1 \in 0..MaxRecord /\ c \in 0..MaxRecord
  <2>1. CASE tapeFcode = "readfwd"
    BY <2>1, <1>3, <1>4, <1>5
  <2>2. CASE tapeFcode = "readbkw"
    BY <2>2, <1>3, <1>4, <1>5
  <2> QED
    BY <1>1, <2>1, <2>2
<1>7. tapeLength' = [tapeLength EXCEPT ![u] = n - 1] /\ bp' = [bp EXCEPT ![u] = c]
  BY <1>1, <1>2, <1>5
<1>8. /\ tapeLength' \in [Units -> 0..MaxRecord] /\ bp' \in [Units -> 0..MaxRecord]
      /\ tapeLength'[u] = n - 1 /\ bp'[u] = c
  BY <1>3, <1>6, <1>7 DEF TInv, TapeFlowTypes
<1>9. TapeFlowTypes'
  <2>1. active' \in BOOLEAN
    BY <1>1
  <2> QED
    BY <2>1, <1>1, <1>8 DEF TInv, TapeFlowTypes
<1>10. InBuffer'
  <2>1. anyWrite' = FALSE /\ tapeFcode' # "write" /\ tapeUnit' = u
    BY <1>1, <1>4 DEF TInv, TapeFlowTypes
  <2>2. tapeFcode = "readfwd" => c + (n - 1) <= MaxRecord
    BY <1>3, <1>4, <1>5
  <2>3. tapeFcode = "readbkw" => n - 1 <= c
    BY <1>3, <1>4, <1>5
  <2> QED
    BY <2>1, <2>2, <2>3, <1>1, <1>8 DEF InBuffer
<1>11. ReelTypes' /\ HeadTypes' /\ \A v \in Units : OnReel(v)' /\ Placed(v)'
  BY <1>1, ReelsStay
<1>12. PICK g : g = Tape!Given
  OBVIOUS
<1>13. g = [i \in 1..n |-> buf[IF tapeFcode = "readfwd" THEN b + i - 1 ELSE b - i + 1]]
  BY <1>1, <1>2, <1>12 DEF Tape!Given
<1>14. g # <<>> /\ Tail(g) = [i \in 1..(n - 1) |-> g[i + 1]]
  <2>1. buf \in [0..MaxRecord -> Nat]
    BY <1>2, <1>3 DEF TInv, TapeFlowTypes
  <2>2. ASSUME NEW i \in 1..n
        PROVE  buf[IF tapeFcode = "readfwd" THEN b + i - 1 ELSE b - i + 1] \in Nat
    <3>1. tapeFcode = "readfwd" => b + i - 1 \in 0..MaxRecord
      BY <1>3, <1>4
    <3>2. tapeFcode = "readbkw" => b - i + 1 \in 0..MaxRecord
      BY <1>3, <1>4
    <3> QED
      BY <3>1, <3>2, <2>1, <1>1
  <2>3. g \in [1..n -> Nat]
    BY <2>2, <1>13
  <2>4. g \in Seq(Nat) /\ Len(g) = n
    BY <2>3, <1>3
  <2>5. g # <<>>
    BY <2>4, <1>3
  <2>6. PICK t \in Seq(Nat) : t = Tail(g) /\ Len(t) = n - 1 /\ \A i \in 1..(n - 1) : t[i] = g[i + 1]
    <3>1. Tail(g) \in Seq(Nat) /\ Len(Tail(g)) = n - 1
      BY <2>4, <2>5
    <3>2. \A i \in 1..(n - 1) : Tail(g)[i] = g[i + 1]
      BY <2>4, <2>5
    <3> QED
      BY <3>1, <3>2
  <2>7. t = [i \in 1..(n - 1) |-> g[i + 1]]
    <3>1. PICK k \in Nat : k = n - 1
      BY <1>3
    <3>2. t \in Seq(Nat) /\ k = Len(t)
      BY <2>6, <3>1
    <3>3. t = [i \in 1..k |-> t[i]]
      BY <3>2
    <3> QED
      BY <2>6, <3>1, <3>3
  <2> QED
    BY <2>5, <2>6, <2>7
<1>15. Tail(g) = [i \in 1..(n - 1) |-> buf[IF tapeFcode = "readfwd" THEN c + i - 1 ELSE c - i + 1]]
  <2>1. ASSUME NEW i \in 1..(n - 1)
        PROVE  g[i + 1] = buf[IF tapeFcode = "readfwd" THEN c + i - 1 ELSE c - i + 1]
    <3>1. i + 1 \in 1..n
      BY <1>3
    <3>2. b + (i + 1) - 1 = (b + 1) + i - 1 /\ b - (i + 1) + 1 = (b - 1) - i + 1
      BY <1>3
    <3>3. g[i + 1] = buf[IF tapeFcode = "readfwd" THEN b + (i + 1) - 1 ELSE b - (i + 1) + 1]
      BY <3>1, <1>13
    <3> QED
      BY <3>2, <3>3, <1>5
  <2> QED
    BY <2>1, <1>14
<1>16. Tape!Given' = Tail(g)
  <2>0. active' = (n > 1)
    BY <1>1, <1>2, Zenon
  <2>1. CASE n = 1
    <3>0. ~(n > 1)
      BY <2>1
    <3>1. Tape!Given' = <<>>
      BY <2>0, <3>0, NothingGiven, Zenon
    <3>2. Tail(g) = <<>>
      BY <2>1, <1>14
    <3> QED
      BY <3>1, <3>2
  <2>2. CASE n # 1
    <3>0. n > 1
      BY <2>2, <1>3
    <3>1. active' /\ tapeFcode' # "write"
      BY <2>0, <3>0, <1>1
    <3>2. tapeUnit' = u /\ tapeFcode' = tapeFcode /\ ioBuffer'[u] = buf
      BY <1>1, <1>2
    <3>3. Tape!Given' = [i \in 1..(n - 1) |-> buf[IF tapeFcode = "readfwd" THEN c + i - 1 ELSE c - i + 1]]
      BY <3>1, <3>2, <1>8 DEF Tape!Given
    <3> QED
      BY <3>3, <1>15
  <2> QED
    BY <2>1, <2>2
<1>17. Tape!Drive!TakeWord
  BY <1>1, <1>12, <1>14, <1>16, PassedStays, FilesStay DEF Tape!Drive!TakeWord
<1>18. Tape!DriveStep
  BY <1>17 DEF Tape!DriveStep, Tape!Drive!Next
<1> QED
  BY <1>9, <1>10, <1>11, <1>18 DEF TInv

\* The PP takes no more.
LEMMA StopKeeps ==
    ASSUME TInv, ~anyWrite, active' = FALSE,
           UNCHANGED <<tapeLength, bp, ioBuffer, devLength, file, fcb, image, recorded, ends, head,
                       lost, deviceStatus, blockNo, counted, tapeUnit, tapeFcode, anyWrite, crashed,
                       writes>>
    PROVE  TInv' /\ Tape!DriveStep
<1>1. TapeFlowTypes' /\ InBuffer'
  BY DEF TInv, TapeFlowTypes, InBuffer
<1>2. ReelTypes' /\ HeadTypes' /\ \A v \in Units : OnReel(v)' /\ Placed(v)'
  BY ReelsStay
<1>3. Tape!Given' = <<>>
  BY NothingGiven
<1>4. Tape!Drive!StopReading
  BY <1>3, PassedStays, FilesStay DEF Tape!Drive!StopReading
<1>5. Tape!DriveStep
  BY <1>4 DEF Tape!DriveStep, Tape!Drive!Next
<1> QED
  BY <1>1, <1>2, <1>5 DEF TInv

\* All words were taken.
LEMMA ReadEndKeeps == ASSUME TInv, Tape!ReadEnd PROVE TInv' /\ Tape!DriveStep
<1>1. /\ active' = FALSE /\ tapeFcode \in {"readfwd", "readbkw"}
      /\ UNCHANGED <<tapeLength, bp, ioBuffer, devLength, file, fcb, image, recorded, ends, head,
                     lost, deviceStatus, blockNo, counted, tapeUnit, tapeFcode, anyWrite, crashed, writes>>
  BY DEF Tape!ReadEnd, Tape!transfer, Tape!untransferred, Tape!reels, Tape!position
<1>2. ~anyWrite
  BY <1>1 DEF TInv, InBuffer
<1> QED
  BY <1>1, <1>2, StopKeeps

\* mt669Io takes a word from the PP; one that the buffer has no place for ends all.
LEMMA WriteWordKeeps == ASSUME TInv, Tape!WriteWord PROVE TInv' /\ Tape!DriveStep
<1> DEFINE u == tapeUnit
<1>1. /\ active /\ tapeFcode = "write"
      /\ UNCHANGED <<tapeLength, active, file, fcb, image, recorded, ends, head, lost, deviceStatus,
                     blockNo, counted, tapeUnit, tapeFcode, anyWrite, writes, loads>>
      /\ IF bp[u] = MaxRecord
         THEN crashed' = TRUE /\ UNCHANGED <<bp, ioBuffer, devLength>>
         ELSE /\ devLength' = devLength + 1 /\ crashed' = crashed
              /\ ioBuffer' = [ioBuffer EXCEPT ![u][bp[u]] = 10 * writes + devLength]
              /\ bp' = [bp EXCEPT ![u] = @ + 1]
  BY DEF Tape!WriteWord, Tape!untransferred, Tape!transfer, Tape!reels, Tape!position
<1>2. /\ u \in Units /\ devLength \in 0..MaxRecord /\ MaxRecord \in Nat /\ writes \in Nat
      /\ bp \in [Units -> 0..MaxRecord] /\ ioBuffer \in [Units -> [0..MaxRecord -> Nat]]
      /\ crashed \in BOOLEAN
  BY Record0 DEF TInv, TapeFlowTypes
<1>3. anyWrite /\ devLength <= bp[u]
  BY <1>1 DEF TInv, InBuffer
<1>4. TapeFlowTypes' /\ InBuffer'
  <2>1. CASE bp[u] = MaxRecord
    <3>1. crashed' \in BOOLEAN /\ UNCHANGED <<bp, ioBuffer, devLength>>
      BY <2>1, <1>1, Zenon
    <3> QED
      BY <3>1, <1>1 DEF TInv, TapeFlowTypes, InBuffer
  <2>2. CASE bp[u] # MaxRecord
    <3>1. PICK k \in 0..MaxRecord : k = bp[u]
      BY <1>2
    <3>2. PICK x \in Nat : x = 10 * writes + devLength
      BY <1>2
    <3>3. k + 1 \in 0..MaxRecord /\ devLength + 1 \in 0..MaxRecord /\ devLength + 1 <= k + 1
      BY <1>2, <1>3, <2>2, <3>1
    <3>4. /\ devLength' = devLength + 1 /\ crashed' = crashed
          /\ ioBuffer' = [ioBuffer EXCEPT ![u][k] = x] /\ bp' = [bp EXCEPT ![u] = k + 1]
      BY <1>1, <2>2, <3>1, <3>2
    <3>5. bp' \in [Units -> 0..MaxRecord] /\ bp'[u] = k + 1
      BY <3>3, <3>4, <1>2
    <3>6. ioBuffer' \in [Units -> [0..MaxRecord -> Nat]]
      BY <3>4, <1>2
    <3>7. TapeFlowTypes'
      BY <3>3, <3>4, <3>5, <3>6, <1>1 DEF TInv, TapeFlowTypes
    <3>8. InBuffer'
      BY <3>3, <3>4, <3>5, <1>1, <1>3 DEF TInv, InBuffer
    <3> QED
      BY <3>7, <3>8
  <2> QED
    BY <2>1, <2>2
<1>5. ReelTypes' /\ HeadTypes' /\ \A v \in Units : OnReel(v)' /\ Placed(v)'
  BY <1>1, ReelsStay
<1>6. Tape!Given' = Tape!Given
  BY <1>1 DEF Tape!Given
<1>7. Tape!DriveStep
  BY <1>1, <1>6, Stutters
<1> QED
  BY <1>4, <1>5, <1>7 DEF TInv

\* The write function: the block counts from now on.
LEMMA WriteTapeKeeps == ASSUME TInv, Tape!Write PROVE TInv' /\ Tape!DriveStep
<1> DEFINE u == tapeUnit
<1>1. /\ ~active /\ tapeFcode' = "write" /\ u \in fcb /\ image[u].ring
      /\ bp' = [bp EXCEPT ![u] = 0] /\ devLength' = 0
      /\ anyWrite' = TRUE /\ active' = TRUE /\ writes' = writes + 1
      /\ deviceStatus' = [deviceStatus EXCEPT ![u] = {}]
      /\ blockNo' = [blockNo EXCEPT ![u] = @ + 1]
      /\ UNCHANGED <<file, fcb, image, recorded, ends, head, lost, counted, tapeLength, ioBuffer,
                     tapeUnit, crashed, loads>>
  BY DEF Tape!Write, Tape!Function, Tape!MayWrite, Tape!Ready, Tape!reels
<1>2. ~anyWrite /\ Tape!Given = <<>> /\ u \in Units
  BY <1>1, AtRest
<1>3. /\ head \in [Units -> Nat] /\ blockNo \in [Units -> Int]
      /\ deviceStatus \in [Units -> SUBSET Conditions] /\ writes \in Nat
      /\ bp \in [Units -> 0..MaxRecord] /\ 0 \in 0..MaxRecord
  BY Record0 DEF TInv, HeadTypes, TapeFlowTypes
<1>4. /\ deviceStatus' \in [Units -> SUBSET Conditions] /\ blockNo' \in [Units -> Int]
      /\ deviceStatus'[u] = {} /\ blockNo'[u] = blockNo[u] + 1
      /\ \A v \in Units \ {u} : deviceStatus'[v] = deviceStatus[v] /\ blockNo'[v] = blockNo[v]
  BY <1>1, <1>2, <1>3
<1>5. TapeFlowTypes'
  <2>1. bp' \in [Units -> 0..MaxRecord]
    BY <1>1, <1>3
  <2>2. writes' \in Nat
    BY <1>1, <1>3
  <2> QED
    BY <2>1, <2>2, <1>1, <1>3 DEF TInv, TapeFlowTypes
<1>6. InBuffer'
  <2>1. bp'[u] = 0
    BY <1>1, <1>2, <1>3
  <2> QED
    BY <2>1, <1>1 DEF InBuffer
<1>7. ReelTypes' /\ HeadTypes'
  BY <1>1, <1>4 DEF TInv, ReelTypes, HeadTypes
<1>8. ASSUME NEW v \in Units PROVE OnReel(v)' /\ Placed(v)'
  <2>1. OnReel(v)' /\ Placed(v)
    BY <1>1 DEF TInv, OnReel
  <2>2. CASE v \in lost
    <3>1. head[v] = 0
      BY <2>1, <2>2 DEF Placed
    <3> QED
      BY <2>1, <2>2, <3>1, <1>1 DEF Placed
  <2>3. CASE v \notin lost
    <3>1. PICK j \in Nat : HeadAt(v, j) /\ CountIs(v, j)
      BY <1>2, <2>1, <2>3 DEF Placed
    <3>2. HeadAt(v, j)'
      BY <3>1, <1>1 DEF HeadAt
    <3>3. CASE v = u
      <4>1. CountIs(v, j + 1)'
        BY <3>1, <3>3, <1>1, <1>2, <1>3, <1>4 DEF CountIs
      <4> QED
        BY <2>1, <2>3, <3>2, <3>3, <4>1, <1>1 DEF Placed
    <3>4. CASE v # u
      <4>1. CountIs(v, j)'
        BY <3>1, <3>4, <1>1, <1>4 DEF CountIs
      <4> QED
        BY <2>1, <2>3, <3>2, <3>4, <4>1, <1>1 DEF Placed
    <3> QED
      BY <3>3, <3>4
  <2> QED
    BY <2>2, <2>3
<1>9. UNCHANGED [v \in Units |-> Tape!Passed(v)] /\ \A v : Tape!Passed(v)' = Tape!Passed(v)
  BY <1>1, PassedStays DEF Tape!Passed
<1>10. Tape!Given' = Tape!Given
  BY <1>1, <1>2, NothingGiven
<1>11. Tape!DriveStep
  <2>1. Tape!Drive!Moves(u)
    BY <1>1, <1>4, <1>9, FilesStay DEF Tape!Drive!Moves
  <2>2. CASE u \in lost
    <3>1. Tape!Drive!Wander(u)
      BY <2>2, <1>1 DEF Tape!Drive!Wander
    <3> QED
      BY <1>2, <2>1, <3>1, MotionStep
  <2>3. CASE u \notin lost
    <3>1. Tape!Drive!Announce(u)
      BY <1>4, <1>9, <1>10 DEF Tape!Drive!Announce
    <3>2. Tape!Drive!Known(u)
      BY <2>3, <3>1, <1>1 DEF Tape!Drive!Known
    <3> QED
      BY <1>2, <2>1, <3>2, MotionStep
  <2> QED
    BY <2>2, <2>3
<1> QED
  BY <1>5, <1>6, <1>7, <1>8, <1>11 DEF TInv

\* What a write leaves of a file.
LEMMA OverwriteIs ==
    ASSUME NEW f \in Seq(Tape!ACell), NEW cells \in Seq(Tape!ACell), NEW p \in 0..Len(f), NEW g,
           g = Tape!Overwrite(f, p, cells)
    PROVE  /\ g \in Seq(Tape!ACell)
           /\ \A k \in 0..p - 1 : Tape!Cell(g, k) = Tape!Cell(f, k)
           /\ \A k \in 0..Len(cells) - 1 : Tape!Cell(g, p + k) = Tape!Cell(cells, k)
<1>1. PICK m, n : m = Len(f) /\ n = Len(cells) /\ m \in Nat /\ n \in Nat /\ p \in Nat /\ p <= m
  OBVIOUS
<1>2. PICK l : l = IF p + n > m THEN p + n ELSE m
  OBVIOUS
<1>3. l \in Nat /\ l >= m /\ l >= p + n /\ (l = m \/ l = p + n)
  BY <1>1, <1>2
<1>4. g = [i \in 1..l |-> IF i \in (p + 1)..(p + n) THEN cells[i - p] ELSE f[i]]
  BY <1>1, <1>2 DEF Tape!Overwrite
<1>5. ASSUME NEW i \in 1..l
      PROVE  (IF i \in (p + 1)..(p + n) THEN cells[i - p] ELSE f[i]) \in Tape!ACell
  <2>1. i \in (p + 1)..(p + n) => i - p \in 1..n
    BY <1>1
  <2>2. i \notin (p + 1)..(p + n) => i \in 1..m
    BY <1>1, <1>3
  <2> QED
    BY <2>1, <2>2, <1>1
<1>6. g \in [1..l -> Tape!ACell]
  BY <1>4, <1>5
<1>7. g \in Seq(Tape!ACell) /\ Len(g) = l
  BY <1>3, <1>6
<1>8. ASSUME NEW k \in 0..p - 1 PROVE Tape!Cell(g, k) = Tape!Cell(f, k)
  <2>1. k \in 0..(l - 1) /\ k \in 0..(m - 1) /\ k + 1 \in 1..l /\ k + 1 \notin (p + 1)..(p + n)
    BY <1>1, <1>3
  <2>2. g[k + 1] = f[k + 1]
    BY <2>1, <1>4
  <2> QED
    BY <2>1, <2>2, <1>1, <1>7 DEF Tape!Cell
<1>9. ASSUME NEW k \in 0..n - 1 PROVE Tape!Cell(g, p + k) = Tape!Cell(cells, k)
  <2>1. /\ p + k \in 0..(l - 1) /\ p + k + 1 \in 1..l /\ p + k + 1 \in (p + 1)..(p + n)
        /\ (p + k + 1) - p = k + 1
    BY <1>1, <1>3
  <2>2. g[p + k + 1] = cells[k + 1]
    BY <2>1, <1>4
  <2> QED
    BY <2>1, <2>2, <1>1, <1>7 DEF Tape!Cell
<1> QED
  BY <1>1, <1>7, <1>8, <1>9

\* A record is one wherever it is written.
LEMMA RecordMoves ==
    ASSUME NEW cells, NEW g, NEW p \in Nat, NEW n \in Nat, NEW block \in Seq(Nat), NEW padded,
           Tape!IsRecord(cells, 0, n, block, FALSE),
           \A k \in 0..n - 1 : Tape!Cell(g, p + k) = Tape!Cell(cells, k)
    PROVE  Tape!IsRecord(g, p, p + n, block, padded) /\ n > 0
<1>1. PICK m \in Nat : m = Len(block)
  OBVIOUS
<1>2. /\ Tape!Cell(cells, 0) = Tape!Length(m)
      /\ \A i \in 1..m : Tape!Cell(cells, 0 + i) = Tape!Word(block[i])
      /\ Tape!Cell(cells, n - 1) = Tape!Length(m)
      /\ \/ m = 0 /\ n = 1
         \/ m > 0 /\ n = m + 2
  BY <1>1 DEF Tape!IsRecord
<1>3. \A i \in 1..m : Tape!Cell(cells, i) = Tape!Word(block[i])
  BY <1>2
<1>4. /\ 0 \in 0..n - 1 /\ n - 1 \in 0..n - 1 /\ \A i \in 1..m : i \in 0..n - 1
      /\ p + 0 = p /\ p + (n - 1) = (p + n) - 1
  BY <1>2
<1>5. /\ Tape!Cell(g, p) = Tape!Length(m) /\ \A i \in 1..m : Tape!Cell(g, p + i) = Tape!Word(block[i])
      /\ Tape!Cell(g, (p + n) - 1) = Tape!Length(m)
  <2>1. Tape!Cell(g, p + 0) = Tape!Cell(cells, 0) /\ Tape!Cell(g, p + (n - 1)) = Tape!Cell(cells, n - 1)
    BY <1>4
  <2>2. \A i \in 1..m : Tape!Cell(g, p + i) = Tape!Cell(cells, i)
    BY <1>4
  <2> QED
    BY <2>1, <2>2, <1>2, <1>3, <1>4
<1>6. (m = 0 /\ p + n = p + 1) \/ (m > 0 /\ p + n = p + m + 2)
  BY <1>2
<1>7. Tape!IsRecord(g, p, p + n, block, padded)
  BY <1>1, <1>5, <1>6 DEF Tape!IsRecord
<1> QED
  BY <1>2, <1>7

\* A sequence cut short and extended by one.
LEMMA Extended ==
    ASSUME NEW S, NEW s \in Seq(S), NEW j \in 0..Len(s), NEW x \in S, NEW t,
           t = SubSeq(s, 1, j) \o <<x>>
    PROVE  /\ t \in Seq(S) /\ Len(t) = j + 1 /\ t[j + 1] = x /\ \A i \in 1..j : t[i] = s[i]
           /\ SubSeq(t, 1, j) = SubSeq(s, 1, j)
<1>1. PICK c : c = SubSeq(s, 1, j)
  OBVIOUS
<1>2. j \in Nat /\ 1..j \subseteq 1..Len(s)
  OBVIOUS
<1>3. c \in Seq(S) /\ Len(c) = j
  BY <1>1, <1>2
<1>4. \A i \in 1..j : c[i] = s[i]
  BY <1>1, <1>2
<1>5. t \in Seq(S) /\ Len(t) = j + 1 /\ t[j + 1] = x /\ \A i \in 1..j : t[i] = c[i]
  BY <1>1, <1>3
<1>6. SubSeq(t, 1, j) = c
  <2>1. PICK d : d = SubSeq(t, 1, j)
    OBVIOUS
  <2>2. d \in Seq(S) /\ Len(d) = j
    BY <2>1, <1>2, <1>5
  <2>3. \A i \in 1..j : d[i] = t[i]
    BY <2>1, <1>2, <1>5
  <2>4. d = [i \in 1..j |-> d[i]] /\ c = [i \in 1..j |-> c[i]]
    BY <2>2, <1>3
  <2>5. [i \in 1..j |-> d[i]] = [i \in 1..j |-> c[i]]
    BY <2>3, <1>5
  <2> QED
    BY <2>1, <2>4, <2>5
<1> QED
  BY <1>1, <1>4, <1>5, <1>6

\* A record is written at the head of u, and the head is then behind it.
WritesBlock(u, block, cells) ==
    /\ file' = [file EXCEPT ![u] = Tape!Overwrite(@, head[u], cells)]
    /\ Tape!Recorded(u, block, Len(cells))
    /\ head' = [head EXCEPT ![u] = head[u] + Len(cells)]
    /\ UNCHANGED <<fcb, image, counted, lost>>

\* What the drives look like then.
Written(u, j, block) ==
    /\ UNCHANGED <<fcb, image, lost>>
    /\ recorded'[u] \in Seq(Tape!ABlock) /\ Len(recorded'[u]) = j + 1 /\ recorded'[u][j + 1] = block
    /\ SubSeq(recorded'[u], 1, j) = SubSeq(recorded[u], 1, j)
    /\ Tape!Passed(u)' = j + 1
    /\ \A v \in Units \ {u} : recorded'[v] = recorded[v] /\ Tape!Passed(v)' = Tape!Passed(v)
    /\ \A v \in Units \ {u} : file'[v] = file[v] /\ ends'[v] = ends[v]

\* Writing a block leaves those before it, and makes it the last one.
LEMMA BlocksWritten ==
    ASSUME TInv, NEW u \in Units, u \in fcb, NEW j \in Nat, AtBlock(u, j), NEW block \in Tape!ABlock,
           NEW cells \in Seq(Tape!ACell), Tape!IsRecord(cells, 0, Len(cells), block, FALSE),
           WritesBlock(u, block, cells)
    PROVE  /\ ReelTypes' /\ head' \in [Units -> Nat] /\ (\A v \in Units : OnReel(v)') /\ HeadAt(u, j + 1)'
           /\ \A v \in Units \ {u} : \A k \in Nat : HeadAt(v, k) => HeadAt(v, k)'
           /\ Written(u, j, block)
<1>1. PICK f, e, rec, n : f = file[u] /\ e = ends[u] /\ rec = recorded[u] /\ n = Len(cells)
  OBVIOUS
<1>2. PICK p : p = head[u]
  OBVIOUS
<1>3. /\ f \in Seq(Tape!ACell) /\ e \in Seq(Nat) /\ rec \in Seq(Tape!ABlock) /\ n \in Nat
      /\ image[u].padded \in BOOLEAN
  BY <1>1 DEF TInv, ReelTypes
<1>4. /\ j \in 0..Len(e) /\ Len(e) = Len(rec) /\ p = Tape!Behind(e, j)
      /\ (\A i \in 1..Len(e) : e[i] > 0) /\ \A i, k \in 1..Len(e) : i < k => e[i] < e[k]
  <2>1. j \in 0..Len(e) /\ Len(e) = Len(rec) /\ p = Tape!Behind(e, j)
    BY <1>1, <1>2 DEF AtBlock, HeadAt
  <2>2. (\A i \in DOMAIN e : e[i] > 0) /\ \A i, k \in DOMAIN e : i < k => e[i] < e[k]
    BY <1>1, EndsAre
  <2> QED
    BY <1>3, <2>1, <2>2
<1>5. p \in 0..Len(f) /\ p \in Nat /\ (j = 0 => p = 0) /\ (j > 0 => p = e[j])
  <2>1. CASE j = 0
    BY <2>1, <1>3, <1>4 DEF Tape!Behind
  <2>2. CASE j > 0
    <3>1. RecordAt(u, j) /\ p = e[j]
      BY <2>2, <1>1, <1>2 DEF AtBlock
    <3>2. e[j] \in Nat /\ e[j] <= Len(f)
      BY <3>1, <1>1 DEF RecordAt
    <3> QED
      BY <2>2, <3>1, <3>2, <1>3
  <2> QED
    BY <2>1, <2>2
<1>6. PICK g : g = Tape!Overwrite(f, p, cells)
  OBVIOUS
<1>7. PICK q, new, blocks : /\ q = p + n /\ new = SubSeq(e, 1, j) \o <<q>>
                            /\ blocks = SubSeq(rec, 1, j) \o <<block>>
  OBVIOUS
<1>8. /\ file' = [file EXCEPT ![u] = g] /\ recorded' = [recorded EXCEPT ![u] = blocks]
      /\ ends' = [ends EXCEPT ![u] = new] /\ head' = [head EXCEPT ![u] = q]
      /\ UNCHANGED <<fcb, image, counted, lost>>
  <2>1. Tape!Passed(u) = j
    BY DEF AtBlock
  <2> QED
    BY <2>1, <1>1, <1>2, <1>6, <1>7 DEF WritesBlock, Tape!Recorded
<1>9. /\ g \in Seq(Tape!ACell) /\ \A k \in 0..p - 1 : Tape!Cell(g, k) = Tape!Cell(f, k)
      /\ \A k \in 0..n - 1 : Tape!Cell(g, p + k) = Tape!Cell(cells, k)
  <2>1. /\ g \in Seq(Tape!ACell) /\ \A k \in 0..p - 1 : Tape!Cell(g, k) = Tape!Cell(f, k)
        /\ \A k \in 0..Len(cells) - 1 : Tape!Cell(g, p + k) = Tape!Cell(cells, k)
    BY <1>3, <1>5, <1>6, OverwriteIs
  <2> QED
    BY <2>1, <1>1
<1>10. block \in Seq(Nat)
  BY DEF Tape!ABlock
<1>11. Tape!IsRecord(g, p, q, block, image[u].padded) /\ n > 0 /\ q \in Nat
  <2>1. Tape!IsRecord(cells, 0, n, block, FALSE)
    BY <1>1
  <2>2. Tape!IsRecord(g, p, p + n, block, image[u].padded) /\ n > 0
    BY <2>1, <1>3, <1>5, <1>9, <1>10, RecordMoves
  <2> QED
    BY <2>2, <1>3, <1>5, <1>7
<1>12. /\ blocks \in Seq(Tape!ABlock) /\ Len(blocks) = j + 1 /\ blocks[j + 1] = block
       /\ (\A i \in 1..j : blocks[i] = rec[i]) /\ SubSeq(blocks, 1, j) = SubSeq(rec, 1, j)
  <2>1. j \in 0..Len(rec)
    BY <1>4
  <2> QED
    BY <2>1, <1>3, <1>7, Extended
<1>13. /\ new \in Seq(Nat) /\ Len(new) = j + 1 /\ new[j + 1] = q /\ \A i \in 1..j : new[i] = e[i]
  BY <1>3, <1>4, <1>7, <1>11, Extended
<1>14. \A i \in 1..j : e[i] \in Nat /\ e[i] > 0 /\ e[i] <= p
  <2>1. ASSUME NEW i \in 1..j PROVE e[i] \in Nat /\ e[i] > 0 /\ e[i] <= p
    <3>1. i \in 1..Len(e) /\ j \in 1..Len(e) /\ p = e[j] /\ (i = j \/ i < j)
      BY <1>3, <1>4, <1>5
    <3>2. e[i] \in Nat /\ e[j] \in Nat
      BY <3>1, <1>3
    <3>3. i < j => e[i] < e[j]
      BY <3>1, <1>4
    <3>4. e[i] > 0
      BY <3>1, <1>4
    <3>5. e[i] <= e[j]
      BY <3>1, <3>2, <3>3
    <3> QED
      BY <3>1, <3>2, <3>4, <3>5
  <2> QED
    BY <2>1
<1>15. (\A i \in DOMAIN new : new[i] > 0) /\ \A i, k \in DOMAIN new : i < k => new[i] < new[k]
  <2>1. DOMAIN new = 1..(j + 1)
    BY <1>13
  <2>2. ASSUME NEW i \in 1..j PROVE new[i] = e[i] /\ new[i] > 0 /\ new[i] < q
    BY <1>5, <1>3, <1>7, <1>11, <1>13, <1>14
  <2>3. new[j + 1] = q /\ q > 0
    BY <1>3, <1>5, <1>7, <1>11, <1>13
  <2>4. ASSUME NEW i \in 1..(j + 1) PROVE new[i] > 0
    <3>1. CASE i \in 1..j
      BY <3>1, <2>2
    <3>2. CASE i = j + 1
      BY <3>2, <2>3
    <3> QED
      BY <3>1, <3>2
  <2>5. ASSUME NEW i \in 1..(j + 1), NEW k \in 1..(j + 1), i < k PROVE new[i] < new[k]
    <3>1. i \in 1..j
      BY <2>5
    <3>2. CASE k = j + 1
      BY <3>1, <3>2, <2>2, <2>3
    <3>3. CASE k # j + 1
      <4>1. k \in 1..j /\ i \in 1..Len(e) /\ k \in 1..Len(e)
        BY <3>1, <3>3, <1>3, <1>4
      <4>2. e[i] < e[k]
        BY <4>1, <2>5, <1>4
      <4> QED
        BY <4>1, <4>2, <3>1, <2>2
    <3> QED
      BY <3>2, <3>3
  <2> QED
    BY <2>1, <2>4, <2>5
<1>16. \A i \in 0..j : Tape!Behind(new, i) = Tape!Behind(e, i)
  BY <1>13 DEF Tape!Behind
<1>17. Tape!HoldsBlocks(g, blocks, new, image[u].padded)
  <2>1. Tape!HoldsBlocks(f, rec, e, image[u].padded)
    BY <1>1 DEF TInv, OnReel
  <2>2. ASSUME NEW i \in 1..j
        PROVE  Tape!IsRecord(g, Tape!Behind(new, i - 1), new[i], blocks[i], image[u].padded)
    <3>1. i \in 1..Len(e) /\ i \in DOMAIN e /\ i - 1 \in 0..j
      BY <1>3, <1>4
    <3>2. Tape!IsRecord(f, Tape!Behind(e, i - 1), e[i], rec[i], image[u].padded)
      BY <2>1, <3>1 DEF Tape!HoldsBlocks
    <3>3. RecordAt(u, i)
      BY <3>1, <1>1, RecordsAt
    <3>4. Tape!Behind(e, i - 1) \in Nat /\ e[i] \in Nat /\ Tape!Behind(e, i - 1) < e[i] /\ rec[i] \in Seq(Nat)
      BY <3>3, <1>1 DEF RecordAt
    <3>5. e[i] <= p
      BY <1>14
    <3>6. \A k \in 0..e[i] - 1 : Tape!Cell(g, k) = Tape!Cell(f, k)
      BY <3>4, <3>5, <1>5, <1>9
    <3>7. Tape!IsRecord(g, Tape!Behind(e, i - 1), e[i], rec[i], image[u].padded)
      BY <3>2, <3>4, <3>6, RecordStays
    <3> QED
      BY <3>1, <3>7, <1>12, <1>13, <1>16
  <2>3. Tape!IsRecord(g, Tape!Behind(new, (j + 1) - 1), new[j + 1], blocks[j + 1], image[u].padded)
    <3>1. (j + 1) - 1 = j /\ j \in 0..j
      OBVIOUS
    <3> QED
      BY <3>1, <1>4, <1>11, <1>12, <1>13, <1>16
  <2>4. \A i \in DOMAIN new : i \in 1..j \/ i = j + 1
    BY <1>13
  <2>5. Len(new) = Len(blocks)
    BY <1>12, <1>13
  <2> QED
    BY <2>2, <2>3, <2>4, <2>5, <1>15 DEF Tape!HoldsBlocks
<1>18. /\ file \in [Units -> Seq(Tape!ACell)] /\ recorded \in [Units -> Seq(Tape!ABlock)]
       /\ ends \in [Units -> Seq(Nat)] /\ head \in [Units -> Nat]
  BY DEF TInv, ReelTypes, HeadTypes
<1>19. /\ file'[u] = g /\ recorded'[u] = blocks /\ ends'[u] = new /\ head'[u] = q
       /\ \A v \in Units \ {u} : /\ file'[v] = file[v] /\ recorded'[v] = recorded[v]
                                 /\ ends'[v] = ends[v] /\ head'[v] = head[v]
  BY <1>8, <1>18
<1>20. head' \in [Units -> Nat]
  BY <1>8, <1>11, <1>18
<1>21. ReelTypes'
  <2>1. file' \in [Units -> Seq(Tape!ACell)]
    BY <1>8, <1>9, <1>18
  <2>2. recorded' \in [Units -> Seq(Tape!ABlock)]
    BY <1>8, <1>12, <1>18
  <2>3. ends' \in [Units -> Seq(Nat)]
    BY <1>8, <1>13, <1>18
  <2> QED
    BY <2>1, <2>2, <2>3, <1>8 DEF TInv, ReelTypes
<1>22. ASSUME NEW v \in Units PROVE OnReel(v)'
  <2>1. CASE v = u
    BY <2>1, <1>8, <1>17, <1>19 DEF OnReel
  <2>2. CASE v # u
    <3>1. OnReel(v)
      BY DEF TInv
    <3> QED
      BY <2>2, <3>1, <1>8, <1>19 DEF OnReel
  <2> QED
    BY <2>1, <2>2
<1>23. Tape!Behind(new, j + 1) = q /\ j + 1 \in 0..Len(new)
  BY <1>13 DEF Tape!Behind
<1>24. HeadAt(u, j + 1)'
  BY <1>19, <1>23 DEF HeadAt
<1>25. \A v \in Units \ {u} : \A k \in Nat : HeadAt(v, k) => HeadAt(v, k)'
  BY <1>19 DEF HeadAt
<1>26. Tape!LastBehind(new, q) = j + 1
  BY <1>13, <1>15, <1>23, PassedAt
<1>27. Tape!Passed(u)' = j + 1 /\ \A v \in Units \ {u} : Tape!Passed(v)' = Tape!Passed(v)
  BY <1>19, <1>26 DEF Tape!Passed
<1>28. Written(u, j, block)
  BY <1>1, <1>8, <1>12, <1>19, <1>27 DEF Written
<1> QED
  BY <1>20, <1>21, <1>22, <1>24, <1>25, <1>28

\* On a lost drive a write leaves nothing that is known.
WritesAstray(u) ==
    /\ file' = [file EXCEPT ![u] = <<Tape!Pad>>]
    /\ recorded' = [recorded EXCEPT ![u] = <<>>] /\ ends' = [ends EXCEPT ![u] = <<>>]
    /\ UNCHANGED <<fcb, image, counted, lost, head>>

\* A file of which nothing is known.
LEMMA BareReel == ASSUME NEW f, NEW padded PROVE Tape!HoldsBlocks(f, <<>>, <<>>, padded)
<1>1. DOMAIN <<>> = {} /\ Len(<<>>) = 0
  OBVIOUS
<1> QED
  BY <1>1 DEF Tape!HoldsBlocks

LEMMA AstrayWritten ==
    ASSUME TInv, NEW u \in Units, u \in lost, WritesAstray(u)
    PROVE  /\ ReelTypes' /\ head' \in [Units -> Nat] /\ (\A v \in Units : OnReel(v)')
           /\ \A v \in Units \ {u} : \A k \in Nat : HeadAt(v, k) => HeadAt(v, k)'
           /\ recorded'[u] = <<>>
           /\ \A v \in Units \ {u} : /\ recorded'[v] = recorded[v] /\ Tape!Passed(v)' = Tape!Passed(v)
                                     /\ file'[v] = file[v] /\ ends'[v] = ends[v]
<1>1. /\ file' = [file EXCEPT ![u] = <<Tape!Pad>>]
      /\ recorded' = [recorded EXCEPT ![u] = <<>>] /\ ends' = [ends EXCEPT ![u] = <<>>]
      /\ UNCHANGED <<fcb, image, counted, lost, head>>
  BY DEF WritesAstray
<1>2. /\ file \in [Units -> Seq(Tape!ACell)] /\ recorded \in [Units -> Seq(Tape!ABlock)]
      /\ ends \in [Units -> Seq(Nat)] /\ head \in [Units -> Nat] /\ lost \subseteq fcb
  BY DEF TInv, ReelTypes, HeadTypes
<1>3. /\ file'[u] = <<Tape!Pad>> /\ recorded'[u] = <<>> /\ ends'[u] = <<>>
      /\ \A v \in Units \ {u} : /\ file'[v] = file[v] /\ recorded'[v] = recorded[v]
                                /\ ends'[v] = ends[v] /\ head'[v] = head[v]
  BY <1>1, <1>2
<1>4. ReelTypes'
  <2>1. Tape!Pad \in Tape!ACell
    BY DEF Tape!Pad, Tape!ACell
  <2>2. PICK c : c = <<Tape!Pad>>
    OBVIOUS
  <2>3. c \in Seq(Tape!ACell)
    BY <2>1, <2>2
  <2>4. file' \in [Units -> Seq(Tape!ACell)]
    BY <2>2, <2>3, <1>1, <1>2
  <2>5. <<>> \in Seq(Tape!ABlock) /\ <<>> \in Seq(Nat)
    OBVIOUS
  <2>6. recorded' \in [Units -> Seq(Tape!ABlock)]
    BY <2>5, <1>1, <1>2
  <2>7. ends' \in [Units -> Seq(Nat)]
    BY <2>5, <1>1, <1>2
  <2> QED
    BY <2>4, <2>6, <2>7, <1>1 DEF TInv, ReelTypes
<1>5. ASSUME NEW v \in Units PROVE OnReel(v)'
  <2>1. CASE v = u
    <3>1. Tape!HoldsBlocks(<<Tape!Pad>>, <<>>, <<>>, image[u].padded)
      BY BareReel
    <3> QED
      BY <2>1, <3>1, <1>1, <1>2, <1>3 DEF OnReel
  <2>2. CASE v # u
    <3>1. OnReel(v)
      BY DEF TInv
    <3> QED
      BY <2>2, <3>1, <1>1, <1>3 DEF OnReel
  <2> QED
    BY <2>1, <2>2
<1>6. \A v \in Units \ {u} : \A k \in Nat : HeadAt(v, k) => HeadAt(v, k)'
  BY <1>3 DEF HeadAt
<1>7. \A v \in Units \ {u} : Tape!Passed(v)' = Tape!Passed(v)
  BY <1>3 DEF Tape!Passed
<1> QED
  BY <1>1, <1>2, <1>3, <1>4, <1>5, <1>6, <1>7

\* A sequence of blocks is one of sequences of words.
LEMMA BlocksAre == ASSUME NEW r \in Seq(Tape!ABlock) PROVE r \in Seq(Seq(Nat))
<1>1. \A i \in 1..Len(r) : r[i] \in Seq(Nat)
  BY DEF Tape!ABlock
<1>2. PICK n \in Nat : n = Len(r)
  OBVIOUS
<1>3. r = [i \in 1..n |-> r[i]]
  BY <1>2
<1>4. r \in [1..n -> Seq(Nat)]
  BY <1>1, <1>2, <1>3
<1> QED
  BY <1>4

\* What a write leaves of the other drives and of its own.
Others(u) ==
    /\ UNCHANGED <<fcb, image, lost>> /\ recorded'[u] \in Seq(Tape!ABlock)
    /\ \A v \in Units \ {u} : /\ recorded'[v] = recorded[v] /\ Tape!Passed(v)' = Tape!Passed(v)
                              /\ file'[v] = file[v] /\ ends'[v] = ends[v]
                              /\ deviceStatus'[v] = deviceStatus[v]

\* This is a write of the abstract drives.
LEMMA WroteStep ==
    ASSUME TInv, NEW u \in fcb, Others(u), UNCHANGED Tape!Given,
           u \notin lost =>
              \E j \in Nat :
                 /\ Len(recorded'[u]) = j + 1 /\ Tape!Passed(u) = j /\ Tape!Passed(u)' = j + 1
                 /\ SubSeq(recorded'[u], 1, j) = SubSeq(recorded[u], 1, j)
                 /\ deviceStatus'[u] = IF recorded'[u][j + 1] = <<>> THEN {"tapemark"}
                                       ELSE deviceStatus[u] \ {"loadpoint"}
    PROVE  Tape!DriveStep
<1>1. u \in Units /\ fcb \subseteq Units
  BY DEF TInv, ReelTypes
<1>2. /\ UNCHANGED <<fcb, image, lost>> /\ recorded'[u] \in Seq(Seq(Nat))
      /\ \A v \in Units \ {u} : /\ recorded'[v] = recorded[v] /\ Tape!Passed(v)' = Tape!Passed(v)
                                /\ file'[v] = file[v] /\ ends'[v] = ends[v]
                                /\ deviceStatus'[v] = deviceStatus[v]
  BY BlocksAre DEF Others
<1>3. PICK before, new :
       before = [v \in Units |-> Tape!Passed(v)] /\ new = [v \in Units |-> Tape!Passed(v)]'
  OBVIOUS
<1>4. before[u] = Tape!Passed(u) /\ new[u] = Tape!Passed(u)' /\ \A v \in Units \ {u} : new[v] = before[v]
  BY <1>1, <1>2, <1>3
<1>5. UNCHANGED {v \in fcb : image[v].padded}
  BY <1>2
<1>6. {v \in fcb : Tape!End(v) < Len(file[v])}' \ {u} = {v \in fcb : Tape!End(v) < Len(file[v])} \ {u}
  <2>1. \A v \in fcb \ {u} : Tape!End(v)' = Tape!End(v) /\ file'[v] = file[v]
    BY <1>1, <1>2 DEF Tape!End
  <2> QED
    BY <2>1, <1>2
<1>7. ASSUME u \notin lost
      PROVE  /\ Len(recorded'[u]) = before[u] + 1 /\ new[u] = before[u] + 1
             /\ SubSeq(recorded'[u], 1, before[u]) = SubSeq(recorded[u], 1, before[u])
             /\ deviceStatus'[u] = IF recorded'[u][new[u]] = <<>> THEN {"tapemark"}
                                   ELSE deviceStatus[u] \ {"loadpoint"}
  BY <1>4, <1>7
<1>8. Tape!Drive!Write(u)
  BY <1>1, <1>2, <1>3, <1>4, <1>5, <1>6, <1>7 DEF Tape!Drive!Write, Tape!Drive!Block
<1> QED
  BY <1>1, <1>8 DEF Tape!DriveStep, Tape!Drive!Next

\* A block that is stored on a drive, wherever its head is.
LEMMA StoredKeeps ==
    ASSUME TInv, NEW u \in fcb, u = tapeUnit, NEW block \in Tape!ABlock,
           NEW cells \in Seq(Tape!ACell), Tape!IsRecord(cells, 0, Len(cells), block, FALSE),
           Tape!Stored(u, block, cells), UNCHANGED <<fcb, image, counted, lost>>, ~anyWrite',
           Tape!Given = <<>>, Tape!Given' = <<>>,
           deviceStatus' = [deviceStatus EXCEPT ![u] = IF block = <<>> THEN {"tapemark"}
                                                       ELSE @ \ {"loadpoint"}],
           blockNo' = IF anyWrite THEN blockNo ELSE [blockNo EXCEPT ![u] = @ + 1]
    PROVE  ReelTypes' /\ HeadTypes' /\ (\A v \in Units : OnReel(v)' /\ Placed(v)') /\ Tape!DriveStep
<1>1. /\ u \in Units /\ blockNo \in [Units -> Int] /\ deviceStatus \in [Units -> SUBSET Conditions]
      /\ counted \subseteq Units \ lost
  BY DEF TInv, ReelTypes, HeadTypes
<1>2. deviceStatus' \in [Units -> SUBSET Conditions]
  <2>1. {"tapemark"} \in SUBSET Conditions
    BY DEF Conditions
  <2>2. (IF block = <<>> THEN {"tapemark"} ELSE deviceStatus[u] \ {"loadpoint"}) \in SUBSET Conditions
    BY <2>1, <1>1
  <2> QED
    BY <2>2, <1>1
<1>3. blockNo' \in [Units -> Int] /\ \A v \in Units \ {u} : blockNo'[v] = blockNo[v]
  <2>1. CASE anyWrite
    BY <2>1, <1>1
  <2>2. CASE ~anyWrite
    BY <2>2, <1>1
  <2> QED
    BY <2>1, <2>2
<1>4. /\ deviceStatus'[u] = IF block = <<>> THEN {"tapemark"} ELSE deviceStatus[u] \ {"loadpoint"}
      /\ \A v \in Units \ {u} : deviceStatus'[v] = deviceStatus[v]
  BY <1>1
<1>5. ASSUME NEW v \in Units, v # u, \A k \in Nat : HeadAt(v, k) => HeadAt(v, k)', head'[v] = head[v]
      PROVE  Placed(v)'
  <2>1. Placed(v)
    BY DEF TInv
  <2>2. CASE v \in lost
    <3>1. head[v] = 0
      BY <2>1, <2>2 DEF Placed
    <3> QED
      BY <2>2, <3>1, <1>5 DEF Placed
  <2>3. CASE v \notin lost
    <3>1. PICK k \in Nat : HeadAt(v, k) /\ CountIs(v, k)
      BY <1>5, <2>1, <2>3 DEF Placed
    <3>2. HeadAt(v, k)' /\ CountIs(v, k)'
      BY <3>1, <1>3, <1>5 DEF CountIs
    <3> QED
      BY <2>3, <3>2 DEF Placed
  <2> QED
    BY <2>2, <2>3
<1>6. CASE u \notin lost
  <2>1. PICK j \in Nat : AtBlock(u, j)
    BY <1>1, <1>6, BlockBehind
  <2>2. WritesBlock(u, block, cells)
    <3>1. head' = [head EXCEPT ![u] = head[u] + Len(cells)]
      BY <1>6 DEF Tape!Stored
    <3> QED
      BY <3>1, <1>6 DEF Tape!Stored, WritesBlock
  <2>3. /\ ReelTypes' /\ head' \in [Units -> Nat] /\ (\A v \in Units : OnReel(v)') /\ HeadAt(u, j + 1)'
        /\ \A v \in Units \ {u} : \A k \in Nat : HeadAt(v, k) => HeadAt(v, k)'
        /\ Written(u, j, block)
    BY <1>1, <2>1, <2>2, BlocksWritten
  <2>4. HeadTypes'
    BY <2>3, <1>2, <1>3 DEF HeadTypes
  <2>5. \A v \in Units \ {u} : head'[v] = head[v]
    BY <2>2 DEF WritesBlock, TInv, HeadTypes
  <2>6. Placed(u)'
    <3>1. u \in counted => blockNo[u] = IF anyWrite THEN j + 1 ELSE j
      BY <2>1 DEF AtBlock, CountIs
    <3>2. u \in counted => blockNo'[u] = j + 1
      BY <3>1, <1>1
    <3>3. CountIs(u, j + 1)'
      BY <3>2 DEF CountIs
    <3> QED
      BY <1>6, <2>3, <3>3 DEF Placed
  <2>7. \A v \in Units : OnReel(v)' /\ Placed(v)'
    BY <2>3, <2>5, <2>6, <1>5
  <2>8. /\ UNCHANGED <<fcb, image, lost>>
        /\ recorded'[u] \in Seq(Tape!ABlock) /\ Len(recorded'[u]) = j + 1 /\ recorded'[u][j + 1] = block
        /\ SubSeq(recorded'[u], 1, j) = SubSeq(recorded[u], 1, j)
        /\ Tape!Passed(u)' = j + 1 /\ Tape!Passed(u) = j
        /\ \A v \in Units \ {u} : recorded'[v] = recorded[v] /\ Tape!Passed(v)' = Tape!Passed(v)
        /\ \A v \in Units \ {u} : file'[v] = file[v] /\ ends'[v] = ends[v]
    BY <2>1, <2>3 DEF Written, AtBlock
  <2>9. Others(u)
    BY <2>8, <1>4 DEF Others
  <2>10. Tape!DriveStep
    BY <2>8, <2>9, <1>4, WroteStep
  <2> QED
    BY <2>3, <2>4, <2>7, <2>10
<1>7. CASE u \in lost
  <2>1. WritesAstray(u)
    BY <1>7 DEF Tape!Stored, WritesAstray
  <2>2. /\ ReelTypes' /\ head' \in [Units -> Nat] /\ (\A v \in Units : OnReel(v)')
        /\ \A v \in Units \ {u} : \A k \in Nat : HeadAt(v, k) => HeadAt(v, k)'
        /\ recorded'[u] = <<>>
        /\ \A v \in Units \ {u} : /\ recorded'[v] = recorded[v] /\ Tape!Passed(v)' = Tape!Passed(v)
                                  /\ file'[v] = file[v] /\ ends'[v] = ends[v]
    BY <1>1, <1>7, <2>1, AstrayWritten
  <2>3. HeadTypes'
    BY <2>2, <1>2, <1>3 DEF HeadTypes
  <2>4. UNCHANGED head /\ head[u] = 0
    BY <1>1, <1>7, <2>1 DEF WritesAstray, TInv, Placed
  <2>5. Placed(u)'
    BY <1>7, <2>4 DEF Placed
  <2>6. \A v \in Units : OnReel(v)' /\ Placed(v)'
    BY <2>2, <2>4, <2>5, <1>5
  <2>7. recorded'[u] \in Seq(Tape!ABlock)
    BY <2>2
  <2>8. Others(u)
    BY <2>2, <2>7, <1>4 DEF Others
  <2>9. Tape!DriveStep
    BY <1>7, <2>8, WroteStep
  <2> QED
    BY <2>2, <2>3, <2>6, <2>9
<1> QED
  BY <1>6, <1>7

\* Writing a tape mark.
LEMMA WriteEOFKeeps == ASSUME TInv, Tape!WriteEOF PROVE TInv' /\ Tape!DriveStep
<1> DEFINE u == tapeUnit
           cells == <<Tape!Length(0)>>
<1>1. /\ ~active /\ tapeFcode' = "motion" /\ u \in fcb /\ bp' = [bp EXCEPT ![u] = 0]
      /\ Tape!Stored(u, <<>>, cells)
      /\ deviceStatus' = [deviceStatus EXCEPT ![u] = {"tapemark"}]
      /\ blockNo' = [blockNo EXCEPT ![u] = @ + 1]
      /\ writes' = writes + 1
      /\ UNCHANGED <<fcb, image, lost, counted, tapeLength, ioBuffer, devLength, tapeUnit, anyWrite,
                     active, crashed, loads>>
  BY DEF Tape!WriteEOF, Tape!Function, Tape!MayWrite, Tape!Ready
<1>2. ~anyWrite /\ Tape!Given = <<>> /\ u \in Units /\ TransferTypes
  BY <1>1, AtRest
<1>3. cells \in Seq(Tape!ACell) /\ Len(cells) = 1 /\ Tape!IsRecord(cells, 0, 1, <<>>, FALSE)
  <2>1. Tape!Length(0) \in Tape!ACell
    BY DEF Tape!Length, Tape!ACell
  <2>2. cells \in Seq(Tape!ACell) /\ Len(cells) = 1 /\ cells[1] = Tape!Length(0)
    BY <2>1
  <2>3. Tape!Cell(cells, 0) = Tape!Length(0)
    BY <2>2 DEF Tape!Cell
  <2>4. Len(<<>>) = 0 /\ 1 - 1 = 0
    OBVIOUS
  <2> QED
    BY <2>2, <2>3, <2>4 DEF Tape!IsRecord
<1>4. <<>> \in Tape!ABlock
  <2>1. <<>> \in Seq(Nat) /\ Len(<<>>) <= MaxRecord
    BY Record0
  <2> QED
    BY <2>1 DEF Tape!ABlock
<1> HIDE DEF cells
<1>5. Tape!Given' = <<>>
  BY <1>1, NothingGiven
<1>6. /\ deviceStatus' = [deviceStatus EXCEPT ![u] = IF <<>> = <<>> THEN {"tapemark"}
                                                   ELSE @ \ {"loadpoint"}]
      /\ blockNo' = IF anyWrite THEN blockNo ELSE [blockNo EXCEPT ![u] = @ + 1]
      /\ ~anyWrite'
  BY <1>1, <1>2
<1>7. ReelTypes' /\ HeadTypes' /\ (\A v \in Units : OnReel(v)' /\ Placed(v)') /\ Tape!DriveStep
  BY <1>1, <1>2, <1>3, <1>4, <1>5, <1>6, StoredKeeps
<1>8. TapeFlowTypes' /\ InBuffer'
  <2>1. bp' \in [Units -> 0..MaxRecord]
    BY <1>1, <1>2, Record0 DEF TransferTypes
  <2>2. writes' \in Nat
    BY <1>1 DEF TInv, TapeFlowTypes
  <2>3. TapeFlowTypes'
    BY <2>1, <2>2, <1>1 DEF TInv, TapeFlowTypes
  <2>4. anyWrite' = FALSE /\ active' = FALSE
    BY <1>1, <1>2 DEF TInv, TapeFlowTypes
  <2>5. InBuffer'
    BY <2>4 DEF InBuffer
  <2> QED
    BY <2>3, <2>5
<1> QED
  BY <1>7, <1>8 DEF TInv

\* The record the controller writes is one.
LEMMA RecordWritten ==
    ASSUME NEW block \in Seq(Nat), Len(block) > 0
    PROVE  /\ Tape!Record(block) \in Seq(Tape!ACell) /\ Len(Tape!Record(block)) = Len(block) + 2
           /\ Tape!IsRecord(Tape!Record(block), 0, Len(block) + 2, block, FALSE)
<1>1. PICK n \in Nat : n = Len(block) /\ n > 0
  OBVIOUS
<1>2. PICK c : c = Tape!Record(block)
  OBVIOUS
<1>3. c = [i \in 1..(n + 2) |-> IF i \in {1, n + 2} THEN Tape!Length(n) ELSE Tape!Word(block[i - 1])]
  BY <1>1, <1>2 DEF Tape!Record
<1>4. Tape!Length(n) \in Tape!ACell
  BY <1>1 DEF Tape!Length, Tape!ACell
<1>5. \A w \in Nat : Tape!Word(w) \in Tape!ACell
  BY DEF Tape!Word, Tape!ACell
<1>6. ASSUME NEW i \in 1..(n + 2), i \notin {1, n + 2} PROVE Tape!Word(block[i - 1]) \in Tape!ACell
  <2>1. i - 1 \in 1..n
    BY <1>6, <1>1
  <2>2. block[i - 1] \in Nat
    BY <2>1, <1>1
  <2> QED
    BY <2>2, <1>5
<1>7. c \in [1..(n + 2) -> Tape!ACell]
  BY <1>3, <1>4, <1>6
<1>8. c \in Seq(Tape!ACell) /\ Len(c) = n + 2
  BY <1>1, <1>7
<1>9. c[1] = Tape!Length(n) /\ c[n + 2] = Tape!Length(n)
  BY <1>1, <1>3
<1>10. ASSUME NEW i \in 1..n PROVE c[i + 1] = Tape!Word(block[i])
  <2>1. i + 1 \in 1..(n + 2) /\ i + 1 \notin {1, n + 2} /\ (i + 1) - 1 = i
    BY <1>1
  <2> QED
    BY <2>1, <1>3
<1>11. ASSUME NEW k \in 0..(n + 1) PROVE Tape!Cell(c, k) = c[k + 1]
  BY <1>1, <1>8 DEF Tape!Cell
<1>12. /\ Tape!Cell(c, 0) = Tape!Length(n) /\ \A i \in 1..n : Tape!Cell(c, 0 + i) = Tape!Word(block[i])
       /\ Tape!Cell(c, (n + 2) - 1) = Tape!Length(n)
  <2>1. 0 \in 0..(n + 1) /\ 0 + 1 = 1 /\ (n + 2) - 1 \in 0..(n + 1) /\ ((n + 2) - 1) + 1 = n + 2
    BY <1>1
  <2>2. \A i \in 1..n : 0 + i = i /\ i \in 0..(n + 1)
    BY <1>1
  <2> QED
    BY <2>1, <2>2, <1>9, <1>10, <1>11
<1>13. n + 2 = 0 + n + 2
  BY <1>1
<1> QED
  BY <1>1, <1>2, <1>8, <1>12, <1>13 DEF Tape!IsRecord

\* mt669Disconnect on a unit that may not be written: nothing comes to the reel.
LEMMA NotWritten ==
    ASSUME TInv, NEW u \in fcb, u = tapeUnit, anyWrite, ~anyWrite', ~image[u].ring,
           Tape!Given = <<>>, Tape!Given' = <<>>,
           deviceStatus' = [deviceStatus EXCEPT ![u] = @ \ {"loadpoint"}],
           UNCHANGED <<file, fcb, image, recorded, ends, head, lost, blockNo, counted>>
    PROVE  ReelTypes' /\ HeadTypes' /\ (\A v \in Units : OnReel(v)' /\ Placed(v)') /\ Tape!DriveStep
<1>1. u \in Units /\ u \notin counted /\ deviceStatus \in [Units -> SUBSET Conditions]
  BY DEF TInv, ReelTypes, HeadTypes, InBuffer
<1>2. /\ deviceStatus' \in [Units -> SUBSET Conditions]
      /\ deviceStatus'[u] = deviceStatus[u] \ {"loadpoint"}
      /\ \A v \in Units \ {u} : deviceStatus'[v] = deviceStatus[v]
  BY <1>1
<1>3. ReelTypes' /\ HeadTypes'
  BY <1>2 DEF TInv, ReelTypes, HeadTypes
<1>4. ASSUME NEW v \in Units PROVE OnReel(v)' /\ Placed(v)'
  <2>1. OnReel(v)' /\ Placed(v)
    BY DEF TInv, OnReel
  <2>2. CASE v \in lost
    <3>1. head[v] = 0
      BY <2>1, <2>2 DEF Placed
    <3> QED
      BY <2>1, <2>2, <3>1 DEF Placed
  <2>3. CASE v \notin lost
    <3>1. PICK k \in Nat : HeadAt(v, k) /\ CountIs(v, IF anyWrite /\ v = tapeUnit THEN k + 1 ELSE k)
      BY <2>1, <2>3 DEF Placed
    <3>2. HeadAt(v, k)' /\ CountIs(v, k)'
      BY <3>1, <1>1 DEF HeadAt, CountIs
    <3> QED
      BY <2>1, <2>3, <3>2 DEF Placed
  <2> QED
    BY <2>2, <2>3
<1>5. UNCHANGED [v \in Units |-> Tape!Passed(v)]
  BY PassedStays
<1>6. Tape!Drive!Moves(u)
  <2>1. \A v \in Units \ {u} : Tape!Passed(v)' = Tape!Passed(v)
    BY DEF Tape!Passed
  <2> QED
    BY <1>2, <2>1, FilesStay DEF Tape!Drive!Moves
<1>7. CASE u \in lost
  <2>1. Tape!Drive!Wander(u)
    BY <1>7 DEF Tape!Drive!Wander
  <2> QED
    BY <1>1, <1>3, <1>4, <1>6, <2>1, MotionStep
<1>8. CASE u \notin lost
  <2>1. Tape!Drive!Announce(u)
    BY <1>2, <1>5 DEF Tape!Drive!Announce
  <2>2. Tape!Drive!Known(u)
    BY <1>8, <2>1 DEF Tape!Drive!Known
  <2> QED
    BY <1>1, <1>3, <1>4, <1>6, <2>2, MotionStep
<1> QED
  BY <1>7, <1>8

\* mt669Disconnect, which writes the record that was collected.
LEMMA DisconnectKeeps == ASSUME TInv, Tape!Disconnect PROVE TInv' /\ Tape!DriveStep
<1> DEFINE u == tapeUnit
<1>1. CASE ~anyWrite
  <2>1. /\ active' = FALSE
        /\ UNCHANGED <<tapeLength, bp, ioBuffer, devLength, file, fcb, image, recorded, ends, head, lost,
                       deviceStatus, blockNo, counted, tapeUnit, tapeFcode, crashed, writes>>
    BY <1>1 DEF Tape!Disconnect
  <2>2. anyWrite' = anyWrite
    BY <1>1 DEF Tape!Disconnect, TInv, TapeFlowTypes
  <2> QED
    BY <1>1, <2>1, <2>2, StopKeeps
<1>2. CASE anyWrite
  <2>1. PICK block : block = [i \in 1..devLength |-> ioBuffer[u][i - 1]]
    OBVIOUS
  <2>2. /\ active /\ (tapeFcode = "write" => devLength > 0) /\ active' = FALSE /\ anyWrite' = FALSE
        /\ Tape!BlockWritten(u) \/ Tape!WrittenNowhere(u)
        /\ UNCHANGED <<fcb, image, lost, blockNo, counted, tapeLength, ioBuffer, devLength, tapeUnit,
                       tapeFcode, writes, loads>>
    BY <1>2 DEF Tape!Disconnect
  <2>3. /\ u \in Units /\ devLength \in 0..MaxRecord /\ MaxRecord \in Nat /\ head[u] \in Nat
        /\ ioBuffer[u] \in [0..MaxRecord -> Nat] /\ crashed \in BOOLEAN
    BY Record0 DEF TInv, TapeFlowTypes, HeadTypes
  <2>4. tapeFcode = "write" /\ devLength > 0
    BY <1>2, <2>2 DEF TInv, InBuffer
  <2>5. Tape!Given' = <<>> /\ Tape!Given = <<>>
    BY <2>2, <2>4, NothingGiven DEF Tape!Given
  <2>6. ASSUME bp' \in [Units -> 0..MaxRecord], crashed' \in BOOLEAN
        PROVE  TapeFlowTypes' /\ InBuffer'
    <3>1. TapeFlowTypes'
      BY <2>2, <2>6 DEF TInv, TapeFlowTypes
    <3>2. InBuffer'
      BY <2>2 DEF InBuffer
    <3> QED
      BY <3>1, <3>2
  <2>7. CASE Tape!WrittenNowhere(u)
    <3>1. /\ u \notin fcb /\ crashed' = TRUE
          /\ UNCHANGED <<file, head, recorded, ends, deviceStatus, bp>>
      BY <2>7 DEF Tape!WrittenNowhere, Tape!Ready
    <3>2. TapeFlowTypes' /\ InBuffer'
      BY <2>6, <3>1 DEF TInv, TapeFlowTypes
    <3>3. ASSUME NEW v \in Units PROVE OnReel(v)' /\ Placed(v)'
      <4>1. OnReel(v)' /\ Placed(v)
        BY <2>2, <3>1 DEF TInv, OnReel
      <4>2. CASE v \in lost
        <5>1. head[v] = 0
          BY <4>1, <4>2 DEF Placed
        <5> QED
          BY <4>1, <4>2, <5>1, <2>2, <3>1 DEF Placed
      <4>3. CASE v \notin lost
        <5>1. PICK k \in Nat : HeadAt(v, k) /\ CountIs(v, IF anyWrite /\ v = u THEN k + 1 ELSE k)
          BY <4>1, <4>3 DEF Placed
        <5>2. HeadAt(v, k)' /\ CountIs(v, k)'
          BY <5>1, <2>2, <3>1 DEF HeadAt, CountIs
        <5> QED
          BY <4>1, <4>3, <5>2, <2>2 DEF Placed
      <4> QED
        BY <4>2, <4>3
    <3>4. ReelTypes' /\ HeadTypes'
      BY <2>2, <3>1 DEF TInv, ReelTypes, HeadTypes
    <3>5. Tape!DriveStep
      BY <2>2, <2>5, <3>1, Stutters
    <3> QED
      BY <3>2, <3>3, <3>4, <3>5 DEF TInv
  <2>8. CASE Tape!BlockWritten(u)
    <3>1. /\ u \in fcb /\ crashed' = crashed
          /\ deviceStatus' = [deviceStatus EXCEPT ![u] = @ \ {"loadpoint"}]
          /\ bp' = [bp EXCEPT ![u] = 0]
          /\ \/ image[u].ring /\ Tape!Stored(u, block, Tape!Record(block))
             \/ ~image[u].ring /\ UNCHANGED <<file, head, recorded, ends>>
      BY <2>1, <2>8 DEF Tape!BlockWritten, Tape!Ready
    <3>2. TapeFlowTypes' /\ InBuffer'
      <4>1. bp' \in [Units -> 0..MaxRecord]
        BY <3>1, Record0 DEF TInv, TapeFlowTypes
      <4> QED
        BY <4>1, <2>3, <2>6, <3>1
    <3>3. CASE ~image[u].ring /\ UNCHANGED <<file, head, recorded, ends>>
      <4>1. ReelTypes' /\ HeadTypes' /\ (\A v \in Units : OnReel(v)' /\ Placed(v)') /\ Tape!DriveStep
        BY <1>2, <2>2, <2>5, <3>1, <3>3, NotWritten
      <4> QED
        BY <4>1, <3>2 DEF TInv
    <3>4. CASE image[u].ring /\ Tape!Stored(u, block, Tape!Record(block))
      <4>1. block \in Seq(Nat) /\ Len(block) = devLength
        <5>1. \A i \in 1..devLength : i - 1 \in 0..MaxRecord
          BY <2>3
        <5>2. \A i \in 1..devLength : ioBuffer[u][i - 1] \in Nat
          BY <5>1, <2>3
        <5>3. block \in [1..devLength -> Nat]
          BY <5>2, <2>1
        <5> QED
          BY <5>3, <2>3
      <4>2. block \in Tape!ABlock /\ block # <<>>
        <5>1. block # <<>>
          BY <2>4, <4>1
        <5>2. Len(block) <= MaxRecord
          BY <2>3, <4>1
        <5> QED
          BY <5>1, <5>2, <4>1 DEF Tape!ABlock
      <4>3. PICK cells : cells = Tape!Record(block)
        OBVIOUS
      <4>4. /\ cells \in Seq(Tape!ACell) /\ Len(cells) = Len(block) + 2
            /\ Tape!IsRecord(cells, 0, Len(cells), block, FALSE)
        BY <2>4, <4>1, <4>3, RecordWritten
      <4>5. /\ deviceStatus' = [deviceStatus EXCEPT ![u] = IF block = <<>> THEN {"tapemark"}
                                                          ELSE @ \ {"loadpoint"}]
            /\ blockNo' = IF anyWrite THEN blockNo ELSE [blockNo EXCEPT ![u] = @ + 1]
        BY <1>2, <2>2, <3>1, <4>2
      <4>6. Tape!Stored(u, block, cells)
        BY <3>4, <4>3
      <4>7. ReelTypes' /\ HeadTypes' /\ (\A v \in Units : OnReel(v)' /\ Placed(v)') /\ Tape!DriveStep
        BY <2>2, <2>5, <3>1, <4>2, <4>4, <4>5, <4>6, StoredKeeps
      <4> QED
        BY <4>7, <3>2 DEF TInv
    <3> QED
      BY <3>1, <3>3, <3>4
  <2> QED
    BY <2>2, <2>7, <2>8
<1> QED
  BY <1>1, <1>2

\* The start of an image.
LEMMA AtStart ==
    ASSUME NEW f, NEW blocks \in Seq(Tape!ABlock), NEW e \in Seq(Nat), NEW padded,
           Tape!HoldsBlocks(f, blocks, e, padded)
    PROVE  0 \in 0..Len(e) /\ Tape!Behind(e, 0) = 0 /\ Tape!LastBehind(e, 0) = 0
<1>1. 0 \in 0..Len(e) /\ Tape!Behind(e, 0) = 0
  <2>1. Len(e) \in Nat
    OBVIOUS
  <2> QED
    BY <2>1 DEF Tape!Behind
<1>2. (\A i \in DOMAIN e : e[i] > 0) /\ \A i, k \in DOMAIN e : i < k => e[i] < e[k]
  BY EndsGrow
<1>3. Tape!LastBehind(e, Tape!Behind(e, 0)) = 0
  BY <1>1, <1>2, PassedAt
<1> QED
  BY <1>1, <1>3

\* What the images are by their assumption.
LEMMA ImageIs ==
    ASSUME NEW m, Tape!IsImage(m)
    PROVE  /\ m.cells \in Seq(Tape!ACell) /\ m.blocks \in Seq(Tape!ABlock) /\ m.ends \in Seq(Nat)
           /\ m.ring \in BOOLEAN /\ m.padded \in BOOLEAN
           /\ Tape!HoldsBlocks(m.cells, m.blocks, m.ends, m.padded)
           /\ Len(m.cells) = Tape!Behind(m.ends, Len(m.ends))
           /\ m.blocks \in Seq(Seq(Nat))
<1>1. /\ m.cells \in Seq(Tape!ACell) /\ m.blocks \in Seq(Tape!ABlock) /\ m.ends \in Seq(Nat)
      /\ m.ring \in BOOLEAN /\ m.padded \in BOOLEAN
      /\ Tape!HoldsBlocks(m.cells, m.blocks, m.ends, m.padded)
      /\ Len(m.cells) = Tape!Behind(m.ends, Len(m.ends))
  BY DEF Tape!IsImage
<1>3. PICK s \in Seq(Tape!ABlock) : s = m.blocks
  BY <1>1
<1>4. PICK n \in Nat : n = Len(s)
  OBVIOUS
<1>5. \A i \in 1..n : s[i] \in Seq(Nat)
  BY <1>4 DEF Tape!ABlock
<1>6. s \in [1..n -> Seq(Nat)]
  <2>1. s = [i \in 1..n |-> s[i]]
    BY <1>4
  <2> QED
    BY <2>1, <1>5
<1>7. s \in Seq(Seq(Nat))
  BY <1>6
<1> QED
  BY <1>1, <1>3, <1>7

\* Taking a reel off is a step of the drives.
LEMMA UnmountStep ==
    ASSUME NEW u \in Units, Tape!Drive!Unmount(u)
    PROVE  Tape!DriveStep
  BY DEF Tape!DriveStep, Tape!Drive!Next

\* The unload function.
LEMMA UnloadTapeKeeps == ASSUME TInv, Tape!RewindUnload PROVE TInv' /\ Tape!DriveStep
<1> DEFINE u == tapeUnit
<1>1. /\ ~active /\ u \in fcb /\ fcb' = fcb \ {u}
      /\ deviceStatus' = [deviceStatus EXCEPT ![u] = {}] /\ file' = [file EXCEPT ![u] = <<>>]
      /\ head' = [head EXCEPT ![u] = 0] /\ recorded' = [recorded EXCEPT ![u] = <<>>]
      /\ ends' = [ends EXCEPT ![u] = <<>>]
      /\ lost' = lost \ {u}
      /\ UNCHANGED <<image, blockNo, counted, tapeLength, bp, ioBuffer, devLength, tapeUnit, tapeFcode,
                     anyWrite, active, crashed, writes, loads>>
  BY DEF Tape!RewindUnload, Tape!Ready, Tape!transfer
<1>2. ~anyWrite /\ Tape!Given = <<>> /\ u \in Units
  BY <1>1, AtRest
<1>3. /\ fcb \subseteq Units /\ file \in [Units -> Seq(Tape!ACell)]
      /\ recorded \in [Units -> Seq(Tape!ABlock)] /\ ends \in [Units -> Seq(Nat)]
      /\ lost \subseteq fcb /\ counted \subseteq Units \ lost
      /\ head \in [Units -> Nat] /\ deviceStatus \in [Units -> SUBSET Conditions]
  BY DEF TInv, ReelTypes, HeadTypes
<1>4. /\ file'[u] = <<>> /\ recorded'[u] = <<>> /\ ends'[u] = <<>> /\ head'[u] = 0
      /\ \A v \in Units \ {u} : /\ file'[v] = file[v] /\ recorded'[v] = recorded[v] /\ ends'[v] = ends[v]
                                /\ head'[v] = head[v] /\ (v \in fcb' <=> v \in fcb)
                                /\ (v \in lost' <=> v \in lost)
  BY <1>1, <1>2, <1>3
<1>5. ReelTypes' /\ HeadTypes'
  <2>1. fcb' \subseteq Units /\ lost' \subseteq fcb' /\ counted' \subseteq Units \ lost'
    BY <1>1, <1>3
  <2>2. file' \in [Units -> Seq(Tape!ACell)]
    BY <1>1, <1>3
  <2>3. recorded' \in [Units -> Seq(Tape!ABlock)] /\ ends' \in [Units -> Seq(Nat)]
    BY <1>1, <1>3
  <2>4. head' \in [Units -> Nat]
    BY <1>1, <1>3
  <2>5. deviceStatus' \in [Units -> SUBSET Conditions]
    BY <1>1, <1>3
  <2> QED
    BY <2>1, <2>2, <2>3, <2>4, <2>5, <1>1 DEF TInv, ReelTypes, HeadTypes
<1>6. TapeFlowTypes' /\ InBuffer'
  BY <1>1, <1>2 DEF TInv, TapeFlowTypes, InBuffer
<1>7. <<>> \in Seq(Tape!ABlock) /\ <<>> \in Seq(Nat) /\ u \notin fcb' /\ u \notin lost'
  BY <1>1
<1>8. Tape!HoldsBlocks(<<>>, <<>>, <<>>, image[u].padded)
  BY BareReel
<1>9. 0 \in 0..Len(<<>>) /\ Tape!Behind(<<>>, 0) = 0 /\ Tape!LastBehind(<<>>, 0) = 0
  BY <1>7, <1>8, AtStart
<1>10. ASSUME NEW v \in Units PROVE OnReel(v)' /\ Placed(v)'
  <2>1. CASE v = u
    <3>1. OnReel(v)'
      BY <2>1, <1>1, <1>4, <1>8 DEF OnReel
    <3>2. HeadAt(v, 0)' /\ \A n : CountIs(v, n)'
      BY <2>1, <1>4, <1>7, <1>9 DEF HeadAt, CountIs
    <3> QED
      BY <2>1, <3>1, <3>2, <1>7 DEF Placed
  <2>2. CASE v # u
    <3>1. OnReel(v)' /\ Placed(v)
      BY <2>2, <1>1, <1>4 DEF TInv, OnReel
    <3>2. CASE v \in lost
      <4>1. head[v] = 0
        BY <3>1, <3>2 DEF Placed
      <4> QED
        BY <2>2, <3>1, <3>2, <4>1, <1>4 DEF Placed
    <3>3. CASE v \notin lost
      <4>1. PICK k \in Nat : HeadAt(v, k) /\ CountIs(v, k)
        BY <1>2, <3>1, <3>3 DEF Placed
      <4>2. HeadAt(v, k)' /\ CountIs(v, k)'
        BY <2>2, <4>1, <1>1, <1>4 DEF HeadAt, CountIs
      <4> QED
        BY <2>2, <3>1, <3>3, <4>2, <1>1, <1>2, <1>4 DEF Placed
    <3> QED
      BY <3>2, <3>3
  <2> QED
    BY <2>1, <2>2
<1>11. Tape!Passed(u)' = 0 /\ \A v \in Units \ {u} : Tape!Passed(v)' = Tape!Passed(v)
  BY <1>1, <1>4, <1>9 DEF Tape!Passed
<1>12. [v \in Units |-> Tape!Passed(v)]' = [[v \in Units |-> Tape!Passed(v)] EXCEPT ![u] = 0]
  <2>1. PICK before, new : before = [v \in Units |-> Tape!Passed(v)] /\ new = [v \in Units |-> Tape!Passed(v)']
    OBVIOUS
  <2>2. Tape!Passed(u)' = 0 /\ UNCHANGED tapeUnit
    BY <1>1, <1>11
  <2>3. new[u] = 0 /\ \A v \in Units \ {u} : new[v] = before[v]
    BY <2>1, <2>2, <1>2, <1>11
  <2>4. new = [before EXCEPT ![u] = 0]
    BY <2>1, <2>3, <1>2
  <2> QED
    BY <2>1, <2>2, <2>4
<1>13. Tape!Given' = Tape!Given
  BY <1>1, <1>2, NothingGiven
<1>14. \E w \in Units : Tape!Drive!Unmount(w)
  <2>1. fcb' # fcb
    BY <1>1
  <2>2. {v \in fcb : image[v].padded}' = {v \in fcb : image[v].padded} \ {u}
    BY <1>1
  <2>3. {v \in fcb : Tape!End(v) < Len(file[v])}' = {v \in fcb : Tape!End(v) < Len(file[v])} \ {u}
    <3>1. \A v \in fcb' : v \in Units \ {u} /\ Tape!End(v)' = Tape!End(v) /\ file'[v] = file[v]
      BY <1>1, <1>3, <1>4 DEF Tape!End
    <3> QED
      BY <3>1, <1>1
  <2>4. PICK w \in Units : w = u
    BY <1>2
  <2>5. Tape!Drive!Unmount(w)
    BY <2>1, <2>2, <2>3, <2>4, <1>1, <1>12, <1>13 DEF Tape!Drive!Unmount
  <2> QED
    BY <2>5
<1>15. Tape!DriveStep
  BY <1>14, UnmountStep
<1> QED
  BY <1>5, <1>6, <1>10, <1>15 DEF TInv

\* mt669Load.
LEMMA LoadTapeKeeps ==
    ASSUME TapeAssumption, TInv, NEW u \in Units, Tape!mt669Load(u)
    PROVE  TInv' /\ Tape!DriveStep
<1>1. PICK m \in Images :
         /\ u \notin fcb /\ fcb' = fcb \cup {u} /\ file' = [file EXCEPT ![u] = m.cells]
         /\ recorded' = [recorded EXCEPT ![u] = m.blocks] /\ ends' = [ends EXCEPT ![u] = m.ends]
         /\ image' = [image EXCEPT ![u] = [ring |-> m.ring, padded |-> m.padded]]
         /\ deviceStatus' = [deviceStatus EXCEPT ![u] = {"loadpoint"}] /\ counted' = counted \ {u}
         /\ UNCHANGED <<head, lost, blockNo, tapeLength, bp, ioBuffer, devLength, tapeUnit,
                        tapeFcode, anyWrite, active, crashed, writes>>
  BY DEF Tape!mt669Load, Tape!Ready, Tape!transfer
<1>2. /\ m.cells \in Seq(Tape!ACell) /\ m.blocks \in Seq(Tape!ABlock) /\ m.ends \in Seq(Nat)
      /\ m.ring \in BOOLEAN /\ m.padded \in BOOLEAN
      /\ Tape!HoldsBlocks(m.cells, m.blocks, m.ends, m.padded)
      /\ Len(m.cells) = Tape!Behind(m.ends, Len(m.ends))
      /\ m.blocks \in Seq(Seq(Nat))
  BY ImageIs DEF TapeAssumption
<1>3. /\ fcb \subseteq Units /\ file \in [Units -> Seq(Tape!ACell)]
      /\ recorded \in [Units -> Seq(Tape!ABlock)] /\ ends \in [Units -> Seq(Nat)]
      /\ image \in [Units -> [ring : BOOLEAN, padded : BOOLEAN]]
      /\ deviceStatus \in [Units -> SUBSET Conditions] /\ counted \subseteq Units \ lost
      /\ lost \subseteq fcb /\ u \notin lost
  BY <1>1 DEF TInv, ReelTypes, HeadTypes
<1>4. PICK j \in Nat : AtBlock(u, j)
  BY <1>3, BlockBehind
<1>5. head[u] = 0 /\ Tape!Passed(u) = 0
  <2>1. recorded[u] = <<>>
    BY <1>1 DEF TInv, OnReel
  <2>2. Len(recorded[u]) = 0
    BY <2>1
  <2> QED
    BY <2>2, <1>4 DEF AtBlock
<1>6. /\ file'[u] = m.cells /\ recorded'[u] = m.blocks /\ ends'[u] = m.ends /\ image'[u].padded = m.padded
      /\ deviceStatus'[u] = {"loadpoint"}
      /\ \A v \in Units \ {u} : /\ file'[v] = file[v] /\ recorded'[v] = recorded[v] /\ ends'[v] = ends[v]
                                /\ image'[v] = image[v] /\ deviceStatus'[v] = deviceStatus[v]
                                /\ (v \in fcb' <=> v \in fcb) /\ (v \in counted' <=> v \in counted)
  BY <1>1, <1>3
<1>7. ReelTypes' /\ HeadTypes'
  <2>1. fcb' \subseteq Units /\ counted' \subseteq Units \ lost' /\ lost' \subseteq fcb'
    BY <1>1, <1>3
  <2>2. file' \in [Units -> Seq(Tape!ACell)]
    BY <1>1, <1>2, <1>3
  <2>3. recorded' \in [Units -> Seq(Tape!ABlock)]
    BY <1>1, <1>2, <1>3
  <2>4. ends' \in [Units -> Seq(Nat)]
    BY <1>1, <1>2, <1>3
  <2>5. image' \in [Units -> [ring : BOOLEAN, padded : BOOLEAN]]
    BY <1>1, <1>2, <1>3
  <2>6. deviceStatus' \in [Units -> SUBSET Conditions]
    <3>1. {"loadpoint"} \in SUBSET Conditions
      BY DEF Conditions
    <3> QED
      BY <3>1, <1>1, <1>3
  <2> QED
    BY <2>1, <2>2, <2>3, <2>4, <2>5, <2>6, <1>1 DEF TInv, ReelTypes, HeadTypes
<1>9. TapeFlowTypes' /\ InBuffer'
  <2>1. TapeFlowTypes'
    BY <1>1 DEF TInv, TapeFlowTypes
  <2>2. anyWrite /\ tapeUnit' \in counted' => image'[tapeUnit'].ring
    <3>1. tapeUnit \in Units
      BY DEF TInv, TapeFlowTypes
    <3> QED
      BY <3>1, <1>1, <1>6 DEF TInv, InBuffer
  <2>3. InBuffer'
    BY <2>2, <1>1 DEF TInv, InBuffer
  <2> QED
    BY <2>1, <2>3
<1>10. 0 \in 0..Len(m.ends) /\ Tape!Behind(m.ends, 0) = 0 /\ Tape!LastBehind(m.ends, 0) = 0
  BY <1>2, AtStart
<1>11. ASSUME NEW v \in Units PROVE OnReel(v)' /\ Placed(v)'
  <2>1. CASE v = u
    <3>1. OnReel(v)'
      BY <2>1, <1>1, <1>2, <1>6 DEF OnReel
    <3>2. HeadAt(v, 0)'
      BY <2>1, <1>1, <1>5, <1>6, <1>10 DEF HeadAt
    <3>3. v \notin counted' /\ v \notin lost'
      BY <2>1, <1>1, <1>3
    <3>4. CountIs(v, IF anyWrite /\ v = tapeUnit THEN 0 + 1 ELSE 0)'
      BY <3>3 DEF CountIs
    <3> QED
      BY <3>1, <3>2, <3>3, <3>4 DEF Placed
  <2>2. CASE v # u
    <3>1. OnReel(v)' /\ Placed(v)
      BY <2>2, <1>1, <1>6 DEF TInv, OnReel
    <3>2. CASE v \in lost
      <4>1. head[v] = 0
        BY <3>1, <3>2 DEF Placed
      <4> QED
        BY <3>1, <3>2, <4>1, <1>1 DEF Placed
    <3>3. CASE v \notin lost
      <4>1. PICK k \in Nat : HeadAt(v, k) /\ CountIs(v, IF anyWrite /\ v = tapeUnit THEN k + 1 ELSE k)
        BY <3>1, <3>3 DEF Placed
      <4>2. HeadAt(v, k)' /\ CountIs(v, IF anyWrite /\ v = tapeUnit THEN k + 1 ELSE k)'
        BY <2>2, <4>1, <1>1, <1>6 DEF HeadAt, CountIs
      <4> QED
        BY <3>1, <3>3, <4>2, <1>1 DEF Placed
    <3> QED
      BY <3>2, <3>3
  <2> QED
    BY <2>1, <2>2
<1>12. \A v \in Units : Tape!Passed(v)' = Tape!Passed(v)
  BY <1>1, <1>5, <1>6, <1>10 DEF Tape!Passed
<1>13. UNCHANGED [v \in Units |-> Tape!Passed(v)]
  BY <1>12
<1>14. Tape!Given' = Tape!Given
  BY <1>1 DEF Tape!Given
<1>15. Tape!Drive!Mount(u)
  <2>1. recorded'[u] \in Seq(Seq(Nat))
    BY <1>2, <1>6
  <2>2. \A v \in Units \ {u} : recorded'[v] = recorded[v]
    BY <1>6
  <2>3. {v \in fcb : image[v].padded}' \ {u} = {v \in fcb : image[v].padded}
    BY <1>1, <1>3, <1>6
  <2>4. UNCHANGED {v \in fcb : Tape!End(v) < Len(file[v])}
    <3>1. \A v \in fcb : v \in Units \ {u} /\ Tape!End(v)' = Tape!End(v) /\ file'[v] = file[v]
      BY <1>1, <1>3, <1>6 DEF Tape!End
    <3>2. Tape!End(u)' = Len(m.cells) /\ file'[u] = m.cells /\ Len(m.cells) \in Nat
      BY <1>2, <1>6 DEF Tape!End
    <3>3. ~(Tape!End(u)' < Len(file'[u]))
      BY <3>2
    <3> QED
      BY <3>1, <3>3, <1>1
  <2> QED
    BY <2>1, <2>2, <2>3, <2>4, <1>1, <1>13, <1>14 DEF Tape!Drive!Mount, Tape!Drive!Block
<1>16. Tape!DriveStep
  BY <1>15 DEF Tape!DriveStep, Tape!Drive!Next
<1> QED
  BY <1>7, <1>9, <1>11, <1>16 DEF TInv

\* mt669Init.
LEMMA TapeStarts ==
    ASSUME DevicesAssumption, TapeAssumption, Tape!Init
    PROVE  TInv /\ Tape!Drive!Init
<1>1. /\ tapePlan \in TapePlans /\ fcb = tapePlan.mounted
      /\ recorded = [u \in Units |-> IF u \in fcb THEN Mounted[u].blocks ELSE <<>>]
      /\ file = [u \in Units |-> IF u \in fcb THEN Mounted[u].cells ELSE <<>>]
      /\ ends = [u \in Units |-> IF u \in fcb THEN Mounted[u].ends ELSE <<>>]
      /\ image = [u \in Units |-> [ring |-> FALSE, padded |-> u \in fcb /\ Mounted[u].padded]]
      /\ deviceStatus = [u \in Units |-> IF u \in fcb THEN {"loadpoint"} ELSE {}]
      /\ head = [u \in Units |-> 0] /\ blockNo = [u \in Units |-> 0]
      /\ tapeLength = [u \in Units |-> 0] /\ bp = [u \in Units |-> 0]
      /\ ioBuffer = [u \in Units |-> [i \in 0..MaxRecord |-> 0]]
      /\ tapeUnit \in Units /\ tapeFcode = "motion" /\ devLength = 0
      /\ anyWrite = FALSE /\ active = FALSE /\ crashed = FALSE /\ lost = {}
      /\ counted = Units /\ writes = 0 /\ loads = 0
  BY DEF Tape!Init
<1>2. fcb \subseteq DOMAIN Mounted /\ fcb \subseteq Units
  BY <1>1 DEF TapeAssumption
<1>3. ASSUME NEW u \in Units
      PROVE  /\ file[u] \in Seq(Tape!ACell) /\ recorded[u] \in Seq(Tape!ABlock) /\ ends[u] \in Seq(Nat)
             /\ image[u] \in [ring : BOOLEAN, padded : BOOLEAN]
             /\ Tape!HoldsBlocks(file[u], recorded[u], ends[u], image[u].padded)
             /\ Len(file[u]) = Tape!End(u)
             /\ u \notin fcb => recorded[u] = <<>> /\ file[u] = <<>>
             /\ recorded[u] \in Seq(Seq(Nat))
  <2>1. CASE u \in fcb
    <3>1. PICK m : m = Mounted[u]
      OBVIOUS
    <3>2. Tape!IsImage(m)
      BY <2>1, <3>1, <1>2 DEF TapeAssumption
    <3>3. /\ m.cells \in Seq(Tape!ACell) /\ m.blocks \in Seq(Tape!ABlock) /\ m.ends \in Seq(Nat)
          /\ m.padded \in BOOLEAN
          /\ Tape!HoldsBlocks(m.cells, m.blocks, m.ends, m.padded)
          /\ Len(m.cells) = Tape!Behind(m.ends, Len(m.ends))
          /\ m.blocks \in Seq(Seq(Nat))
      BY <3>2, ImageIs
    <3>4. file[u] = m.cells /\ recorded[u] = m.blocks /\ ends[u] = m.ends
      BY <2>1, <3>1, <1>1
    <3>5. image[u] = [ring |-> FALSE, padded |-> u \in fcb /\ m.padded]
      BY <3>1, <1>1
    <3>6. (u \in fcb /\ m.padded) = m.padded
      BY <2>1, <3>3
    <3>7. image[u] = [ring |-> FALSE, padded |-> m.padded]
      BY <3>5, <3>6
    <3>8. image[u] \in [ring : BOOLEAN, padded : BOOLEAN] /\ image[u].padded = m.padded
      BY <3>3, <3>7
    <3>9. Len(file[u]) = Tape!End(u)
      BY <3>3, <3>4 DEF Tape!End
    <3> QED
      BY <2>1, <3>3, <3>4, <3>8, <3>9
  <2>2. CASE u \notin fcb
    <3>1. file[u] = <<>> /\ recorded[u] = <<>> /\ ends[u] = <<>>
      BY <2>2, <1>1
    <3>2. <<>> \in Seq(Tape!ACell) /\ <<>> \in Seq(Tape!ABlock) /\ <<>> \in Seq(Nat) /\ <<>> \in Seq(Seq(Nat))
      OBVIOUS
    <3>3. PICK b : b = (u \in fcb /\ Mounted[u].padded)
      OBVIOUS
    <3>4. b = FALSE
      BY <2>2, <3>3
    <3>5. image[u] = [ring |-> FALSE, padded |-> b]
      BY <3>3, <1>1
    <3>6. image[u] \in [ring : BOOLEAN, padded : BOOLEAN]
      <4>1. image[u] = [ring |-> FALSE, padded |-> FALSE]
        BY <3>4, <3>5
      <4>2. FALSE \in BOOLEAN
        OBVIOUS
      <4> QED
        BY <4>1, <4>2
    <3>7. Tape!HoldsBlocks(<<>>, <<>>, <<>>, image[u].padded)
      BY BareReel
    <3>8. Len(file[u]) = Tape!End(u)
      <4>1. Len(<<>>) = 0
        OBVIOUS
      <4> QED
        BY <4>1, <3>1 DEF Tape!End, Tape!Behind
    <3> QED
      BY <2>2, <3>1, <3>2, <3>6, <3>7, <3>8
  <2> QED
    BY <2>1, <2>2
<1>4. ReelTypes
  <2>1. file \in [Units -> Seq(Tape!ACell)]
    BY <1>1, <1>3
  <2>2. recorded \in [Units -> Seq(Tape!ABlock)]
    BY <1>1, <1>3
  <2>3. ends \in [Units -> Seq(Nat)]
    BY <1>1, <1>3
  <2>4. image \in [Units -> [ring : BOOLEAN, padded : BOOLEAN]]
    BY <1>1, <1>3
  <2> QED
    BY <2>1, <2>2, <2>3, <2>4, <1>1, <1>2 DEF ReelTypes
<1>5. HeadTypes
  <2>1. {"loadpoint"} \in SUBSET Conditions /\ {} \in SUBSET Conditions
    BY DEF Conditions
  <2> QED
    BY <2>1, <1>1 DEF HeadTypes
<1>6. TapeFlowTypes /\ InBuffer
  <2>1. 0 \in 0..MaxRecord
    BY Record0
  <2>2. tapeLength \in [Units -> 0..MaxRecord] /\ bp \in [Units -> 0..MaxRecord]
    BY <2>1, <1>1
  <2>3. ioBuffer \in [Units -> [0..MaxRecord -> Nat]]
    BY <1>1
  <2>4. TapeFlowTypes
    BY <2>1, <2>2, <2>3, <1>1 DEF TapeFlowTypes
  <2> QED
    BY <2>4, <1>1 DEF InBuffer
<1>7. ASSUME NEW u \in Units PROVE OnReel(u) /\ Placed(u) /\ Tape!Passed(u) = 0
  <2>1. 0 \in 0..Len(ends[u]) /\ Tape!Behind(ends[u], 0) = 0 /\ Tape!LastBehind(ends[u], 0) = 0
    BY <1>3, AtStart
  <2>2. head[u] = 0 /\ blockNo[u] = 0
    BY <1>1
  <2>3. HeadAt(u, 0) /\ CountIs(u, 0)
    BY <2>1, <2>2 DEF HeadAt, CountIs
  <2>4. OnReel(u)
    BY <1>3 DEF OnReel
  <2>5. Tape!Passed(u) = 0
    BY <2>1, <2>2 DEF Tape!Passed
  <2> QED
    BY <2>3, <2>4, <2>5, <1>1 DEF Placed
<1>8. TInv
  BY <1>4, <1>5, <1>6, <1>7 DEF TInv
<1>9. Tape!Given = <<>>
  BY <1>1 DEF Tape!Given
<1>10. recorded \in [Units -> Seq(Seq(Nat))]
  BY <1>1, <1>3
<1>11. [u \in Units |-> Tape!Passed(u)] = [u \in Units |-> 0]
  BY <1>7
<1>12. Tape!Drive!Init
  <2>1. {u \in fcb : Tape!End(u) < Len(file[u])} = {}
    <3>1. ASSUME NEW u \in fcb PROVE Len(file[u]) = Tape!End(u) /\ Len(file[u]) \in Nat
      <4>1. u \in Units /\ file[u] \in Seq(Tape!ACell)
        BY <1>2, <1>3 DEF ReelTypes
      <4>2. Len(file[u]) \in Nat
        BY <4>1
      <4>3. Len(file[u]) = Tape!End(u)
        BY <4>1, <1>2, <1>3
      <4> QED
        BY <4>2, <4>3
    <3> QED
      BY <3>1
  <2>2. {u \in fcb : image[u].padded} \subseteq fcb
    OBVIOUS
  <2> QED
    BY <2>1, <2>2, <1>1, <1>2, <1>9, <1>10, <1>11 DEF Tape!Drive!Init, Tape!Drive!Block
<1> QED
  BY <1>8, <1>12

\* Each step of the controller.
LEMMA TNextKeeps ==
    ASSUME TapeAssumption, TInv, Tape!Next
    PROVE  TInv' /\ Tape!DriveStep
<1>1. CASE Tape!Motion
  <2>1. \/ Tape!ReadFwd \/ Tape!Forespace \/ Tape!Backspace \/ Tape!ReadBkw \/ Tape!Reposition
        \/ Tape!Rewind \/ Tape!ClearUnit \/ \E u \in Units : Tape!ConnectRewindRead(u)
    BY <1>1 DEF Tape!Motion
  <2> QED
    BY <2>1, ReadFwdKeeps, ForespaceKeeps, BackspaceKeeps, ReadBkwKeeps, RepositionKeeps, RewindKeeps,
       ClearKeeps, RewindReadKeeps
<1>2. CASE Tape!Transfer
  <2>1. Tape!WriteWord \/ Tape!ReadWord \/ Tape!ReadEnd \/ Tape!Disconnect
    BY <1>2 DEF Tape!Transfer
  <2> QED
    BY <2>1, WriteWordKeeps, ReadWordKeeps, ReadEndKeeps, DisconnectKeeps
<1>3. CASE Tape!WriteEOF \/ Tape!Write \/ Tape!RewindUnload
  BY <1>3, WriteEOFKeeps, WriteTapeKeeps, UnloadTapeKeeps
<1>4. ASSUME NEW u \in Units, Tape!Connect(u) \/ Tape!mt669Load(u)
      PROVE  TInv' /\ Tape!DriveStep
  BY <1>4, ConnectUnitKeeps, LoadTapeKeeps
<1> QED
  BY <1>1, <1>2, <1>3, <1>4 DEF Tape!Next

\* The tapes are left alone while another device is in use.
LEMMA TStays == ASSUME TInv, UNCHANGED tapeVars PROVE TInv'
<1>1. UNCHANGED <<file, fcb, image, head, lost, deviceStatus, blockNo, tapeLength, bp, ioBuffer,
                  tapeUnit, devLength, tapeFcode, anyWrite, active, crashed, recorded, ends, counted,
                  writes, loads>>
  BY DEF tapeVars
<1>2. ReelTypes' /\ HeadTypes' /\ \A v \in Units : OnReel(v)' /\ Placed(v)'
  BY <1>1, ReelsStay
<1>3. TapeFlowTypes' /\ InBuffer'
  BY <1>1 DEF TInv, TapeFlowTypes, InBuffer
<1> QED
  BY <1>2, <1>3 DEF TInv

\* The inductive invariant is strong enough.
LEMMA TInvSafe == ASSUME TInv PROVE Tape!DriveSafe
<1>1. ASSUME NEW u \in Units
      PROVE  /\ head[u] \in 0..Len(file[u])
             /\ deviceStatus[u] \subseteq {"loadpoint", "tapemark", "eot", "astray"}
             /\ tapeLength[u] \in 0..MaxRecord /\ bp[u] \in 0..MaxRecord
             /\ u \notin lost => \E i \in 0..Len(ends[u]) : head[u] = Tape!Behind(ends[u], i)
             /\ Len(ends[u]) = Len(recorded[u])
             /\ u \in counted \cap fcb =>
                   blockNo[u] = Tape!Passed(u) + (IF anyWrite /\ u = tapeUnit THEN 1 ELSE 0)
  <2>1. Len(file[u]) \in Nat /\ counted \subseteq Units \ lost
    BY DEF TInv, ReelTypes
  <2>2. /\ deviceStatus[u] \subseteq {"loadpoint", "tapemark", "eot", "astray"}
        /\ tapeLength[u] \in 0..MaxRecord /\ bp[u] \in 0..MaxRecord /\ Len(ends[u]) = Len(recorded[u])
    BY EndsAre DEF TInv, HeadTypes, TapeFlowTypes, Conditions
  <2>3. CASE u \in lost
    <3>1. head[u] = 0 /\ u \notin counted
      BY <2>1, <2>3 DEF TInv, Placed
    <3> QED
      BY <2>1, <2>2, <2>3, <3>1
  <2>4. CASE u \notin lost
    <3>1. PICK j \in Nat : AtBlock(u, j)
      BY <2>4, BlockBehind
    <3>2. head[u] \in 0..Len(file[u])
      <4>1. CASE j = 0
        BY <2>1, <4>1, <3>1 DEF AtBlock
      <4>2. CASE j # 0
        <5>1. RecordAt(u, j) /\ head[u] = ends[u][j]
          BY <4>2, <3>1 DEF AtBlock
        <5> QED
          BY <5>1, <2>1 DEF RecordAt
      <4> QED
        BY <4>1, <4>2
    <3>3. \E i \in 0..Len(ends[u]) : head[u] = Tape!Behind(ends[u], i)
      BY <3>1 DEF AtBlock, HeadAt
    <3>4. u \in counted \cap fcb =>
             blockNo[u] = Tape!Passed(u) + (IF anyWrite /\ u = tapeUnit THEN 1 ELSE 0)
      BY <3>1 DEF AtBlock, CountIs
    <3> QED
      BY <2>2, <3>2, <3>3, <3>4
  <2> QED
    BY <2>3, <2>4
<1>2. Tape!TypeOK
  BY <1>1 DEF Tape!TypeOK, TInv, ReelTypes, TapeFlowTypes, InBuffer
<1>3. ASSUME NEW u \in Units, NEW i \in DOMAIN ends[u]
      PROVE  LET p == Tape!Behind(ends[u], i - 1)
             IN  /\ Tape!RecordEnd(file[u], p) = ends[u][i] /\ Tape!RecordStart(file[u], ends[u][i]) = p
                 /\ Tape!Body(file[u], p, Tape!Cell(file[u], p).v) = recorded[u][i]
  <2>1. i \in 1..Len(ends[u])
    BY EndsAre
  <2>2. RecordAt(u, i)
    BY <2>1, RecordsAt
  <2> QED
    BY <2>2 DEF RecordAt
<1>4. Tape!HeadBetweenRecords
  BY <1>1, <1>3 DEF Tape!HeadBetweenRecords
<1>5. Tape!BlocksCounted
  BY <1>1, <1>2 DEF Tape!BlocksCounted, TInv, ReelTypes
<1> QED
  BY <1>2, <1>4, <1>5 DEF Tape!DriveSafe

\* No other device touches the tapes, and none becomes them.
LEMMA OthersKeepTapes ==
    ASSUME [Next]_vars, device' = "tape"
    PROVE  device = "tape" /\ (Tape!Next \/ UNCHANGED tapeVars)
<1>1. CASE DiskStep \/ CardStep \/ OldStep \/ ClockStep \/ MuxStep
  <2>1. device # "tape" /\ device' = device
    BY <1>1 DEF DiskStep, CardStep, OldStep, ClockStep, MuxStep, OldOnes
  <2> QED
    BY <2>1
<1>2. CASE TapeStep
  BY <1>2 DEF TapeStep
<1>3. CASE UNCHANGED vars
  BY <1>3 DEF vars
<1> QED
  BY <1>1, <1>2, <1>3 DEF Next

\* The inductive invariant of the 669 tapes holds whenever they are the device in use.
THEOREM TapeInvariance == Spec => [](device = "tape" => TInv)
<1>1. Init => (device = "tape" => TInv)
  BY TapeStarts, DevicesAssumption, TapeAssumption DEF Init
<1>2. (device = "tape" => TInv) /\ [Next]_vars => (device = "tape" => TInv)'
  <2>1. ASSUME device = "tape" => TInv, [Next]_vars, device' = "tape" PROVE TInv'
    BY <2>1, OthersKeepTapes, TNextKeeps, TStays, TapeAssumption
  <2> QED
    BY <2>1
<1> QED
  BY <1>1, <1>2, PTL DEF Spec

\* However reads in both directions, writes, spacing over records, repositioning, rewinds, unloads and
\* the operator's loads on any number of drives interleave, with transfers cut off anywhere and writes
\* that go to another drive than they were announced to: all that was last recorded on a drive can be
\* found in its file from both sides, over padded records and tape marks and in front of the remains of
\* older recordings; its head is between two records, unless it was lost since the last rewind, where
\* a reposition went back over a padded record or a motion went on into such remains; and while the
\* block number counts it is right (mt669FuncRead, mt669FuncReadBkw, mt669FuncForespace,
\* mt669FuncBackspace, mt669FuncReposition, mt669Disconnect, mt669Load).
THEOREM TapesCorrect == Spec => []TapeSafe
<1>1. (device = "tape" => TInv) => TapeSafe
  BY TInvSafe DEF TapeSafe
<1> QED
  BY <1>1, TapeInvariance, PTL

\* The 669 controller implements drives that know only blocks: each of its steps reads, passes or
\* writes one whole block, gives the PP the next word of what was read - forward the block, backward
\* one stale word and then the block without its first word - or lets a drive get lost in one of the two
\* ways that TapeDrive names (mt669Func, mt669Io, mt669Disconnect).
THEOREM TapesImplementDrive == Spec => IsDrive
<1>1. Init => (device = "tape" => Tape!Drive!Init)
  BY TapeStarts, DevicesAssumption, TapeAssumption DEF Init
<1>2. (device = "tape" => TInv) /\ [Next]_vars => [device = "tape" => Tape!DriveStep]_tapeVars
  <2>1. SUFFICES ASSUME device = "tape" => TInv, [Next]_vars, tapeVars' # tapeVars, device = "tape"
                 PROVE  Tape!DriveStep
    OBVIOUS
  <2>2. Tape!Next
    <3>1. CASE DiskStep \/ CardStep \/ OldStep \/ ClockStep \/ MuxStep
      BY <2>1, <3>1 DEF DiskStep, CardStep, OldStep, ClockStep, MuxStep
    <3>2. CASE TapeStep
      BY <3>2 DEF TapeStep
    <3>3. CASE UNCHANGED vars
      BY <2>1, <3>3 DEF vars
    <3> QED
      BY <2>1, <3>1, <3>2, <3>3 DEF Next
  <2> QED
    BY <2>1, <2>2, TNextKeeps, TapeAssumption
<1> QED
  BY <1>1, <1>2, TapeInvariance, PTL DEF Spec, IsDrive
=============================================================================
