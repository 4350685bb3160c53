-------------------------- MODULE ResolutionProofs --------------------------
(***************************************************************************)
(* The types of Resolution, the scope of the flags of a SyncRes among      *)
(* them, and that clients are told the truth in worlds where glue agrees   *)
(* with the owners of names; for any worlds, workers and limits.           *)
(*                                                                         *)
(* Whatever an action does to the stack of its worker is one of four       *)
(* things: it goes on in the top frame, calls a new one, returns to the    *)
(* one below, or ends the question.  What holds of a stack is stated of    *)
(* frames and of neighbours and shown to survive each of these once; the   *)
(* actions are then a matter of the frames they touch.                     *)
(***************************************************************************)
EXTENDS Resolution, WellFoundedInduction, FiniteSetTheorems, TLAPS

-----------------------------------------------------------------------------
(* Sequences *)

IsSeq(s) == \E S : s \in Seq(S)

LEMMA Empty == IsSeq(<<>>) /\ Len(<<>>) = 0
  BY DEF IsSeq

LEMMA Lengths ==
  ASSUME NEW s, IsSeq(s)
  PROVE  Len(s) \in Nat /\ DOMAIN s = 1 .. Len(s) /\ (s = <<>> <=> Len(s) = 0)
<1>1. PICK S : s \in Seq(S)
  BY DEF IsSeq
<1> QED
  BY <1>1

LEMMA Appended ==
  ASSUME NEW s, IsSeq(s), NEW x
  PROVE  /\ IsSeq(Append(s, x)) /\ Len(Append(s, x)) = Len(s) + 1
         /\ \A i \in 1 .. Len(s) : Append(s, x)[i] = s[i]
         /\ Append(s, x)[Len(s) + 1] = x
<1>1. PICK S : s \in Seq(S)
  BY DEF IsSeq
<1>2. PICK T : T = S \cup {x}
  OBVIOUS
<1>3. s \in Seq(T) /\ x \in T
  <2>1. S \subseteq T
    BY <1>2
  <2> QED
    BY <1>1, <1>2, <2>1
<1>4. Append(s, x) \in Seq(T)
  BY <1>3
<1> QED
  BY <1>3, <1>4 DEF IsSeq

LEMMA Joined ==
  ASSUME NEW s, IsSeq(s), NEW t, IsSeq(t)
  PROVE  /\ IsSeq(s \o t) /\ Len(s \o t) = Len(s) + Len(t)
         /\ \A i \in 1 .. Len(s) : (s \o t)[i] = s[i]
         /\ \A i \in 1 .. Len(t) : (s \o t)[Len(s) + i] = t[i]
<1>1. PICK S, T : s \in Seq(S) /\ t \in Seq(T)
  BY DEF IsSeq
<1>2. PICK U : U = S \cup T
  OBVIOUS
<1>3. s \in Seq(U) /\ t \in Seq(U)
  <2>1. S \subseteq U /\ T \subseteq U
    BY <1>2
  <2> QED
    BY <1>1, <2>1
<1>4. s \o t \in Seq(U)
  BY <1>3
<1> QED
  BY <1>3, <1>4 DEF IsSeq

LEMMA Shortened ==
  ASSUME NEW s, IsSeq(s), s # <<>>
  PROVE  /\ IsSeq(Front(s)) /\ Len(Front(s)) = Len(s) - 1
         /\ \A i \in 1 .. Len(s) - 1 : Front(s)[i] = s[i]
<1>1. PICK S : s \in Seq(S)
  BY DEF IsSeq
<1>2. PICK n \in Nat : n = Len(s) /\ n > 0
  BY <1>1
<1>3. /\ SubSeq(s, 1, n - 1) \in Seq(S) /\ Len(SubSeq(s, 1, n - 1)) = n - 1
      /\ \A i \in 1 .. n - 1 : SubSeq(s, 1, n - 1)[i] = s[i]
  BY <1>1, <1>2
<1>4. Front(s) = SubSeq(s, 1, n - 1)
  BY <1>2 DEF Front
<1> QED
  BY <1>2, <1>3, <1>4 DEF IsSeq

LEMMA Same ==
  ASSUME NEW s, IsSeq(s), NEW t, IsSeq(t), Len(s) = Len(t), \A i \in 1 .. Len(s) : s[i] = t[i]
  PROVE  s = t
<1>1. PICK S, T : s \in Seq(S) /\ t \in Seq(T)
  BY DEF IsSeq
<1> QED
  BY <1>1

\* The top of a stack is replaced,
LEMMA Replaced ==
  ASSUME NEW s, IsSeq(s), s # <<>>, NEW f
  PROVE  /\ IsSeq(Append(Front(s), f)) /\ Len(Append(Front(s), f)) = Len(s)
         /\ \A i \in 1 .. Len(s) - 1 : Append(Front(s), f)[i] = s[i]
         /\ Append(Front(s), f)[Len(s)] = f
<1>1. PICK n \in Nat : n = Len(s) /\ n > 0
  BY Lengths
<1>2. PICK t : t = Front(s)
  OBVIOUS
<1>3. IsSeq(t) /\ Len(t) = n - 1 /\ \A i \in 1 .. n - 1 : t[i] = s[i]
  BY <1>1, <1>2, Shortened
<1>4. IsSeq(Append(t, f)) /\ Len(Append(t, f)) = n /\ Append(t, f)[n] = f
      /\ \A i \in 1 .. n - 1 : Append(t, f)[i] = t[i]
  <2>1. Len(t) + 1 = n
    BY <1>1, <1>3
  <2> QED
    BY <1>3, <2>1, Appended
<1> QED
  BY <1>1, <1>2, <1>3, <1>4

\* by two,
LEMMA Pushed ==
  ASSUME NEW s, IsSeq(s), s # <<>>, NEW f, NEW g
  PROVE  /\ IsSeq(Front(s) \o <<f, g>>) /\ Len(Front(s) \o <<f, g>>) = Len(s) + 1
         /\ \A i \in 1 .. Len(s) - 1 : (Front(s) \o <<f, g>>)[i] = s[i]
         /\ (Front(s) \o <<f, g>>)[Len(s)] = f /\ (Front(s) \o <<f, g>>)[Len(s) + 1] = g
<1>1. PICK n \in Nat : n = Len(s) /\ n > 0
  BY Lengths
<1>2. PICK t, u : t = Front(s) /\ u = <<f, g>>
  OBVIOUS
<1>3. IsSeq(t) /\ Len(t) = n - 1 /\ \A i \in 1 .. n - 1 : t[i] = s[i]
  BY <1>1, <1>2, Shortened
<1>4. IsSeq(u) /\ Len(u) = 2 /\ u[1] = f /\ u[2] = g
  <2>1. u \in Seq({f, g})
    BY <1>2
  <2> QED
    BY <1>2, <2>1 DEF IsSeq
<1>5. /\ IsSeq(t \o u) /\ Len(t \o u) = Len(t) + Len(u)
      /\ \A i \in 1 .. Len(t) : (t \o u)[i] = t[i]
      /\ \A i \in 1 .. Len(u) : (t \o u)[Len(t) + i] = u[i]
  <2>1. IsSeq(t) /\ IsSeq(u)
    BY <1>3, <1>4
  <2> QED
    BY <2>1, Joined
<1>6. (t \o u)[n] = f /\ (t \o u)[n + 1] = g
  <2>1. 1 \in 1 .. Len(u) /\ 2 \in 1 .. Len(u) /\ Len(t) + 1 = n /\ Len(t) + 2 = n + 1
    BY <1>1, <1>3, <1>4
  <2> QED
    BY <1>4, <1>5, <2>1
<1>7. Len(t \o u) = n + 1 /\ \A i \in 1 .. n - 1 : (t \o u)[i] = s[i]
  BY <1>1, <1>3, <1>4, <1>5
<1> QED
  BY <1>1, <1>2, <1>5, <1>6, <1>7

\* or gone and the next one replaced.
LEMMA Popped ==
  ASSUME NEW s, IsSeq(s), s # <<>>, Len(s) # 1, NEW f
  PROVE  /\ Last(Front(s)) = s[Len(s) - 1]
         /\ IsSeq(Append(Front(Front(s)), f)) /\ Len(Append(Front(Front(s)), f)) = Len(s) - 1
         /\ \A i \in 1 .. Len(s) - 2 : Append(Front(Front(s)), f)[i] = s[i]
         /\ Append(Front(Front(s)), f)[Len(s) - 1] = f
<1>1. PICK n \in Nat : n = Len(s) /\ n > 1
  <2>1. PICK n \in Nat : n = Len(s)
    BY Lengths
  <2>2. n # 0 /\ n # 1
    BY <2>1, Lengths
  <2> QED
    BY <2>1, <2>2
<1>2. PICK t : t = Front(s)
  OBVIOUS
<1>3. IsSeq(t) /\ Len(t) = n - 1 /\ \A i \in 1 .. n - 1 : t[i] = s[i]
  BY <1>1, <1>2, Shortened
<1>4. t # <<>> /\ Last(t) = s[n - 1]
  <2>1. n - 1 \in 1 .. n - 1
    BY <1>1
  <2> QED
    BY <1>1, <1>3, <2>1, Lengths DEF Last
<1>5. PICK u : u = Append(Front(t), f)
  OBVIOUS
<1>6. IsSeq(u) /\ Len(u) = n - 1 /\ (\A i \in 1 .. (n - 1) - 1 : u[i] = t[i]) /\ u[n - 1] = f
  <2>1. /\ IsSeq(u) /\ Len(u) = Len(t) /\ u[Len(t)] = f
        /\ \A i \in 1 .. Len(t) - 1 : u[i] = t[i]
    BY ONLY <1>3, <1>4, <1>5, Replaced
  <2> QED
    BY <1>3, <2>1
<1>7. \A i \in 1 .. n - 2 : u[i] = s[i]
  BY <1>1, <1>3, <1>6
<1> QED
  BY <1>1, <1>2, <1>4, <1>5, <1>6, <1>7

-----------------------------------------------------------------------------
(* The flags of a SyncRes *)

\* Places in which a frame waits for one that it called; at two of them it is only the
\* caches that the called one may look into (of a server, when it is asked of itself).
Calls == {"peeked", "childAsked", "aliasFollowed", "targetResolved", "serverResolved"}
Looks == {"peeked", "serverResolved"}

\* What the flags are to be for frame i, by the frames below it.
Trusting(s, i)  == \A j \in 1 .. i - 1 : s[j].at # "serverResolved"
Following(s, i) == \A j \in 1 .. i - 1 : s[j].at \notin {"serverResolved", "childAsked"}
Looking(s, i)   ==
  \E j \in 1 .. i - 1 : /\ s[j].at \in Looks
                        /\ \A k \in j + 1 .. i - 1 : s[k].at \notin Looks
                        /\ s[j].at = "peeked" \/ s[j + 1].q = s[j].q

FlagsAt(s, i, m) ==
  m.cacheOnly = Looking(s, i) /\ m.requireAuth = Trusting(s, i) /\ m.follow = Following(s, i)

\* When the frame it called has returned, some of them are still those of that frame.
FlagsBack(s, i, m) ==
  /\ m.requireAuth = Trusting(s, i + 1) /\ m.follow = Following(s, i + 1)
  /\ s[i].at \notin Looks => m.cacheOnly = Looking(s, i)

\* What a frame that called another has put aside are its own flags.
Kept(s, i) ==
  /\ s[i].at = "peeked" => s[i].old = Looking(s, i)
  /\ s[i].at = "childAsked" => s[i].old = Following(s, i)
  /\ s[i].at = "serverResolved" => FlagsAt(s, i, s[i].saved)

LEMMA Booleans ==
  ASSUME NEW s, NEW i
  PROVE  Trusting(s, i) \in BOOLEAN /\ Following(s, i) \in BOOLEAN /\ Looking(s, i) \in BOOLEAN
BY Zenon DEF Trusting, Following, Looking

LEMMA Equal ==
  ASSUME NEW P \in BOOLEAN, NEW Q \in BOOLEAN, P <=> Q
  PROVE  P = Q
OBVIOUS

LEMMA Alike ==
  ASSUME NEW s, NEW t, NEW i \in Nat,
         \A j \in 1 .. i - 1 : s[j].at = t[j].at /\ s[j].q = t[j].q, s[i].q = t[i].q
  PROVE  Trusting(s, i) = Trusting(t, i) /\ Following(s, i) = Following(t, i)
         /\ Looking(s, i) = Looking(t, i)
<1>1. Trusting(s, i) <=> Trusting(t, i)
  BY DEF Trusting
<1>2. Following(s, i) <=> Following(t, i)
  BY DEF Following
<1>3. \A j \in 1 .. i - 1 : s[j + 1].q = t[j + 1].q
  <2> TAKE j \in 1 .. i - 1
  <2>1. j + 1 \in 1 .. i - 1 \/ j + 1 = i
    OBVIOUS
  <2> QED
    BY <2>1
<1>4. \A j \in 1 .. i - 1 : \A k \in j + 1 .. i - 1 : s[k].at = t[k].at
  OBVIOUS
<1>5. Looking(s, i) <=> Looking(t, i)
  BY <1>3, <1>4 DEF Looking
<1> QED
  BY <1>1, <1>2, <1>5, Booleans, Equal

LEMMA AlikeAt ==
  ASSUME NEW s, NEW t, NEW i \in Nat, NEW m, FlagsAt(s, i, m),
         \A j \in 1 .. i - 1 : s[j].at = t[j].at /\ s[j].q = t[j].q, s[i].q = t[i].q
  PROVE  FlagsAt(t, i, m)
<1>1. Trusting(s, i) = Trusting(t, i) /\ Following(s, i) = Following(t, i)
      /\ Looking(s, i) = Looking(t, i)
  BY Alike
<1> QED
  BY <1>1, Zenon DEF FlagsAt

\* The flags of the frame above, by where its caller is.
LEMMA Above ==
  ASSUME NEW s, NEW i \in Nat \ {0}
  PROVE  /\ Trusting(s, i + 1) = (Trusting(s, i) /\ s[i].at # "serverResolved")
         /\ Following(s, i + 1) = (Following(s, i) /\ s[i].at \notin {"serverResolved", "childAsked"})
         /\ s[i].at \notin Looks => Looking(s, i + 1) = Looking(s, i)
         /\ s[i].at = "peeked" => Looking(s, i + 1) = TRUE
         /\ s[i].at = "serverResolved" => Looking(s, i + 1) = (s[i + 1].q = s[i].q)
<1>1. PICK n \in Nat : n = i + 1
  OBVIOUS
<1>2. \A j : j \in 1 .. n - 1 <=> j \in 1 .. i - 1 \/ j = i
  BY <1>1
<1>3. Trusting(s, n) <=> Trusting(s, i) /\ s[i].at # "serverResolved"
  BY <1>2, Zenon DEF Trusting
<1>4. Following(s, n) <=> Following(s, i) /\ s[i].at \notin {"serverResolved", "childAsked"}
  BY <1>2, Zenon DEF Following
<1>5. ASSUME s[i].at \notin Looks
      PROVE  Looking(s, n) <=> Looking(s, i)
  <2>1. \A j \in 1 .. i - 1 : \A k : k \in j + 1 .. n - 1 <=> k \in j + 1 .. i - 1 \/ k = i
    BY <1>1
  <2> QED
    BY <1>2, <1>5, <2>1, Zenon DEF Looking
<1>6. ASSUME s[i].at \in Looks
      PROVE  Looking(s, n) <=> s[i].at = "peeked" \/ s[i + 1].q = s[i].q
  <2>1. \A j \in 1 .. i - 1 : i \in j + 1 .. n - 1
    BY <1>1
  <2>2. \A k \in i + 1 .. n - 1 : FALSE
    BY <1>1
  <2> QED
    BY <1>2, <1>6, <2>1, <2>2, Zenon DEF Looking
<1>7. \A A, B \in BOOLEAN : (A /\ B) \in BOOLEAN
  OBVIOUS
<1>8. /\ (s[i].at # "serverResolved") \in BOOLEAN
      /\ (s[i].at \notin {"serverResolved", "childAsked"}) \in BOOLEAN
      /\ (s[i + 1].q = s[i].q) \in BOOLEAN
  OBVIOUS
<1>9. "peeked" \in Looks /\ "serverResolved" \in Looks /\ "serverResolved" # "peeked"
  BY DEF Looks
<1> QED
  <2>1. Trusting(s, n) = (Trusting(s, i) /\ s[i].at # "serverResolved")
    BY <1>3, <1>7, <1>8, Booleans, Equal
  <2>2. Following(s, n) = (Following(s, i) /\ s[i].at \notin {"serverResolved", "childAsked"})
    BY <1>4, <1>7, <1>8, Booleans, Equal
  <2>3. s[i].at \notin Looks => Looking(s, n) = Looking(s, i)
    BY <1>5, Booleans, Equal
  <2>4. s[i].at = "peeked" => Looking(s, n) = TRUE
    BY <1>6, <1>9, Booleans, Equal
  <2>5. s[i].at = "serverResolved" => Looking(s, n) = (s[i + 1].q = s[i].q)
    BY <1>6, <1>8, <1>9, Booleans, Equal
  <2> QED
    BY <1>1, <2>1, <2>2, <2>3, <2>4, <2>5

LEMMA KeptAlike ==
  ASSUME NEW s, NEW t, NEW i \in Nat \ {0}, \A j \in 1 .. i : t[j] = s[j], Kept(s, i)
  PROVE  Kept(t, i)
<1>1. \A j \in 1 .. i - 1 : s[j].at = t[j].at /\ s[j].q = t[j].q
  OBVIOUS
<1>2. t[i] = s[i]
  OBVIOUS
<1>3. Looking(t, i) = Looking(s, i) /\ Following(t, i) = Following(s, i)
      /\ (FlagsAt(s, i, s[i].saved) => FlagsAt(t, i, s[i].saved))
  BY <1>1, <1>2, Alike, AlikeAt
<1> QED
  BY <1>2, <1>3, Zenon DEF Kept

-----------------------------------------------------------------------------
(* The stack of a worker and its SyncRes *)

IsFrame(f)  == DOMAIN f = DOMAIN Frame("noQM", Root, <<>>, 0, {})
IsObject(m) == DOMAIN m = DOMAIN NoOne

\* The packet that a frame is about to handle is what a server answered.
Heard(u, f) ==
  f.at = "answer" => \E a : f.packet = Sanitized(Reply(u, a, f.q), f.auth, f.q)

Stacked(u, s, m) ==
  /\ IsSeq(s) /\ Len(s) <= MaxStack
  /\ \A i \in 1 .. Len(s) : IsFrame(s[i]) /\ Kept(s, i)
  /\ \A i \in 1 .. Len(s) - 1 : s[i].at \in Calls
  /\ s # <<>> => /\ s[Len(s)].at \in Calls => FlagsBack(s, Len(s), m)
                 /\ s[Len(s)].at \notin Calls => FlagsAt(s, Len(s), m) /\ Heard(u, s[Len(s)])

LEMMA GoesOn ==
  ASSUME NEW u, NEW s, NEW m, Stacked(u, s, m), s # <<>>,
         NEW f, IsFrame(f), f.at \notin Calls, f.q = s[Len(s)].q, Heard(u, f),
         NEW object, FlagsAt(s, Len(s), object)
  PROVE  Stacked(u, Append(Front(s), f), object)
<1>1. IsSeq(s) /\ Len(s) <= MaxStack
  BY DEF Stacked
<1>2. PICK n \in Nat : n = Len(s) /\ n > 0
  BY <1>1, Lengths
<1>3. PICK t : t = Append(Front(s), f)
  OBVIOUS
<1>4. IsSeq(t) /\ Len(t) = n /\ (\A i \in 1 .. n - 1 : t[i] = s[i]) /\ t[n] = f
  BY <1>1, <1>2, <1>3, Replaced
<1>5. \A i \in 1 .. n - 1 : IsFrame(t[i]) /\ t[i].at \in Calls
  BY <1>2, <1>4 DEF Stacked
<1>6. ASSUME NEW i \in 1 .. n - 1
      PROVE  Kept(t, i)
  <2>1. Kept(s, i)
    BY <1>2 DEF Stacked
  <2>2. i \in Nat \ {0} /\ \A j \in 1 .. i : t[j] = s[j]
    BY <1>4
  <2> QED
    BY <2>1, <2>2, KeptAlike
<1>7. Kept(t, n)
  BY <1>4, Zenon DEF Kept, Calls
<1>8. FlagsAt(t, n, object)
  <2>1. \A j \in 1 .. n - 1 : s[j].at = t[j].at /\ s[j].q = t[j].q
    BY <1>4
  <2>2. s[n].q = t[n].q
    BY <1>2, <1>4
  <2> QED
    BY <1>2, <2>1, <2>2, AlikeAt
<1>9. \A i \in 1 .. n : i \in 1 .. n - 1 \/ i = n
  OBVIOUS
<1>10. t[n].at \notin Calls /\ IsFrame(t[n]) /\ Heard(u, t[n])
  BY <1>4
<1>11. t # <<>> => /\ t[n].at \in Calls => FlagsBack(t, n, object)
                   /\ t[n].at \notin Calls => FlagsAt(t, n, object) /\ Heard(u, t[n])
  BY <1>8, <1>10
<1>12. \A i \in 1 .. n : IsFrame(t[i]) /\ Kept(t, i)
  BY <1>5, <1>6, <1>7, <1>9, <1>10
<1> QED
  BY <1>1, <1>2, <1>3, <1>4, <1>5, <1>11, <1>12, Zenon DEF Stacked

LEMMA CallsUp ==
  ASSUME NEW u, NEW s, NEW m, Stacked(u, s, m), s # <<>>, Len(s) < MaxStack,
         NEW f, IsFrame(f), f.at \in Calls, f.q = s[Len(s)].q,
         f.at = "peeked" => f.old = Looking(s, Len(s)),
         f.at = "childAsked" => f.old = Following(s, Len(s)),
         f.at = "serverResolved" => FlagsAt(s, Len(s), f.saved),
         NEW g, IsFrame(g), g.at = "start",
         NEW object,
         object.requireAuth = (Trusting(s, Len(s)) /\ f.at # "serverResolved"),
         object.follow = (Following(s, Len(s)) /\ f.at \notin {"serverResolved", "childAsked"}),
         f.at \notin Looks => object.cacheOnly = Looking(s, Len(s)),
         f.at = "peeked" => object.cacheOnly = TRUE,
         f.at = "serverResolved" => object.cacheOnly = (g.q = f.q)
  PROVE  Stacked(u, Front(s) \o <<f, g>>, object)
<1>1. IsSeq(s)
  BY DEF Stacked
<1>2. PICK n \in Nat : n = Len(s) /\ n > 0
  BY <1>1, Lengths
<1>3. PICK t : t = Front(s) \o <<f, g>>
  OBVIOUS
<1>4. IsSeq(t) /\ Len(t) = n + 1 /\ (\A i \in 1 .. n - 1 : t[i] = s[i]) /\ t[n] = f /\ t[n + 1] = g
  BY <1>1, <1>2, <1>3, Pushed
<1>5. \A i \in 1 .. n - 1 : IsFrame(t[i]) /\ t[i].at \in Calls
  BY <1>2, <1>4 DEF Stacked
<1>6. ASSUME NEW i \in 1 .. n - 1
      PROVE  Kept(t, i)
  <2>1. Kept(s, i)
    BY <1>2 DEF Stacked
  <2>2. i \in Nat \ {0} /\ \A j \in 1 .. i : t[j] = s[j]
    BY <1>4
  <2> QED
    BY <2>1, <2>2, KeptAlike
<1>7. /\ Trusting(t, n) = Trusting(s, n) /\ Following(t, n) = Following(s, n)
      /\ Looking(t, n) = Looking(s, n) /\ (FlagsAt(s, n, f.saved) => FlagsAt(t, n, f.saved))
  <2>1. \A j \in 1 .. n - 1 : s[j].at = t[j].at /\ s[j].q = t[j].q
    BY <1>4
  <2>2. s[n].q = t[n].q
    BY <1>2, <1>4
  <2>3. ASSUME FlagsAt(s, n, f.saved)
        PROVE  FlagsAt(t, n, f.saved)
    <3>1. n \in Nat
      OBVIOUS
    <3> QED
      BY ONLY <2>1, <2>2, <2>3, <3>1, AlikeAt
  <2>4. /\ Trusting(t, n) = Trusting(s, n) /\ Following(t, n) = Following(s, n)
        /\ Looking(t, n) = Looking(s, n)
    BY <1>2, <2>1, <2>2, Alike
  <2> QED
    BY <2>3, <2>4, Zenon
<1>8. Kept(t, n)
  BY <1>2, <1>4, <1>7, Zenon DEF Kept
<1>9. Kept(t, n + 1) /\ g.at \notin Calls
  BY <1>4, Zenon DEF Kept, Calls
<1>10. FlagsAt(t, n + 1, object)
  <2>1. /\ Trusting(t, n + 1) = (Trusting(t, n) /\ t[n].at # "serverResolved")
        /\ Following(t, n + 1) = (Following(t, n) /\ t[n].at \notin {"serverResolved", "childAsked"})
        /\ t[n].at \notin Looks => Looking(t, n + 1) = Looking(t, n)
        /\ t[n].at = "peeked" => Looking(t, n + 1) = TRUE
        /\ t[n].at = "serverResolved" => Looking(t, n + 1) = (t[n + 1].q = t[n].q)
    <3>1. n \in Nat \ {0}
      BY <1>2
    <3> QED
      BY <3>1, Above, Zenon
  <2>2. object.requireAuth = Trusting(t, n + 1) /\ object.follow = Following(t, n + 1)
    BY <1>2, <1>4, <1>7, <2>1, Zenon
  <2>3. object.cacheOnly = Looking(t, n + 1)
    <3>1. f.at \in Looks => f.at = "peeked" \/ f.at = "serverResolved"
      BY DEF Looks
    <3> QED
      BY <1>2, <1>4, <1>7, <2>1, <3>1, Zenon
  <2> QED
    BY <2>2, <2>3, Zenon DEF FlagsAt
<1>11. \A i \in 1 .. n + 1 : i \in 1 .. n - 1 \/ i = n \/ i = n + 1
  BY <1>2
<1>12. \A i \in 1 .. n + 1 : IsFrame(t[i]) /\ Kept(t, i)
  BY <1>4, <1>5, <1>6, <1>8, <1>9, <1>11
<1>13. \A i \in 1 .. (n + 1) - 1 : t[i].at \in Calls
  <2>1. \A i \in 1 .. (n + 1) - 1 : i \in 1 .. n - 1 \/ i = n
    BY <1>2
  <2> QED
    BY <1>4, <1>5, <2>1, Zenon
<1>14. t[n + 1].at \notin Calls /\ Heard(u, t[n + 1])
  BY <1>4, <1>9 DEF Heard
<1>15. n + 1 <= MaxStack
  BY <1>2, ResolutionAssumption
<1> QED
  BY <1>3, <1>4, <1>10, <1>12, <1>13, <1>14, <1>15, Zenon DEF Stacked

LEMMA ReturnsTo ==
  ASSUME NEW u, NEW s, NEW m, Stacked(u, s, m), s # <<>>, Len(s) # 1,
         NEW r, NEW object, FlagsAt(s, Len(s), object)
  PROVE  Stacked(u, Append(Front(Front(s)), [Last(Front(s)) EXCEPT !.got = r]), object)
<1>1. IsSeq(s) /\ Len(s) <= MaxStack
  BY DEF Stacked
<1>2. PICK n \in Nat : n = Len(s) /\ n > 1
  <2>1. PICK n \in Nat : n = Len(s)
    BY <1>1, Lengths
  <2> QED
    BY <1>1, <2>1, Lengths
<1>3. PICK f : f = [s[n - 1] EXCEPT !.got = r]
  OBVIOUS
<1>4. PICK k \in Nat \ {0} : k = n - 1
  BY <1>2
<1>5. IsFrame(s[k]) /\ Kept(s, k) /\ s[k].at \in Calls
  BY <1>2, <1>4 DEF Stacked
<1>6. /\ IsFrame(f) /\ f.at = s[k].at /\ f.q = s[k].q
      /\ f.old = s[k].old /\ f.saved = s[k].saved
  BY <1>3, <1>4, <1>5 DEF IsFrame, Frame
<1>7. PICK t : t = Append(Front(Front(s)), f)
  OBVIOUS
<1>8. /\ Last(Front(s)) = s[k] /\ IsSeq(t) /\ Len(t) = k
      /\ (\A i \in 1 .. k - 1 : t[i] = s[i]) /\ t[k] = f
  <2>1. /\ Last(Front(s)) = s[Len(s) - 1]
        /\ IsSeq(Append(Front(Front(s)), f)) /\ Len(Append(Front(Front(s)), f)) = Len(s) - 1
        /\ \A i \in 1 .. Len(s) - 2 : Append(Front(Front(s)), f)[i] = s[i]
        /\ Append(Front(Front(s)), f)[Len(s) - 1] = f
    BY <1>1, Popped, Zenon
  <2>2. Len(s) - 1 = k /\ Len(s) - 2 = k - 1
    BY <1>2, <1>4
  <2> QED
    BY <1>7, <2>1, <2>2, Zenon
<1>9. ASSUME NEW i \in 1 .. k - 1
      PROVE  IsFrame(t[i]) /\ t[i].at \in Calls /\ Kept(t, i)
  <2>1. IsFrame(s[i]) /\ s[i].at \in Calls /\ Kept(s, i) /\ t[i] = s[i]
    BY <1>2, <1>4, <1>8 DEF Stacked
  <2>2. i \in Nat \ {0} /\ \A j \in 1 .. i : t[j] = s[j]
    BY <1>8
  <2> QED
    BY <2>1, <2>2, KeptAlike
<1>10. /\ Trusting(t, k) = Trusting(s, k) /\ Following(t, k) = Following(s, k)
       /\ Looking(t, k) = Looking(s, k) /\ (FlagsAt(s, k, f.saved) => FlagsAt(t, k, f.saved))
  <2>1. \A j \in 1 .. k - 1 : s[j].at = t[j].at /\ s[j].q = t[j].q
    BY <1>8
  <2>2. s[k].q = t[k].q
    BY <1>6, <1>8
  <2> QED
    BY <2>1, <2>2, Alike, AlikeAt
<1>11. Kept(t, k)
  BY <1>5, <1>6, <1>8, <1>10, Zenon DEF Kept
<1>12. FlagsBack(t, k, object)
  <2>1. /\ Trusting(s, k + 1) = Trusting(t, k + 1) /\ Following(s, k + 1) = Following(t, k + 1)
    <3>1. \A j \in 1 .. (k + 1) - 1 : s[j].at = t[j].at
      <4>1. \A j \in 1 .. (k + 1) - 1 : j \in 1 .. k - 1 \/ j = k
        OBVIOUS
      <4> QED
        BY <1>6, <1>8, <4>1, Zenon
    <3>2. Trusting(s, k + 1) <=> Trusting(t, k + 1)
      BY <3>1, Zenon DEF Trusting
    <3>3. Following(s, k + 1) <=> Following(t, k + 1)
      BY <3>1, Zenon DEF Following
    <3> QED
      BY <3>2, <3>3, Booleans, Equal
  <2>2. s[k].at \notin Looks => Looking(s, k + 1) = Looking(s, k)
    BY Above, Zenon
  <2>3. object.cacheOnly = Looking(s, k + 1) /\ object.requireAuth = Trusting(s, k + 1)
        /\ object.follow = Following(s, k + 1)
    <3>1. k + 1 = n
      BY <1>4
    <3> QED
      BY <1>2, <3>1, Zenon DEF FlagsAt
  <2>4. t[k].at = s[k].at
    BY <1>6, <1>8
  <2> QED
    BY <1>10, <2>1, <2>2, <2>3, <2>4, Zenon DEF FlagsBack
<1>13. \A i \in 1 .. k : i \in 1 .. k - 1 \/ i = k
  OBVIOUS
<1>14. \A i \in 1 .. k : IsFrame(t[i]) /\ Kept(t, i)
  BY <1>6, <1>8, <1>9, <1>11, <1>13
<1>15. k <= MaxStack
  BY <1>1, <1>2, <1>4, ResolutionAssumption
<1>16. t[k].at \in Calls
  BY <1>5, <1>6, <1>8
<1>17. Stacked(u, t, object)
  BY <1>8, <1>9, <1>12, <1>14, <1>15, <1>16, Zenon DEF Stacked
<1> QED
  BY <1>3, <1>4, <1>7, <1>8, <1>17

LEMMA SameFlags ==
  ASSUME NEW s, NEW i, NEW m, FlagsAt(s, i, m), NEW n,
         n.cacheOnly = m.cacheOnly, n.requireAuth = m.requireAuth, n.follow = m.follow
  PROVE  FlagsAt(s, i, n)
BY Zenon DEF FlagsAt

-----------------------------------------------------------------------------
(* What holds of every worker, and how an action of one leaves it *)

Limited(m) == IsObject(m) /\ m.sent \in Nat /\ m.sent <= MaxQueries

Fine(w) ==
  /\ Stacked(world, stack[w], me[w]) /\ Limited(me[w])
  /\ running = w => stack[w] # <<>>

Workmanlike ==
  /\ DOMAIN stack = Workers /\ DOMAIN me = Workers
  /\ running \in Workers \cup {None}
  /\ \A w \in Workers : Fine(w)

\* The SyncRes of one worker is another, those of the others are as before.
MeBecomes(w, object) ==
  /\ DOMAIN me' = Workers /\ me'[w] = object
  /\ \A v \in Workers \ {w} : me'[v] = me[v]

\* So is all that belongs to a worker.
Stepped(w) ==
  /\ DOMAIN stack' = Workers /\ DOMAIN me' = Workers
  /\ \A v \in Workers \ {w} : stack'[v] = stack[v] /\ me'[v] = me[v]
  /\ Stacked(world', stack'[w], me'[w]) /\ Limited(me'[w])
  /\ running' \in {w, None} /\ (running' = w => stack'[w] # <<>>)

LEMMA Steps ==
  ASSUME Workmanlike, NEW w \in Workers, Stepped(w), world' = world
  PROVE  Workmanlike'
<1>1. None \notin Workers
  BY ResolutionAssumption
<1>2. ASSUME NEW v \in Workers, v # w
      PROVE  Fine(v)'
  <2>1. Stacked(world, stack[v], me[v]) /\ Limited(me[v])
    BY DEF Workmanlike, Fine
  <2>2. stack'[v] = stack[v] /\ me'[v] = me[v] /\ running' # v
    BY <1>1, <1>2 DEF Stepped
  <2>3. Stacked(world', stack'[v], me'[v]) /\ Limited(me'[v])
    BY <2>1, <2>2, Zenon
  <2> QED
    BY <2>2, <2>3 DEF Fine
<1>3. Fine(w)'
  BY DEF Stepped, Fine
<1> QED
  BY <1>2, <1>3 DEF Workmanlike, Stepped

LEMMA Unchanged ==
  ASSUME Workmanlike, UNCHANGED <<stack, me, running, world>>
  PROVE  Workmanlike'
BY DEF Workmanlike, Fine

LEMMA MeStays ==
  ASSUME Workmanlike, NEW w \in Workers, UNCHANGED me
  PROVE  MeBecomes(w, me[w])
BY DEF Workmanlike, MeBecomes

LEMMA MeSet ==
  ASSUME Workmanlike, NEW w \in Workers, NEW object, me' = [me EXCEPT ![w] = object]
  PROVE  MeBecomes(w, object)
BY DEF Workmanlike, MeBecomes

\* The worker is in the middle of a frame, and its flags are those of that frame.
LEMMA AtTop ==
  ASSUME Workmanlike, NEW w \in Workers, stack[w] # <<>>, Top(w).at \notin Calls
  PROVE  /\ IsFrame(Top(w)) /\ Top(w) = stack[w][Len(stack[w])]
         /\ Limited(me[w]) /\ FlagsAt(stack[w], Len(stack[w]), me[w]) /\ Heard(world, Top(w))
<1>1. Stacked(world, stack[w], me[w]) /\ Limited(me[w])
  BY DEF Workmanlike, Fine
<1>2. PICK s : s = stack[w]
  OBVIOUS
<1>3. IsSeq(s) /\ s # <<>>
  BY <1>1, <1>2, Zenon DEF Stacked
<1>4. Len(s) \in 1 .. Len(s)
  BY <1>3, Lengths
<1>5. Top(w) = s[Len(s)]
  BY <1>2 DEF Top, Last
<1>6. FlagsAt(s, Len(s), me[w]) /\ Heard(world, s[Len(s)])
  BY <1>1, <1>2, <1>3, <1>5, Zenon DEF Stacked
<1>7. IsFrame(s[Len(s)])
  BY <1>1, <1>2, <1>4, Zenon DEF Stacked
<1> QED
  BY <1>1, <1>2, <1>5, <1>6, <1>7, Zenon

\* The worker is where it was called back.
LEMMA AtCall ==
  ASSUME Workmanlike, NEW w \in Workers, stack[w] # <<>>, Top(w).at \in Calls
  PROVE  /\ IsFrame(Top(w)) /\ Top(w) = stack[w][Len(stack[w])] /\ Limited(me[w])
         /\ FlagsBack(stack[w], Len(stack[w]), me[w]) /\ Kept(stack[w], Len(stack[w]))
         /\ Len(stack[w]) \in Nat \ {0}
<1>1. Stacked(world, stack[w], me[w]) /\ Limited(me[w])
  BY DEF Workmanlike, Fine
<1>2. PICK s : s = stack[w]
  OBVIOUS
<1>3. IsSeq(s) /\ s # <<>>
  BY <1>1, <1>2, Zenon DEF Stacked
<1>4. Len(s) \in 1 .. Len(s) /\ Len(s) \in Nat \ {0}
  BY <1>3, Lengths
<1>5. Top(w) = s[Len(s)]
  BY <1>2 DEF Top, Last
<1>6. FlagsBack(s, Len(s), me[w])
  BY <1>1, <1>2, <1>3, <1>5, Zenon DEF Stacked
<1>7. IsFrame(s[Len(s)]) /\ Kept(s, Len(s))
  BY <1>1, <1>2, <1>4, Zenon DEF Stacked
<1> QED
  BY <1>1, <1>2, <1>4, <1>5, <1>6, <1>7, Zenon

LEMMA ContinueSteps ==
  ASSUME Workmanlike, NEW w \in Workers, stack[w] # <<>>, world' = world,
         NEW f, Continue(w, f), IsFrame(f), f.at \notin Calls, f.q = Top(w).q, Heard(world, f),
         NEW object, MeBecomes(w, object), Limited(object),
         FlagsAt(stack[w], Len(stack[w]), object), running' \in {w, None}
  PROVE  Stepped(w)
<1>1. PICK s : s = stack[w]
  OBVIOUS
<1>2. Stacked(world, s, me[w]) /\ s # <<>>
  BY <1>1, Zenon DEF Workmanlike, Fine
<1>3. f.q = s[Len(s)].q
  BY <1>1 DEF Top, Last
<1>4. PICK t : t = Append(Front(s), f)
  OBVIOUS
<1>5. Stacked(world, t, object)
  BY <1>1, <1>2, <1>3, <1>4, GoesOn, Zenon
<1>6. t # <<>>
  <2>1. IsSeq(s)
    BY <1>2, Zenon DEF Stacked
  <2>2. IsSeq(t) /\ Len(t) = Len(s)
    BY <1>2, <1>4, <2>1, Replaced, Zenon
  <2> QED
    BY <1>2, <2>1, <2>2, Lengths
<1>7. DOMAIN stack' = Workers /\ stack'[w] = t /\ \A v \in Workers \ {w} : stack'[v] = stack[v]
  BY <1>1, <1>4 DEF Continue, Workmanlike
<1>8. Stacked(world', stack'[w], me'[w]) /\ Limited(me'[w])
  BY <1>5, <1>7, Zenon DEF MeBecomes
<1> QED
  BY <1>6, <1>7, <1>8 DEF Stepped, MeBecomes

LEMMA FinishSteps ==
  ASSUME Workmanlike, NEW w \in Workers, NEW rcode, NEW ret, Finish(w, rcode, ret)
  PROVE  Stepped(w)
<1>1. /\ DOMAIN stack' = Workers /\ stack'[w] = <<>> /\ DOMAIN me' = Workers /\ me'[w] = NoOne
      /\ \A v \in Workers \ {w} : stack'[v] = stack[v] /\ me'[v] = me[v]
      /\ running' = None
  BY DEF Finish, Workmanlike
<1>2. Stacked(world', <<>>, NoOne)
  <2>1. \A i \in 1 .. 0 : FALSE
    OBVIOUS
  <2>2. \A i \in 1 .. 0 - 1 : FALSE
    OBVIOUS
  <2>3. 0 <= MaxStack
    BY ResolutionAssumption
  <2>4. PICK s : s = <<>> /\ IsSeq(s) /\ Len(s) = 0
    BY Empty
  <2>5. Stacked(world', s, NoOne)
    BY <2>1, <2>2, <2>3, <2>4, Zenon DEF Stacked
  <2> QED
    BY <2>4, <2>5, Zenon
<1>3. Limited(NoOne)
  BY ResolutionAssumption DEF Limited, IsObject, NoOne, SyncRes
<1>4. running' # w
  BY <1>1, ResolutionAssumption
<1>5. Stacked(world', stack'[w], me'[w]) /\ Limited(me'[w])
  BY <1>1, <1>2, <1>3, Zenon
<1> QED
  BY <1>1, <1>4, <1>5, Zenon DEF Stepped

LEMMA ReturnSteps ==
  ASSUME Workmanlike, NEW w \in Workers, stack[w] # <<>>, world' = world, running = w,
         NEW r, NEW object, Return(w, r, object), Limited(object),
         FlagsAt(stack[w], Len(stack[w]), object)
  PROVE  Stepped(w)
<1>1. CASE Len(stack[w]) = 1
  BY <1>1, FinishSteps, Zenon DEF Return
<1>2. CASE Len(stack[w]) # 1
  <2>1. PICK s : s = stack[w]
    OBVIOUS
  <2>2. Stacked(world, s, me[w]) /\ s # <<>> /\ Len(s) # 1
    BY <1>2, <2>1, Zenon DEF Workmanlike, Fine
  <2>3. PICK t : t = Append(Front(Front(s)), [Last(Front(s)) EXCEPT !.got = r])
    OBVIOUS
  <2>4. Stacked(world, t, object)
    BY <2>1, <2>2, <2>3, ReturnsTo, Zenon
  <2>5. t # <<>>
    <3>1. IsSeq(s)
      BY <2>2, Zenon DEF Stacked
    <3>2. IsSeq(t) /\ Len(t) = Len(s) - 1
      BY <2>2, <2>3, <3>1, Popped, Zenon
    <3> QED
      BY <2>2, <3>1, <3>2, Lengths
  <2>6. /\ stack' = [stack EXCEPT ![w] = t] /\ me' = [me EXCEPT ![w] = object]
        /\ running' = running
    <3>1. stack' = [stack EXCEPT ![w] = Append(Front(Front(stack[w])), [Last(Front(stack[w])) EXCEPT !.got = r])]
      BY <1>2, SMT DEF Return
    <3>2. me' = [me EXCEPT ![w] = object] /\ running' = running
      BY <1>2, Zenon DEF Return
    <3> QED
      BY <2>1, <2>3, <3>1, <3>2, Zenon
  <2>7. /\ DOMAIN stack' = Workers /\ stack'[w] = t /\ DOMAIN me' = Workers /\ me'[w] = object
        /\ \A v \in Workers \ {w} : stack'[v] = stack[v] /\ me'[v] = me[v]
    BY <2>6 DEF Workmanlike
  <2>8. Stacked(world', stack'[w], me'[w]) /\ Limited(me'[w])
    BY <2>4, <2>7, Zenon
  <2> QED
    BY <2>5, <2>6, <2>7, <2>8 DEF Stepped
<1> QED
  BY <1>1, <1>2

LEMMA CallSteps ==
  ASSUME Workmanlike, NEW w \in Workers, stack[w] # <<>>, world' = world, running' = w,
         NEW f, IsFrame(f), f.at \in Calls, f.q = Top(w).q,
         f.at = "peeked" => f.old = Looking(stack[w], Len(stack[w])),
         f.at = "childAsked" => f.old = Following(stack[w], Len(stack[w])),
         f.at = "serverResolved" => FlagsAt(stack[w], Len(stack[w]), f.saved),
         NEW g, IsFrame(g), g.at = "start", Call(w, f, g),
         NEW object, MeBecomes(w, object), Limited(object),
         object.requireAuth = (Trusting(stack[w], Len(stack[w])) /\ f.at # "serverResolved"),
         object.follow = (Following(stack[w], Len(stack[w]))
                            /\ f.at \notin {"serverResolved", "childAsked"}),
         f.at \notin Looks => object.cacheOnly = Looking(stack[w], Len(stack[w])),
         f.at = "peeked" => object.cacheOnly = TRUE,
         f.at = "serverResolved" => object.cacheOnly = (g.q = f.q)
  PROVE  Stepped(w)
<1>1. PICK s : s = stack[w]
  OBVIOUS
<1>2. Stacked(world, s, me[w]) /\ s # <<>> /\ IsSeq(s)
  BY <1>1, Zenon DEF Workmanlike, Fine, Stacked
<1>3. PICK h : h = [f EXCEPT !.got = NoResult]
  OBVIOUS
<1>4. /\ IsFrame(h) /\ h.at = f.at /\ h.q = f.q /\ h.old = f.old /\ h.saved = f.saved
  BY <1>3 DEF IsFrame, Frame
<1>5. PICK t : t = Front(s) \o <<h, g>>
  OBVIOUS
<1>6. Len(s) < MaxStack /\ stack' = [stack EXCEPT ![w] = t]
  <2>1. stack' = [stack EXCEPT ![w] = Front(stack[w]) \o <<[f EXCEPT !.got = NoResult], g>>]
    BY DEF Call
  <2> QED
    BY <1>1, <1>3, <1>5, <2>1, Zenon DEF Call
<1>7. f.q = s[Len(s)].q
  BY <1>1 DEF Top, Last
<1>8. Stacked(world, t, object)
  <2>1. /\ h.at \in Calls /\ h.q = s[Len(s)].q
        /\ h.at = "peeked" => h.old = Looking(s, Len(s))
        /\ h.at = "childAsked" => h.old = Following(s, Len(s))
        /\ h.at = "serverResolved" => FlagsAt(s, Len(s), h.saved)
        /\ object.requireAuth = (Trusting(s, Len(s)) /\ h.at # "serverResolved")
        /\ object.follow = (Following(s, Len(s)) /\ h.at \notin {"serverResolved", "childAsked"})
        /\ h.at \notin Looks => object.cacheOnly = Looking(s, Len(s))
        /\ h.at = "peeked" => object.cacheOnly = TRUE
        /\ h.at = "serverResolved" => object.cacheOnly = (g.q = h.q)
    BY <1>1, <1>4, <1>7, Zenon
  <2> QED
    <3>1. Stacked(world, Front(s) \o <<h, g>>, object)
      <4>1. IsFrame(h) /\ IsFrame(g) /\ g.at = "start" /\ Len(s) < MaxStack
        BY <1>4, <1>6
      <4> QED
        BY ONLY <1>2, <2>1, <4>1, CallsUp, Zenon
    <3> QED
      BY <1>5, <3>1, Zenon
<1>9. t # <<>>
  <2>1. IsSeq(t) /\ Len(t) = Len(s) + 1
    <3>1. /\ IsSeq(Front(s) \o <<h, g>>)
          /\ Len(Front(s) \o <<h, g>>) = Len(s) + 1
      BY ONLY <1>2, Pushed
    <3> QED
      BY <1>5, <3>1, Zenon
  <2> QED
    BY <1>2, <2>1, Lengths
<1>10. DOMAIN stack' = Workers /\ stack'[w] = t /\ \A v \in Workers \ {w} : stack'[v] = stack[v]
  BY <1>6 DEF Workmanlike
<1>11. Stacked(world', stack'[w], me'[w]) /\ Limited(me'[w])
  BY <1>8, <1>10, Zenon DEF MeBecomes
<1> QED
  BY <1>9, <1>10, <1>11 DEF Stepped, MeBecomes

-----------------------------------------------------------------------------
(* The actions of a worker, one by one *)

LEMMA ContinueSame ==
  ASSUME Workmanlike, NEW w \in Workers, stack[w] # <<>>, Top(w).at \notin Calls,
         UNCHANGED world, UNCHANGED me, running' \in {w, None},
         NEW f, Continue(w, f), IsFrame(f), f.at \notin Calls, f.q = Top(w).q, Heard(world, f)
  PROVE  Stepped(w)
<1>1. Limited(me[w]) /\ FlagsAt(stack[w], Len(stack[w]), me[w])
  BY AtTop, Zenon
<1>2. MeBecomes(w, me[w])
  BY MeStays, Zenon
<1> QED
  BY <1>1, <1>2, ContinueSteps, Zenon

LEMMA NoMinimizationSteps ==
  ASSUME Workmanlike, NEW w \in Workers, NoMinimization(w)
  PROVE  Stepped(w)
<1>1. PICK f : f = Plainly(Top(w), Top(w).depth)
  OBVIOUS
<1>2. /\ running' = w /\ stack[w] # <<>> /\ Top(w).at = "start" /\ Continue(w, f)
      /\ UNCHANGED world /\ UNCHANGED me
  BY <1>1 DEF NoMinimization, Runs
<1>3. Top(w).at \notin Calls
  BY <1>2 DEF Calls
<1>4. IsFrame(f) /\ f.at \notin Calls /\ f.q = Top(w).q /\ Heard(world, f)
  BY <1>1 DEF IsFrame, Plainly, Frame, Calls, Heard
<1> QED
  BY <1>2, <1>3, <1>4, ContinueSame, Zenon

LEMMA Step1Steps ==
  ASSUME Workmanlike, NEW w \in Workers, Step1(w)
  PROVE  Stepped(w)
<1>1. /\ running' = w /\ stack[w] # <<>> /\ Top(w).at = "ancestor"
      /\ UNCHANGED world /\ UNCHANGED me
  BY DEF Step1, Runs
<1>2. PICK zone : Continue(w, [Top(w) EXCEPT !.at = "child", !.child = zone])
  BY Zenon DEF Step1
<1>3. PICK f : f = [Top(w) EXCEPT !.at = "child", !.child = zone]
  OBVIOUS
<1>4. Top(w).at \notin Calls
  BY <1>1 DEF Calls
<1>5. IsFrame(Top(w))
  BY <1>1, <1>4, AtTop, Zenon
<1>6. IsFrame(f) /\ f.at \notin Calls /\ f.q = Top(w).q /\ Heard(world, f)
  BY <1>3, <1>5 DEF IsFrame, Frame, Calls, Heard
<1> QED
  BY <1>1, <1>2, <1>3, <1>4, <1>6, ContinueSame, Zenon

\* Throwing and returning leave the worker in order,
LEMMA ThrowSteps ==
  ASSUME Workmanlike, NEW w \in Workers, Throw(w)
  PROVE  Stepped(w)
BY FinishSteps, Zenon DEF Throw

LEMMA ReturnSame ==
  ASSUME Workmanlike, NEW w \in Workers, stack[w] # <<>>, Top(w).at \notin Calls,
         UNCHANGED world, running = w, NEW r, Return(w, r, me[w])
  PROVE  Stepped(w)
<1>1. Limited(me[w]) /\ FlagsAt(stack[w], Len(stack[w]), me[w])
  BY AtTop, Zenon
<1> QED
  BY <1>1, ReturnSteps, Zenon

\* and so does following an alias.
LEMMA CallAlong ==
  ASSUME Workmanlike, NEW w \in Workers, stack[w] # <<>>, UNCHANGED world, running' = w,
         NEW f, IsFrame(f), f.at \in {"aliasFollowed", "targetResolved"}, f.q = Top(w).q,
         NEW g, IsFrame(g), g.at = "start", Call(w, f, g),
         NEW object, MeBecomes(w, object), Limited(object),
         FlagsAt(stack[w], Len(stack[w]), object)
  PROVE  Stepped(w)
<1>1. /\ f.at \in Calls /\ f.at \notin Looks /\ f.at # "peeked" /\ f.at # "childAsked"
      /\ f.at # "serverResolved" /\ f.at \notin {"serverResolved", "childAsked"}
  BY DEF Calls, Looks
<1>2. PICK P \in BOOLEAN, Q \in BOOLEAN :
        P = Trusting(stack[w], Len(stack[w])) /\ Q = Following(stack[w], Len(stack[w]))
  BY Booleans, Zenon
<1>3. object.requireAuth = P /\ object.follow = Q
      /\ object.cacheOnly = Looking(stack[w], Len(stack[w]))
  BY <1>2, Zenon DEF FlagsAt
<1>4. object.requireAuth = (P /\ f.at # "serverResolved")
      /\ object.follow = (Q /\ f.at \notin {"serverResolved", "childAsked"})
  BY <1>1, <1>3
<1> QED
  BY <1>1, <1>2, <1>3, <1>4, CallSteps, Zenon

LEMMA BelowLimited ==
  ASSUME NEW w \in Workers, NEW i, NEW q, NEW target, Limited(me[w]), FlagsAt(stack[w], i, me[w])
  PROVE  /\ Limited(NoMinimizationBelow(w, q, target))
         /\ FlagsAt(stack[w], i, NoMinimizationBelow(w, q, target))
<1>1. PICK o : o = [me[w] EXCEPT !.qm = FALSE]
  OBVIOUS
<1>2. /\ Limited(o) /\ o.cacheOnly = me[w].cacheOnly /\ o.requireAuth = me[w].requireAuth
      /\ o.follow = me[w].follow
  BY <1>1 DEF Limited, IsObject, NoOne, SyncRes
<1>3. FlagsAt(stack[w], i, o)
  BY <1>2, SameFlags, Zenon
<1>4. NoMinimizationBelow(w, q, target) \in {o, me[w]}
  BY <1>1 DEF NoMinimizationBelow
<1> QED
  BY <1>2, <1>3, <1>4

LEMMA CachedAliasSteps ==
  ASSUME Workmanlike, NEW w \in Workers, CachedAlias(w)
  PROVE  Stepped(w)
<1> DEFINE target == cache[<<Top(w).q, "CNAME">>].val
           ret    == Append(Top(w).ret, Record(Top(w).q, [type |-> "CNAME", val |-> target]))
           object == NoMinimizationBelow(w, Top(w).q, target)
           f      == [Top(w) EXCEPT !.at = "aliasFollowed"]
           g      == Frame("doResolve", target, ret, Top(w).depth + 1, {})
<1>1. running = w /\ stack[w] # <<>> /\ Top(w).at = "start" /\ UNCHANGED world
  BY DEF CachedAlias, Starts, Runs
<1>2. \/ Throw(w) \/ \E r : Return(w, r, object)
      \/ Call(w, f, g) /\ me' = [me EXCEPT ![w] = object] /\ running' = running
  BY Zenon DEF CachedAlias
<1>3. Top(w).at \notin Calls
  BY <1>1 DEF Calls
<1>4. Limited(me[w]) /\ FlagsAt(stack[w], Len(stack[w]), me[w]) /\ IsFrame(Top(w))
  BY <1>1, <1>3, AtTop, Zenon
<1>5. Limited(object) /\ FlagsAt(stack[w], Len(stack[w]), object)
  BY <1>4, BelowLimited, Zenon
<1>6. IsFrame(f) /\ f.at = "aliasFollowed" /\ f.q = Top(w).q /\ IsFrame(g) /\ g.at = "start"
  BY <1>4 DEF IsFrame, Frame
<1> HIDE DEF target, ret, object, f, g
<1>7. CASE Throw(w)
  BY <1>7, ThrowSteps
<1>8. CASE \E r : Return(w, r, object)
  BY <1>1, <1>5, <1>8, ReturnSteps, Zenon
<1>9. CASE Call(w, f, g) /\ me' = [me EXCEPT ![w] = object] /\ running' = running
  <2>1. MeBecomes(w, object)
    BY <1>9, MeSet, Zenon
  <2> QED
    BY <1>1, <1>5, <1>6, <1>9, <2>1, CallAlong, Zenon
<1> QED
  BY <1>2, <1>7, <1>8, <1>9

LEMMA CacheStepsAlone ==
  ASSUME Workmanlike, NEW w \in Workers, RefuseDepth(w) \/ CacheHit(w) \/ NotCached(w)
  PROVE  Stepped(w)
<1>1. running = w /\ stack[w] # <<>> /\ Top(w).at = "start" /\ UNCHANGED world
  BY DEF RefuseDepth, CacheHit, NotCached, Unknown, Starts, Runs
<1>2. Throw(w) \/ \E r : Return(w, r, me[w])
  <2>1. ASSUME RefuseDepth(w)
        PROVE  Throw(w)
    BY <2>1 DEF RefuseDepth
  <2>2. ASSUME CacheHit(w)
        PROVE  \E r : Return(w, r, me[w])
    BY <2>2, Zenon DEF CacheHit
  <2>3. ASSUME NotCached(w)
        PROVE  \E r : Return(w, r, me[w])
    BY <2>3, Zenon DEF NotCached
  <2> QED
    BY <2>1, <2>2, <2>3
<1>3. Top(w).at \notin Calls
  BY <1>1 DEF Calls
<1> QED
  BY <1>1, <1>2, <1>3, ThrowSteps, ReturnSame, Zenon

LEMMA LevelFrame ==
  ASSUME NEW f, IsFrame(f), NEW zone, NEW servers
  PROVE  /\ IsFrame(Level(f, zone, servers)) /\ Level(f, zone, servers).at = "next"
         /\ Level(f, zone, servers).q = f.q
BY DEF Level, IsFrame, Frame

LEMMA GoOutSteps ==
  ASSUME Workmanlike, NEW w \in Workers, GoOut(w) \/ NowhereToGo(w)
  PROVE  Stepped(w)
<1>1. running' = w /\ stack[w] # <<>> /\ Top(w).at = "start" /\ UNCHANGED world /\ UNCHANGED me
  BY DEF GoOut, NowhereToGo, Unknown, Starts, Runs
<1>2. Top(w).at \notin Calls
  BY <1>1 DEF Calls
<1>3. IsFrame(Top(w))
  BY <1>1, <1>2, AtTop, Zenon
<1>4. \E f : Continue(w, f) /\ IsFrame(f) /\ f.at = "next" /\ f.q = Top(w).q
  <2>1. CASE GoOut(w)
    <3>1. PICK zone, b : Continue(w, [Level(Top(w), zone, Usable(zone)) EXCEPT !.been = b])
      BY <2>1, Zenon DEF GoOut
    <3>2. PICK g : g = Level(Top(w), zone, Usable(zone))
      OBVIOUS
    <3>3. IsFrame(g) /\ g.at = "next" /\ g.q = Top(w).q
      BY <1>3, <3>2, LevelFrame, Zenon
    <3>4. PICK f : f = [g EXCEPT !.been = b]
      OBVIOUS
    <3>5. IsFrame(f) /\ f.at = "next" /\ f.q = Top(w).q
      BY <3>3, <3>4 DEF IsFrame, Frame
    <3> QED
      BY <3>1, <3>2, <3>4, <3>5, Zenon
  <2>2. CASE NowhereToGo(w)
    <3>1. Continue(w, Level(Top(w), Root, {}))
      BY <2>2 DEF NowhereToGo
    <3> QED
      BY <1>3, <3>1, LevelFrame, Zenon
  <2> QED
    BY <2>1, <2>2
<1>5. PICK f : Continue(w, f) /\ IsFrame(f) /\ f.at = "next" /\ f.q = Top(w).q
  BY <1>4
<1>6. f.at \notin Calls /\ Heard(world, f)
  BY <1>5 DEF Calls, Heard
<1> QED
  BY <1>1, <1>2, <1>5, <1>6, ContinueSame, Zenon

LEMMA NoMoreServersSteps ==
  ASSUME Workmanlike, NEW w \in Workers, NoMoreServers(w)
  PROVE  Stepped(w)
<1>1. running = w /\ stack[w] # <<>> /\ Top(w).at = "next" /\ UNCHANGED world
  BY DEF NoMoreServers, Runs
<1>2. Throw(w) \/ \E r : Return(w, r, me[w])
  BY Zenon DEF NoMoreServers
<1>3. Top(w).at \notin Calls
  BY <1>1 DEF Calls
<1> QED
  BY <1>1, <1>2, <1>3, ThrowSteps, ReturnSame, Zenon

LEMMA AskServerSteps ==
  ASSUME Workmanlike, NEW w \in Workers, NEW addr, AskServer(w, addr)
  PROVE  Stepped(w)
<1>1. running = w /\ stack[w] # <<>> /\ Top(w).at = "ask" /\ UNCHANGED world
  BY DEF AskServer, Runs
<1>2. Top(w).at \notin Calls
  BY <1>1 DEF Calls
<1>3. Limited(me[w]) /\ FlagsAt(stack[w], Len(stack[w]), me[w]) /\ IsFrame(Top(w))
  BY <1>1, <1>2, AtTop, Zenon
<1>4. CASE Throw(w)
  BY <1>4, ThrowSteps
<1>5. CASE me[w].sent + 1 <= MaxQueries /\ ~Throw(w)
  <2>1. PICK f : f = [Top(w) EXCEPT !.at = "wait", !.asked = addr, !.addrs = @ \ {addr}]
    OBVIOUS
  <2>2. PICK o : o = [me[w] EXCEPT !.sent = @ + 1]
    OBVIOUS
  <2>3. Continue(w, f) /\ me' = [me EXCEPT ![w].sent = @ + 1] /\ running' = None
    BY <1>5, <2>1, Zenon DEF AskServer
  <2>4. MeBecomes(w, o)
    BY <2>2, <2>3 DEF MeBecomes, Workmanlike
  <2>5. /\ o.sent = me[w].sent + 1 /\ IsObject(o) /\ o.cacheOnly = me[w].cacheOnly
        /\ o.requireAuth = me[w].requireAuth /\ o.follow = me[w].follow
    BY <1>3, <2>2 DEF Limited, IsObject, NoOne, SyncRes
  <2>6. Limited(o)
    BY <1>3, <1>5, <2>5 DEF Limited
  <2>7. FlagsAt(stack[w], Len(stack[w]), o)
    BY <1>3, <2>5, SameFlags, Zenon
  <2>8. IsFrame(f) /\ f.at \notin Calls /\ f.q = Top(w).q /\ Heard(world, f)
    BY <1>3, <2>1 DEF IsFrame, Frame, Calls, Heard
  <2> QED
    BY <1>1, <2>3, <2>4, <2>6, <2>7, <2>8, ContinueSteps, Zenon
<1>6. me[w].sent + 1 <= MaxQueries \/ Throw(w)
  <2>1. ASSUME me[w].sent + 1 > MaxQueries
        PROVE  Throw(w)
    BY <2>1, Zenon DEF AskServer
  <2>2. me[w].sent + 1 > MaxQueries \/ me[w].sent + 1 <= MaxQueries
    BY <1>3, ResolutionAssumption DEF Limited
  <2> QED
    BY <2>1, <2>2
<1> QED
  BY <1>4, <1>5, <1>6

\* An answer is what a server says, made clean.
LEMMA ReceiveSteps ==
  ASSUME Workmanlike, NEW w \in Workers, Receive(w)
  PROVE  Stepped(w)
<1>1. /\ stack[w] # <<>> /\ Top(w).at = "wait" /\ running' = w
      /\ UNCHANGED world /\ UNCHANGED me
  BY DEF Receive, Waits
<1>2. PICK p : p = Sanitized(Reply(world, Top(w).asked, Top(w).q), Top(w).auth, Top(w).q)
  OBVIOUS
<1>3. PICK f : f = [Top(w) EXCEPT !.at = "answer", !.asked = None, !.packet = p]
  OBVIOUS
<1>4. Continue(w, f)
  BY <1>2, <1>3, Zenon DEF Receive
<1>5. Top(w).at \notin Calls
  BY <1>1 DEF Calls
<1>6. IsFrame(Top(w))
  BY <1>1, <1>5, AtTop, Zenon
<1>7. IsFrame(f) /\ f.at = "answer" /\ f.q = Top(w).q /\ f.auth = Top(w).auth /\ f.packet = p
  BY <1>3, <1>6 DEF IsFrame, Frame
<1>8. Heard(world, f)
  BY <1>2, <1>7, Zenon DEF Heard
<1>9. f.at \notin Calls
  BY <1>7 DEF Calls
<1> QED
  BY <1>1, <1>4, <1>5, <1>7, <1>8, <1>9, ContinueSame, Zenon

LEMMA NextAddressFrame ==
  ASSUME NEW f, IsFrame(f)
  PROVE  /\ IsFrame(NextAddress(f)) /\ NextAddress(f).at \in {"next", "ask"}
         /\ NextAddress(f).q = f.q
BY DEF NextAddress, IsFrame, Frame

LEMMA LoseSteps ==
  ASSUME Workmanlike, NEW w \in Workers, Lose(w)
  PROVE  Stepped(w)
<1>1. /\ stack[w] # <<>> /\ Top(w).at = "wait" /\ running' = w /\ UNCHANGED world
      /\ Continue(w, NextAddress(Top(w))) /\ me' = [me EXCEPT ![w].lost = TRUE]
  BY DEF Lose, Waits
<1>2. Top(w).at \notin Calls
  BY <1>1 DEF Calls
<1>3. Limited(me[w]) /\ FlagsAt(stack[w], Len(stack[w]), me[w]) /\ IsFrame(Top(w))
  BY <1>1, <1>2, AtTop, Zenon
<1>4. PICK f : f = NextAddress(Top(w))
  OBVIOUS
<1>5. IsFrame(f) /\ f.at \in {"next", "ask"} /\ f.q = Top(w).q
  BY <1>3, <1>4, NextAddressFrame, Zenon
<1>6. f.at \notin Calls /\ Heard(world, f)
  BY <1>5 DEF Calls, Heard
<1>7. PICK o : o = [me[w] EXCEPT !.lost = TRUE]
  OBVIOUS
<1>8. MeBecomes(w, o)
  BY <1>1, <1>7 DEF MeBecomes, Workmanlike
<1>9. /\ Limited(o) /\ o.cacheOnly = me[w].cacheOnly
      /\ o.requireAuth = me[w].requireAuth /\ o.follow = me[w].follow
  BY <1>3, <1>7 DEF Limited, IsObject, NoOne, SyncRes
<1>10. FlagsAt(stack[w], Len(stack[w]), o)
  BY <1>3, <1>9, SameFlags, Zenon
<1> QED
  BY <1>1, <1>4, <1>5, <1>6, <1>8, <1>9, <1>10, ContinueSteps, Zenon

LEMMA GotSteps ==
  ASSUME Workmanlike, NEW w \in Workers, Refused(w) \/ GotAddress(w) \/ GotDenial(w)
  PROVE  Stepped(w)
<1>1. running = w /\ stack[w] # <<>> /\ Top(w).at = "answer" /\ UNCHANGED world
  BY DEF Refused, GotAddress, GotDenial, Got, Runs
<1>2. Top(w).at \notin Calls
  BY <1>1 DEF Calls
<1>3. CASE Refused(w)
  <2>1. Continue(w, NextAddress(Top(w))) /\ UNCHANGED me /\ running' = w
    BY <1>1, <1>3 DEF Refused
  <2>2. PICK f : f = NextAddress(Top(w))
    OBVIOUS
  <2>3. IsFrame(Top(w))
    BY <1>1, <1>2, AtTop, Zenon
  <2>4. IsFrame(f) /\ f.at \in {"next", "ask"} /\ f.q = Top(w).q
    BY <2>2, <2>3, NextAddressFrame, Zenon
  <2>5. f.at \notin Calls /\ Heard(world, f)
    BY <2>4 DEF Calls, Heard
  <2> QED
    BY <1>1, <1>2, <2>1, <2>2, <2>4, <2>5, ContinueSame, Zenon
<1>4. CASE \E r : Return(w, r, me[w])
  BY <1>1, <1>2, <1>4, ReturnSame, Zenon
<1>5. ASSUME GotAddress(w)
      PROVE  \E r : Return(w, r, me[w])
  BY <1>5, Zenon DEF GotAddress
<1>6. ASSUME GotDenial(w)
      PROVE  \E r : Return(w, r, me[w])
  BY <1>6, Zenon DEF GotDenial
<1> QED
  BY <1>3, <1>4, <1>5, <1>6

LEMMA GotAliasSteps ==
  ASSUME Workmanlike, NEW w \in Workers, GotAlias(w)
  PROVE  Stepped(w)
<1>1. running = w /\ stack[w] # <<>> /\ Top(w).at = "answer" /\ UNCHANGED world
  BY DEF GotAlias, Got, Runs
<1>2. Top(w).at \notin Calls
  BY <1>1 DEF Calls
<1>3. Limited(me[w]) /\ FlagsAt(stack[w], Len(stack[w]), me[w]) /\ IsFrame(Top(w))
  BY <1>1, <1>2, AtTop, Zenon
<1>4. PICK e : e = [Top(w) EXCEPT !.packet = NoPacket, !.addrs = {}, !.left = {}]
  OBVIOUS
<1>5. IsFrame(e) /\ e.q = Top(w).q
  BY <1>3, <1>4 DEF IsFrame, Frame
<1>6. PICK target : target = Top(w).packet.val
  OBVIOUS
<1>7. NewTarget(w, e, target)
  BY <1>4, <1>6, Zenon DEF GotAlias
<1> DEFINE object == NoMinimizationBelow(w, e.q, target)
           ret    == Append(e.ret, Record(e.q, [type |-> "CNAME", val |-> target]))
           f      == [e EXCEPT !.at = "targetResolved"]
           g      == Frame("doResolve", target, ret, e.depth + 1, {})
<1>8. \/ \E r : Return(w, r, me[w])
      \/ \E r : Return(w, r, object)
      \/ Call(w, f, g) /\ me' = [me EXCEPT ![w] = object] /\ running' = running
  BY <1>7, Zenon DEF NewTarget
<1>9. Limited(object) /\ FlagsAt(stack[w], Len(stack[w]), object)
  BY <1>3, BelowLimited, Zenon
<1>10. IsFrame(f) /\ f.at = "targetResolved" /\ f.q = Top(w).q /\ IsFrame(g) /\ g.at = "start"
  BY <1>5 DEF IsFrame, Frame
<1> HIDE DEF object, ret, f, g
<1>11. CASE \E r : Return(w, r, me[w])
  BY <1>1, <1>2, <1>11, ReturnSame, Zenon
<1>12. CASE \E r : Return(w, r, object)
  BY <1>1, <1>9, <1>12, ReturnSteps, Zenon
<1>13. CASE Call(w, f, g) /\ me' = [me EXCEPT ![w] = object] /\ running' = running
  <2>1. MeBecomes(w, object)
    BY <1>13, MeSet, Zenon
  <2> QED
    BY <1>1, <1>9, <1>10, <1>13, <2>1, CallAlong, Zenon
<1> QED
  BY <1>8, <1>11, <1>12, <1>13

LEMMA GotReferralSteps ==
  ASSUME Workmanlike, NEW w \in Workers, GotReferral(w)
  PROVE  Stepped(w)
<1>1. running = w /\ stack[w] # <<>> /\ Top(w).at = "answer" /\ UNCHANGED world
  BY DEF GotReferral, Got, Runs
<1>2. Top(w).at \notin Calls
  BY <1>1 DEF Calls
<1>3. IsFrame(Top(w))
  BY <1>1, <1>2, AtTop, Zenon
<1>4. PICK p : p = Top(w).packet
  OBVIOUS
<1> DEFINE down == [Level(Top(w), p.owner, p.ns) EXCEPT !.addrs = {}, !.packet = NoPacket]
<1>5. \/ \E r : Return(w, r, me[w])
      \/ /\ Continue(w, down) \/ Continue(w, NextAddress(Top(w)))
         /\ UNCHANGED me /\ running' = running
  BY <1>4, Zenon DEF GotReferral
<1>6. IsFrame(down) /\ down.at = "next" /\ down.q = Top(w).q
  <2>1. PICK l : l = Level(Top(w), p.owner, p.ns)
    OBVIOUS
  <2>2. IsFrame(l) /\ l.at = "next" /\ l.q = Top(w).q
    BY <1>3, <2>1, LevelFrame
  <2>3. down = [l EXCEPT !.addrs = {}, !.packet = NoPacket]
    BY <2>1
  <2> QED
    BY <2>2, <2>3 DEF IsFrame, Frame
<1>7. /\ IsFrame(NextAddress(Top(w))) /\ NextAddress(Top(w)).at \in {"next", "ask"}
      /\ NextAddress(Top(w)).q = Top(w).q
  BY <1>3, NextAddressFrame, Zenon
<1> HIDE DEF down
<1>8. CASE \E r : Return(w, r, me[w])
  BY <1>1, <1>2, <1>8, ReturnSame, Zenon
<1>9. CASE /\ Continue(w, down) \/ Continue(w, NextAddress(Top(w)))
           /\ UNCHANGED me /\ running' = running
  <2>1. PICK f : Continue(w, f) /\ IsFrame(f) /\ f.at \in {"next", "ask"} /\ f.q = Top(w).q
    <3>1. down.at \in {"next", "ask"}
      BY <1>6
    <3> QED
      BY <1>6, <1>7, <1>9, <3>1, Zenon
  <2>2. f.at \notin Calls /\ Heard(world, f)
    BY <2>1 DEF Calls, Heard
  <2> QED
    BY <1>1, <1>2, <1>9, <2>1, <2>2, ContinueSame, Zenon
<1> QED
  BY <1>5, <1>8, <1>9

-----------------------------------------------------------------------------
(* Calls that set flags, and what their callers do when they have returned *)

LEMMA Step0Steps ==
  ASSUME Workmanlike, NEW w \in Workers, Step0(w)
  PROVE  Stepped(w)
<1>1. PICK f : f = [Top(w) EXCEPT !.at = "peeked", !.old = me[w].cacheOnly]
  OBVIOUS
<1>2. PICK g : g = [Frame("noQM", Top(w).q, <<>>, Top(w).depth, Top(w).been) EXCEPT !.peek = TRUE]
  OBVIOUS
<1>3. /\ running' = w /\ stack[w] # <<>> /\ Top(w).at = "start" /\ UNCHANGED world
      /\ me' = [me EXCEPT ![w].cacheOnly = TRUE]
  BY DEF Step0, Runs
<1>4. Call(w, f, g)
  BY <1>1, <1>2, Zenon DEF Step0
<1>5. Top(w).at \notin Calls
  BY <1>3 DEF Calls
<1>6. Limited(me[w]) /\ FlagsAt(stack[w], Len(stack[w]), me[w]) /\ IsFrame(Top(w))
  BY <1>3, <1>5, AtTop, Zenon
<1>7. PICK o : o = [me[w] EXCEPT !.cacheOnly = TRUE]
  OBVIOUS
<1>8. MeBecomes(w, o)
  BY <1>3, <1>7 DEF MeBecomes, Workmanlike
<1>9. /\ Limited(o) /\ o.cacheOnly = TRUE
      /\ o.requireAuth = me[w].requireAuth /\ o.follow = me[w].follow
  BY <1>6, <1>7 DEF Limited, IsObject, NoOne, SyncRes
<1>10. IsFrame(f) /\ f.at = "peeked" /\ f.q = Top(w).q /\ f.old = me[w].cacheOnly
  BY <1>1, <1>6 DEF IsFrame, Frame
<1>11. IsFrame(g) /\ g.at = "start"
  BY <1>2 DEF IsFrame, Frame
<1>12. /\ f.at \in Calls /\ f.at # "serverResolved" /\ f.at # "childAsked" /\ f.at \in Looks
       /\ f.at \notin {"serverResolved", "childAsked"}
  BY <1>10 DEF Calls, Looks
<1>13. PICK P \in BOOLEAN, Q \in BOOLEAN :
         P = Trusting(stack[w], Len(stack[w])) /\ Q = Following(stack[w], Len(stack[w]))
  BY Booleans, Zenon
<1>14. /\ me[w].requireAuth = P /\ me[w].follow = Q
       /\ me[w].cacheOnly = Looking(stack[w], Len(stack[w]))
  BY <1>6, <1>13, Zenon DEF FlagsAt
<1>15. o.requireAuth = (P /\ f.at # "serverResolved")
       /\ o.follow = (Q /\ f.at \notin {"serverResolved", "childAsked"})
  BY <1>9, <1>12, <1>14
<1> QED
  BY <1>3, <1>4, <1>8, <1>9, <1>10, <1>11, <1>12, <1>13, <1>14, <1>15, CallSteps, Zenon

\* The flags of a frame are back once those it had put aside are set again.
LEMMA BackAtTop ==
  ASSUME NEW s, NEW n \in Nat \ {0}, NEW m, FlagsBack(s, n, m), Kept(s, n),
         NEW o,
         s[n].at = "peeked" =>
           o.cacheOnly = s[n].old /\ o.requireAuth = m.requireAuth /\ o.follow = m.follow,
         s[n].at = "childAsked" =>
           o.cacheOnly = m.cacheOnly /\ o.requireAuth = m.requireAuth /\ o.follow = s[n].old,
         s[n].at = "serverResolved" =>
           /\ o.cacheOnly = s[n].saved.cacheOnly /\ o.requireAuth = s[n].saved.requireAuth
           /\ o.follow = s[n].saved.follow,
         s[n].at \in {"aliasFollowed", "targetResolved"} => o = m,
         s[n].at \in Calls
  PROVE  FlagsAt(s, n, o)
<1>1. PICK P \in BOOLEAN, Q \in BOOLEAN : P = Trusting(s, n) /\ Q = Following(s, n)
  BY Booleans, Zenon
<1>2. /\ Trusting(s, n + 1) = (P /\ s[n].at # "serverResolved")
      /\ Following(s, n + 1) = (Q /\ s[n].at \notin {"serverResolved", "childAsked"})
  BY <1>1, Above, Zenon
<1>3. /\ m.requireAuth = (P /\ s[n].at # "serverResolved")
      /\ m.follow = (Q /\ s[n].at \notin {"serverResolved", "childAsked"})
      /\ s[n].at \notin Looks => m.cacheOnly = Looking(s, n)
  BY <1>2, Zenon DEF FlagsBack
<1>4. CASE s[n].at = "peeked"
  <2>1. o.requireAuth = P /\ o.follow = Q
    BY <1>3, <1>4
  <2>2. o.cacheOnly = Looking(s, n)
    BY <1>4, Zenon DEF Kept
  <2> QED
    BY <1>1, <2>1, <2>2, Zenon DEF FlagsAt
<1>5. CASE s[n].at = "childAsked"
  <2>1. o.requireAuth = P /\ s[n].at \notin Looks
    BY <1>3, <1>5 DEF Looks
  <2>2. o.follow = Following(s, n) /\ o.cacheOnly = Looking(s, n)
    BY <1>3, <1>5, <2>1, Zenon DEF Kept
  <2> QED
    BY <1>1, <2>1, <2>2, Zenon DEF FlagsAt
<1>6. CASE s[n].at = "serverResolved"
  BY <1>6, SameFlags, Zenon DEF Kept
<1>7. CASE s[n].at \in {"aliasFollowed", "targetResolved"}
  <2>1. o.requireAuth = P /\ o.follow = Q /\ s[n].at \notin Looks
    BY <1>3, <1>7 DEF Looks
  <2>2. o.cacheOnly = Looking(s, n)
    BY <1>3, <1>7, <2>1, Zenon
  <2> QED
    BY <1>1, <2>1, <2>2, Zenon DEF FlagsAt
<1> QED
  BY <1>4, <1>5, <1>6, <1>7 DEF Calls

LEMMA PeekedSteps ==
  ASSUME Workmanlike, NEW w \in Workers, Peeked(w)
  PROVE  Stepped(w)
<1>1. PICK f : f = [Top(w) EXCEPT !.at = "ancestor", !.been = Top(w).got.been, !.got = NoResult]
  OBVIOUS
<1>2. PICK o : o = [me[w] EXCEPT !.cacheOnly = Top(w).old]
  OBVIOUS
<1>3. /\ running = w /\ stack[w] # <<>> /\ Top(w).at = "peeked" /\ UNCHANGED world
  BY DEF Peeked, Runs
<1>4. \/ \E r : Return(w, r, o)
      \/ Continue(w, f) /\ me' = [me EXCEPT ![w] = o] /\ running' = running
  BY <1>1, <1>2, Zenon DEF Peeked
<1>5. /\ IsFrame(Top(w)) /\ Top(w) = stack[w][Len(stack[w])] /\ Limited(me[w])
      /\ FlagsBack(stack[w], Len(stack[w]), me[w]) /\ Kept(stack[w], Len(stack[w]))
      /\ Len(stack[w]) \in Nat \ {0}
  <2>1. Top(w).at \in Calls
    BY <1>3 DEF Calls
  <2> QED
    BY <1>3, <2>1, AtCall, Zenon
<1>6. /\ Limited(o) /\ o.cacheOnly = Top(w).old
      /\ o.requireAuth = me[w].requireAuth /\ o.follow = me[w].follow
  BY <1>2, <1>5 DEF Limited, IsObject, NoOne, SyncRes
<1>7. FlagsAt(stack[w], Len(stack[w]), o)
  <2> PICK s, m : s = stack[w] /\ m = me[w]
    OBVIOUS
  <2> PICK n \in Nat \ {0} : n = Len(stack[w])
    BY <1>5
  <2>1. s = stack[w] /\ n = Len(stack[w]) /\ m = me[w]
    OBVIOUS
  <2>2. FlagsBack(s, n, m) /\ Kept(s, n) /\ s[n].at = "peeked"
        /\ o.cacheOnly = s[n].old /\ o.requireAuth = m.requireAuth /\ o.follow = m.follow
    BY <1>3, <1>5, <1>6, <2>1, Zenon
  <2>3. /\ s[n].at \in Calls /\ s[n].at # "childAsked" /\ s[n].at # "serverResolved"
        /\ s[n].at \notin {"aliasFollowed", "targetResolved"}
    BY <2>2 DEF Calls
  <2>4. FlagsAt(s, n, o)
    BY <2>2, <2>3, BackAtTop, Zenon
  <2> QED
    BY <2>1, <2>4, Zenon
<1>8. IsFrame(f) /\ f.at \notin Calls /\ f.q = Top(w).q /\ Heard(world, f)
  BY <1>1, <1>5 DEF IsFrame, Frame, Calls, Heard
<1>9. CASE \E r : Return(w, r, o)
  BY <1>3, <1>6, <1>7, <1>9, ReturnSteps, Zenon
<1>10. CASE Continue(w, f) /\ me' = [me EXCEPT ![w] = o] /\ running' = running
  <2>1. MeBecomes(w, o)
    BY <1>10, MeSet, Zenon
  <2>2. running' \in {w, None}
    BY <1>3, <1>10
  <2> QED
    BY <1>3, <1>6, <1>7, <1>8, <1>10, <2>1, <2>2, ContinueSteps, Zenon
<1> QED
  BY <1>4, <1>9, <1>10

LEMMA Step34Steps ==
  ASSUME Workmanlike, NEW w \in Workers, Step34(w)
  PROVE  Stepped(w)
<1>1. running = w /\ stack[w] # <<>> /\ Top(w).at = "child" /\ UNCHANGED world
  BY DEF Step34, Runs
<1>2. PICK child : child = SubSeq(Top(w).q, 1, StepLen(Len(Top(w).child), Len(Top(w).q), Top(w).i))
  OBVIOUS
<1>3. PICK f : f = [Top(w) EXCEPT !.at = "childAsked", !.child = child, !.old = me[w].follow]
  OBVIOUS
<1>4. PICK g : g = [Frame("noQM", child, <<>>, Top(w).depth, Top(w).been) EXCEPT !.stop = TRUE]
  OBVIOUS
<1>5. PICK h : h = Plainly(Top(w), Top(w).depth)
  OBVIOUS
<1>6. \/ \E r : Return(w, r, me[w])
      \/ Continue(w, h) /\ UNCHANGED me /\ running' = running
      \/ Call(w, f, g) /\ me' = [me EXCEPT ![w].follow = FALSE] /\ running' = running
  BY <1>2, <1>3, <1>4, <1>5, Zenon DEF Step34
<1>7. Top(w).at \notin Calls
  BY <1>1 DEF Calls
<1>8. Limited(me[w]) /\ FlagsAt(stack[w], Len(stack[w]), me[w]) /\ IsFrame(Top(w))
  BY <1>1, <1>7, AtTop, Zenon
<1>9. CASE \E r : Return(w, r, me[w])
  BY <1>1, <1>7, <1>9, ReturnSame, Zenon
<1>10. CASE Continue(w, h) /\ UNCHANGED me /\ running' = running
  <2>1. IsFrame(h) /\ h.at \notin Calls /\ h.q = Top(w).q /\ Heard(world, h)
    BY <1>5 DEF IsFrame, Plainly, Frame, Calls, Heard
  <2>2. running' \in {w, None}
    BY <1>1, <1>10
  <2> QED
    BY <1>1, <1>7, <1>10, <2>1, <2>2, ContinueSame, Zenon
<1>11. CASE Call(w, f, g) /\ me' = [me EXCEPT ![w].follow = FALSE] /\ running' = running
  <2>1. PICK o : o = [me[w] EXCEPT !.follow = FALSE]
    OBVIOUS
  <2>2. MeBecomes(w, o)
    BY <1>11, <2>1 DEF MeBecomes, Workmanlike
  <2>3. /\ Limited(o) /\ o.follow = FALSE
        /\ o.requireAuth = me[w].requireAuth /\ o.cacheOnly = me[w].cacheOnly
    BY <1>8, <2>1 DEF Limited, IsObject, NoOne, SyncRes
  <2>4. IsFrame(f) /\ f.at = "childAsked" /\ f.q = Top(w).q /\ f.old = me[w].follow
    BY <1>3, <1>8 DEF IsFrame, Frame
  <2>5. IsFrame(g) /\ g.at = "start"
    BY <1>4 DEF IsFrame, Frame
  <2>6. /\ f.at \in Calls /\ f.at # "serverResolved" /\ f.at # "peeked" /\ f.at \notin Looks
        /\ f.at \in {"serverResolved", "childAsked"}
    BY <2>4 DEF Calls, Looks
  <2>7. PICK P \in BOOLEAN, Q \in BOOLEAN :
          P = Trusting(stack[w], Len(stack[w])) /\ Q = Following(stack[w], Len(stack[w]))
    BY Booleans, Zenon
  <2>8. /\ me[w].requireAuth = P /\ me[w].follow = Q
        /\ me[w].cacheOnly = Looking(stack[w], Len(stack[w]))
    BY <1>8, <2>7, Zenon DEF FlagsAt
  <2>9. o.requireAuth = (P /\ f.at # "serverResolved")
        /\ o.follow = (Q /\ f.at \notin {"serverResolved", "childAsked"})
    BY <2>3, <2>6, <2>8
  <2> QED
    BY <1>1, <1>11, <2>2, <2>3, <2>4, <2>5, <2>6, <2>7, <2>8, <2>9, CallSteps, Zenon
<1> QED
  BY <1>6, <1>9, <1>10, <1>11

LEMMA ChildAskedSteps ==
  ASSUME Workmanlike, NEW w \in Workers, ChildAsked(w)
  PROVE  Stepped(w)
<1>1. running = w /\ stack[w] # <<>> /\ Top(w).at = "childAsked" /\ UNCHANGED world
      /\ running' = running
  BY DEF ChildAsked, Runs
<1>2. PICK g : g = [Top(w) EXCEPT !.been = Top(w).got.been, !.got = NoResult, !.i = @ + 1]
  OBVIOUS
<1>3. PICK a : a = [g EXCEPT !.at = IF Top(w).got.stopped THEN "ancestor" ELSE "child"]
  OBVIOUS
<1>4. PICK b : b = Plainly(g, Top(w).depth + 1)
  OBVIOUS
<1>5. PICK o : o = [me[w] EXCEPT !.follow = Top(w).old]
  OBVIOUS
<1>6. PICK p : p = [o EXCEPT !.qm = FALSE, !.fallback = TRUE]
  OBVIOUS
<1>7. \/ Continue(w, a) /\ me' = [me EXCEPT ![w] = o]
      \/ Continue(w, b) /\ me' = [me EXCEPT ![w] = p]
  <2>1. CASE Top(w).got.rcode # "NoError" /\ ~Top(w).got.stopped
    <3>1. Continue(w, Plainly(g, Top(w).depth + 1))
          /\ me' = [me EXCEPT ![w] = [o EXCEPT !.qm = FALSE, !.fallback = TRUE]]
      BY <1>2, <1>5, <2>1, Zenon DEF ChildAsked
    <3> QED
      BY <1>4, <1>6, <3>1, Zenon
  <2>2. CASE ~(Top(w).got.rcode # "NoError" /\ ~Top(w).got.stopped)
    <3>1. Continue(w, [g EXCEPT !.at = IF Top(w).got.stopped THEN "ancestor" ELSE "child"])
          /\ me' = [me EXCEPT ![w] = o]
      BY <1>2, <1>5, <2>2, Zenon DEF ChildAsked
    <3> QED
      BY <1>3, <3>1, Zenon
  <2> QED
    BY <2>1, <2>2
<1>8. /\ IsFrame(Top(w)) /\ Top(w) = stack[w][Len(stack[w])] /\ Limited(me[w])
      /\ FlagsBack(stack[w], Len(stack[w]), me[w]) /\ Kept(stack[w], Len(stack[w]))
      /\ Len(stack[w]) \in Nat \ {0}
  <2>1. Top(w).at \in Calls
    BY <1>1 DEF Calls
  <2> QED
    BY <1>1, <2>1, AtCall, Zenon
<1>9. IsFrame(g) /\ g.q = Top(w).q
  BY <1>2, <1>8 DEF IsFrame, Frame
<1>10. IsFrame(a) /\ a.at \notin Calls /\ a.q = Top(w).q /\ Heard(world, a)
  BY <1>3, <1>9 DEF IsFrame, Frame, Calls, Heard
<1>11. IsFrame(b) /\ b.at \notin Calls /\ b.q = Top(w).q /\ Heard(world, b)
  BY <1>4, <1>9 DEF IsFrame, Plainly, Frame, Calls, Heard
<1>12. /\ Limited(o) /\ o.cacheOnly = me[w].cacheOnly
       /\ o.requireAuth = me[w].requireAuth /\ o.follow = Top(w).old
  BY <1>5, <1>8 DEF Limited, IsObject, NoOne, SyncRes
<1>13. /\ Limited(p) /\ p.cacheOnly = o.cacheOnly
       /\ p.requireAuth = o.requireAuth /\ p.follow = o.follow
  BY <1>6, <1>12 DEF Limited, IsObject, NoOne, SyncRes
<1>14. FlagsAt(stack[w], Len(stack[w]), o)
  <2> PICK s, m : s = stack[w] /\ m = me[w]
    OBVIOUS
  <2> PICK n \in Nat \ {0} : n = Len(stack[w])
    BY <1>8
  <2>1. s = stack[w] /\ n = Len(stack[w]) /\ m = me[w]
    OBVIOUS
  <2>2. FlagsBack(s, n, m) /\ Kept(s, n) /\ s[n].at = "childAsked"
        /\ o.cacheOnly = m.cacheOnly /\ o.requireAuth = m.requireAuth /\ o.follow = s[n].old
    BY <1>1, <1>8, <1>12, <2>1, Zenon
  <2>3. /\ s[n].at \in Calls /\ s[n].at # "peeked" /\ s[n].at # "serverResolved"
        /\ s[n].at \notin {"aliasFollowed", "targetResolved"}
    BY <2>2 DEF Calls
  <2>4. FlagsAt(s, n, o)
    BY <2>2, <2>3, BackAtTop, Zenon
  <2> QED
    BY <2>1, <2>4, Zenon
<1>15. FlagsAt(stack[w], Len(stack[w]), p)
  BY <1>13, <1>14, SameFlags, Zenon
<1>16. running' \in {w, None}
  BY <1>1
<1>17. CASE Continue(w, a) /\ me' = [me EXCEPT ![w] = o]
  <2>1. MeBecomes(w, o)
    BY <1>17, MeSet, Zenon
  <2> QED
    BY <1>1, <1>10, <1>12, <1>14, <1>16, <1>17, <2>1, ContinueSteps, Zenon
<1>18. CASE Continue(w, b) /\ me' = [me EXCEPT ![w] = p]
  <2>1. MeBecomes(w, p)
    BY <1>18, MeSet, Zenon
  <2> QED
    BY <1>1, <1>11, <1>13, <1>15, <1>16, <1>18, <2>1, ContinueSteps, Zenon
<1> QED
  BY <1>7, <1>17, <1>18

LEMMA TargetSteps ==
  ASSUME Workmanlike, NEW w \in Workers, AliasFollowed(w) \/ TargetResolved(w)
  PROVE  Stepped(w)
<1>1. /\ running = w /\ stack[w] # <<>> /\ Top(w).at \in {"aliasFollowed", "targetResolved"}
      /\ UNCHANGED world
  BY DEF AliasFollowed, TargetResolved, Runs
<1>2. \E r : Return(w, r, me[w])
  BY Zenon DEF AliasFollowed, TargetResolved
<1>3. /\ IsFrame(Top(w)) /\ Top(w) = stack[w][Len(stack[w])] /\ Limited(me[w])
      /\ FlagsBack(stack[w], Len(stack[w]), me[w]) /\ Kept(stack[w], Len(stack[w]))
      /\ Len(stack[w]) \in Nat \ {0}
  <2>1. Top(w).at \in Calls
    BY <1>1 DEF Calls
  <2> QED
    BY <1>1, <2>1, AtCall, Zenon
<1>4. FlagsAt(stack[w], Len(stack[w]), me[w])
  <2> PICK s, m : s = stack[w] /\ m = me[w]
    OBVIOUS
  <2> PICK n \in Nat \ {0} : n = Len(stack[w])
    BY <1>3
  <2>1. s = stack[w] /\ n = Len(stack[w]) /\ m = me[w]
    OBVIOUS
  <2>2. FlagsBack(s, n, m) /\ Kept(s, n) /\ s[n].at \in {"aliasFollowed", "targetResolved"}
    BY <1>1, <1>3, <2>1, Zenon
  <2>3. /\ s[n].at \in Calls /\ s[n].at # "peeked" /\ s[n].at # "serverResolved"
        /\ s[n].at # "childAsked"
    BY <2>2 DEF Calls
  <2>4. FlagsAt(s, n, m)
    BY <2>2, <2>3, BackAtTop, Zenon
  <2> QED
    BY <2>1, <2>4, Zenon
<1> QED
  BY <1>1, <1>2, <1>3, <1>4, ReturnSteps, Zenon

LEMMA TryServerSteps ==
  ASSUME Workmanlike, NEW w \in Workers, NEW ns, TryServer(w, ns)
  PROVE  Stepped(w)
<1>1. running = w /\ stack[w] # <<>> /\ Top(w).at = "next" /\ UNCHANGED world
      /\ running' = running
  BY DEF TryServer, Runs
<1>2. Top(w).at \notin Calls
  BY <1>1 DEF Calls
<1>3. Limited(me[w]) /\ FlagsAt(stack[w], Len(stack[w]), me[w]) /\ IsFrame(Top(w))
  BY <1>1, <1>2, AtTop, Zenon
<1>4. PICK e : e = [Top(w) EXCEPT !.left = @ \ {ns}]
  OBVIOUS
<1>5. IsFrame(e) /\ e.q = Top(w).q
  BY <1>3, <1>4 DEF IsFrame, Frame
<1>6. PICK saved : saved = [cacheOnly |-> me[w].cacheOnly, requireAuth |-> me[w].requireAuth,
                            follow |-> me[w].follow]
  OBVIOUS
<1>7. PICK a : a = [e EXCEPT !.at = "ask", !.addrs = {cache[<<ns, "A">>].val}]
  OBVIOUS
<1>8. PICK f : f = [e EXCEPT !.at = "serverResolved", !.sent = me[w].sent, !.saved = saved]
  OBVIOUS
<1>9. PICK g : g = Frame("noQM", ns, <<>>, Top(w).depth + 1, Top(w).been)
  OBVIOUS
<1>10. \/ Continue(w, a) /\ UNCHANGED me
       \/ /\ Call(w, f, g)
          /\ me' = [me EXCEPT ![w].cacheOnly = (ns = Top(w).q), ![w].requireAuth = FALSE,
                              ![w].follow = FALSE]
  <2>1. CASE <<ns, "A">> \in DOMAIN cache
    BY <1>4, <1>7, <2>1, Zenon DEF TryServer
  <2>2. CASE <<ns, "A">> \notin DOMAIN cache
    <3>1. Call(w, [e EXCEPT !.at = "serverResolved", !.sent = me[w].sent,
                            !.saved = [cacheOnly   |-> me[w].cacheOnly,
                                       requireAuth |-> me[w].requireAuth,
                                       follow      |-> me[w].follow]],
                  Frame("noQM", ns, <<>>, Top(w).depth + 1, Top(w).been))
      BY <1>4, <2>2, Zenon DEF TryServer
    <3>2. me' = [me EXCEPT ![w].cacheOnly = (ns = Top(w).q), ![w].requireAuth = FALSE,
                           ![w].follow = FALSE]
      BY <2>2, Zenon DEF TryServer
    <3> QED
      BY <1>6, <1>8, <1>9, <3>1, <3>2, Zenon
  <2> QED
    BY <2>1, <2>2
<1>11. CASE Continue(w, a) /\ UNCHANGED me
  <2>1. IsFrame(a) /\ a.at \notin Calls /\ a.q = Top(w).q /\ Heard(world, a)
    BY <1>5, <1>7 DEF IsFrame, Frame, Calls, Heard
  <2>2. running' \in {w, None}
    BY <1>1
  <2> QED
    BY <1>1, <1>2, <1>11, <2>1, <2>2, ContinueSame, Zenon
<1>12. CASE /\ Call(w, f, g)
            /\ me' = [me EXCEPT ![w].cacheOnly = (ns = Top(w).q), ![w].requireAuth = FALSE,
                                ![w].follow = FALSE]
  <2>1. PICK B \in BOOLEAN : B = (ns = Top(w).q)
    OBVIOUS
  <2>2. PICK o : o = [me[w] EXCEPT !.cacheOnly = B, !.requireAuth = FALSE, !.follow = FALSE]
    OBVIOUS
  <2>3. MeBecomes(w, o)
    <3>1. me' = [me EXCEPT ![w].cacheOnly = B, ![w].requireAuth = FALSE, ![w].follow = FALSE]
      BY <1>12, <2>1, Zenon
    <3> QED
      BY <2>2, <3>1 DEF MeBecomes, Workmanlike
  <2>4. Limited(o) /\ o.cacheOnly = B /\ o.requireAuth = FALSE /\ o.follow = FALSE
    BY <1>3, <2>2 DEF Limited, IsObject, NoOne, SyncRes
  <2>5. IsFrame(f) /\ f.at = "serverResolved" /\ f.q = Top(w).q /\ f.saved = saved
    BY <1>5, <1>8 DEF IsFrame, Frame
  <2>6. IsFrame(g) /\ g.at = "start" /\ g.q = ns
    BY <1>9 DEF IsFrame, Frame
  <2>7. /\ f.at \in Calls /\ f.at # "childAsked" /\ f.at # "peeked" /\ f.at \in Looks
        /\ f.at \in {"serverResolved", "childAsked"}
    BY <2>5 DEF Calls, Looks
  <2>8. FlagsAt(stack[w], Len(stack[w]), f.saved)
    <3>1. /\ saved.cacheOnly = me[w].cacheOnly /\ saved.requireAuth = me[w].requireAuth
          /\ saved.follow = me[w].follow
      BY <1>6, Zenon
    <3> QED
      BY <1>3, <2>5, <3>1, SameFlags, Zenon
  <2>9. PICK P \in BOOLEAN, Q \in BOOLEAN :
          P = Trusting(stack[w], Len(stack[w])) /\ Q = Following(stack[w], Len(stack[w]))
    BY Booleans, Zenon
  <2>10. o.requireAuth = (P /\ f.at # "serverResolved")
         /\ o.follow = (Q /\ f.at \notin {"serverResolved", "childAsked"})
    BY <2>4, <2>5, <2>7
  <2>11. o.cacheOnly = (g.q = f.q)
    BY <2>1, <2>4, <2>5, <2>6, Zenon
  <2>12. running' = w
    BY <1>1
  <2> QED
    BY <1>1, <1>12, <2>3, <2>4, <2>5, <2>6, <2>7, <2>8, <2>9, <2>10, <2>11, <2>12, CallSteps, Zenon
<1> QED
  BY <1>10, <1>11, <1>12

LEMMA ServerResolvedSteps ==
  ASSUME Workmanlike, NEW w \in Workers, ServerResolved(w)
  PROVE  Stepped(w)
<1>1. running = w /\ stack[w] # <<>> /\ Top(w).at = "serverResolved" /\ UNCHANGED world
      /\ running' = running /\ me' = [me EXCEPT ![w] = Restored(@, Top(w).saved)]
  BY DEF ServerResolved, Runs
<1>2. PICK addrs, empties :
        Continue(w, [Top(w) EXCEPT !.at = IF addrs = {} THEN "next" ELSE "ask",
                               !.addrs = addrs, !.been = Top(w).got.been, !.got = NoResult,
                               !.empties = empties, !.saved = NoFlags, !.sent = 0])
  BY Zenon DEF ServerResolved
<1>3. PICK at : at = IF addrs = {} THEN "next" ELSE "ask"
  OBVIOUS
<1>4. PICK f : f = [Top(w) EXCEPT !.at = at,
                               !.addrs = addrs, !.been = Top(w).got.been, !.got = NoResult,
                               !.empties = empties, !.saved = NoFlags, !.sent = 0]
  OBVIOUS
<1>5. Continue(w, f)
  BY <1>2, <1>3, <1>4, Zenon
<1>6. at \in {"next", "ask"}
  BY <1>3
<1>7. /\ IsFrame(Top(w)) /\ Top(w) = stack[w][Len(stack[w])] /\ Limited(me[w])
      /\ FlagsBack(stack[w], Len(stack[w]), me[w]) /\ Kept(stack[w], Len(stack[w]))
      /\ Len(stack[w]) \in Nat \ {0}
  <2>1. Top(w).at \in Calls
    BY <1>1 DEF Calls
  <2> QED
    BY <1>1, <2>1, AtCall, Zenon
<1>8. IsFrame(f) /\ f.at \notin Calls /\ f.q = Top(w).q /\ Heard(world, f)
  BY <1>4, <1>6, <1>7 DEF IsFrame, Frame, Calls, Heard
<1>9. PICK o : o = Restored(me[w], Top(w).saved)
  OBVIOUS
<1>10. MeBecomes(w, o)
  BY <1>1, <1>9 DEF MeBecomes, Workmanlike
<1>11. /\ Limited(o) /\ o.cacheOnly = Top(w).saved.cacheOnly
       /\ o.requireAuth = Top(w).saved.requireAuth /\ o.follow = Top(w).saved.follow
  BY <1>7, <1>9 DEF Restored, Limited, IsObject, NoOne, SyncRes
<1>12. FlagsAt(stack[w], Len(stack[w]), o)
  <2>1. FlagsAt(stack[w], Len(stack[w]), Top(w).saved)
    BY <1>1, <1>7, Zenon DEF Kept
  <2> QED
    BY <1>11, <2>1, SameFlags, Zenon
<1>13. running' \in {w, None}
  BY <1>1
<1> QED
  BY <1>1, <1>5, <1>8, <1>10, <1>11, <1>12, <1>13, ContinueSteps, Zenon

LEMMA AskSteps ==
  ASSUME Workmanlike, NEW w \in Workers, NEW q, Ask(w, q)
  PROVE  Stepped(w)
<1>1. PICK f : f = Frame("doResolve", q, <<>>, 0, {})
  OBVIOUS
<1>2. PICK s : s = <<f>>
  OBVIOUS
<1>3. IsSeq(s) /\ Len(s) = 1 /\ s[1] = f /\ s # <<>>
  <2>1. s \in Seq({f})
    BY <1>2
  <2> QED
    BY <1>2, <2>1 DEF IsSeq
<1>4. /\ stack' = [stack EXCEPT ![w] = s] /\ me' = [me EXCEPT ![w] = SyncRes(q)]
      /\ running' = w /\ UNCHANGED world
  BY <1>1, <1>2, Zenon DEF Ask
<1>5. IsFrame(f) /\ f.at = "start" /\ f.at \notin Calls
  BY <1>1 DEF IsFrame, Frame, Calls
<1>6. FlagsAt(s, 1, SyncRes(q))
  <2>1. \A j \in 1 .. 1 - 1 : FALSE
    OBVIOUS
  <2>2. Trusting(s, 1) /\ Following(s, 1) /\ ~Looking(s, 1)
    BY <2>1, Zenon DEF Trusting, Following, Looking
  <2>3. Trusting(s, 1) = TRUE /\ Following(s, 1) = TRUE /\ Looking(s, 1) = FALSE
    BY <2>2, Booleans, Equal
  <2>4. SyncRes(q).cacheOnly = FALSE /\ SyncRes(q).requireAuth = TRUE /\ SyncRes(q).follow = TRUE
    BY DEF SyncRes
  <2> QED
    BY <2>3, <2>4, Zenon DEF FlagsAt
<1>7. Limited(SyncRes(q))
  BY ResolutionAssumption DEF Limited, IsObject, NoOne, SyncRes
<1>8. Stacked(world, s, SyncRes(q))
  <2>1. \A i \in 1 .. 1 : i = 1
    OBVIOUS
  <2>2. \A i \in 1 .. 1 - 1 : FALSE
    OBVIOUS
  <2>3. 1 <= MaxStack
    BY ResolutionAssumption
  <2>4. Kept(s, 1)
    BY <1>3, <1>5, Zenon DEF Kept, Calls
  <2>5. Heard(world, f)
    BY <1>5 DEF Heard
  <2> QED
    BY <1>3, <1>5, <1>6, <2>1, <2>2, <2>3, <2>4, <2>5, Zenon DEF Stacked
<1>9. /\ DOMAIN stack' = Workers /\ stack'[w] = s /\ DOMAIN me' = Workers /\ me'[w] = SyncRes(q)
      /\ \A v \in Workers \ {w} : stack'[v] = stack[v] /\ me'[v] = me[v]
  BY <1>4 DEF Workmanlike
<1>10. Stacked(world', stack'[w], me'[w]) /\ Limited(me'[w])
  BY <1>4, <1>7, <1>8, <1>9, Zenon
<1> QED
  BY <1>3, <1>4, <1>9, <1>10 DEF Stepped

-----------------------------------------------------------------------------
(* What servers answer *)

LEMMA LeastNumber ==
  ASSUME NEW T, T \subseteq Nat, T # {}
  PROVE  \E n \in T : \A m \in T : n <= m
<1> DEFINE less == {p \in Nat \X Nat : p[1] < p[2]}
<1>1. IsWellFoundedOn(less, Nat)
  BY NatLessThanWellFounded DEF OpToRel
<1>2. PICK n \in T : \A m \in T : <<m, n>> \notin less
  BY <1>1, WFMin
<1>3. \A m \in T : ~(m < n)
  BY <1>2
<1> QED
  BY <1>2, <1>3

\* Of a set without a longest name, a smallest such subset would lose it with one name.
LEMMA LongestExists ==
  ASSUME NEW S, IsFiniteSet(S), S # {}, \A n \in S : Len(n) \in Nat
  PROVE  \E n \in S : \A m \in S : Len(m) <= Len(n)
<1> DEFINE Longest(T) == \E n \in T : \A m \in T : Len(m) <= Len(n)
           Bad == {k \in Nat : \E T \in SUBSET S : T # {} /\ Cardinality(T) = k /\ ~Longest(T)}
<1>1. ASSUME Bad # {} PROVE FALSE
  <2>1. PICK k \in Bad : \A m \in Bad : k <= m
    <3>1. Bad \subseteq Nat
      OBVIOUS
    <3> HIDE DEF Bad
    <3> QED
      BY <1>1, <3>1, LeastNumber
  <2>2. PICK T \in SUBSET S : T # {} /\ Cardinality(T) = k /\ ~Longest(T)
    BY <2>1
  <2>3. PICK x \in T : TRUE
    BY <2>2
  <2>4. IsFiniteSet(T)
    BY FS_Subset
  <2>5. PICK U : U = T \ {x}
    OBVIOUS
  <2>6. Cardinality(U) = k - 1 /\ IsFiniteSet(U)
    BY <2>2, <2>3, <2>4, <2>5, FS_RemoveElement
  <2>7. k \in Nat /\ Cardinality(U) \in Nat
    BY <2>1, <2>6, FS_CardinalityType
  <2>8. ~(Cardinality(U) \in Bad)
    <3>1. ~(k <= k - 1)
      BY <2>7
    <3> HIDE DEF Bad
    <3>2. \A m \in Bad : m # k - 1
      BY <2>1, <3>1, Zenon
    <3> QED
      BY <2>6, <3>2, Zenon
  <2>9. U = {} \/ Longest(U)
    <3>1. U \in SUBSET S
      BY <2>5
    <3> QED
      BY <2>7, <2>8, <3>1
  <2>10. CASE U = {}
    <3>1. \A m \in T : m = x
      BY <2>5, <2>10
    <3>2. Len(x) \in Nat
      BY <2>3
    <3>3. \A m \in T : Len(m) <= Len(x)
      BY <3>1, <3>2
    <3> QED
      BY <2>2, <2>3, <3>3
  <2>11. CASE Longest(U)
    <3>1. PICK y \in U : \A m \in U : Len(m) <= Len(y)
      BY <2>11
    <3>2. x \in S /\ y \in S /\ y \in T
      BY <2>3, <2>5
    <3>3. PICK a \in Nat, b \in Nat : a = Len(x) /\ b = Len(y)
      BY <3>2
    <3>4. \A m \in T : m \in U \/ m = x
      BY <2>5
    <3>5. CASE a <= b
      <4>1. \A m \in T : Len(m) <= Len(y)
        BY <3>1, <3>3, <3>4, <3>5
      <4> QED
        BY <2>2, <3>2, <4>1
    <3>6. CASE b <= a
      <4>1. \A m \in T : Len(m) <= Len(x)
        <5> TAKE m \in T
        <5>1. PICK c \in Nat : c = Len(m)
          OBVIOUS
        <5>2. m = x \/ c <= b
          BY <3>1, <3>3, <3>4, <5>1
        <5> QED
          BY <3>3, <3>6, <5>1, <5>2
      <4> QED
        BY <2>2, <2>3, <4>1
    <3> QED
      BY <3>3, <3>5, <3>6
  <2> QED
    BY <2>9, <2>10, <2>11
<1>2. Cardinality(S) \in Nat
  BY FS_CardinalityType
<1>3. Cardinality(S) \notin Bad
  BY <1>1
<1> QED
  BY <1>2, <1>3

LEMMA NamesKnown ==
  ASSUME NEW w, IsWorld(w), NEW n \in DOMAIN w.data \cup DOMAIN w.ns
  PROVE  n \in Names(w) /\ Len(n) \in Nat /\ IsSeq(n)
<1>1. n \in Seq(Range(n))
  BY DEF IsWorld
<1>2. Len(n) \in 0 .. Len(n) /\ SubSeq(n, 1, Len(n)) = n
  BY <1>1
<1>3. n \in {SubSeq(n, 1, k) : k \in 0 .. Len(n)}
  BY <1>2
<1>4. n \in Names(w)
  BY <1>3, Zenon DEF Names
<1> QED
  BY <1>1, <1>4 DEF IsSeq

LEMMA DeepestZone ==
  ASSUME NEW w, IsWorld(w), NEW S, S \subseteq DOMAIN w.ns, S # {}
  PROVE  Deepest(S) \in S /\ \A m \in S : Len(m) <= Len(Deepest(S))
<1>1. IsFiniteSet(S)
  BY FS_Subset DEF IsWorld
<1>2. \A n \in S : Len(n) \in Nat
  BY NamesKnown
<1>3. \E n \in S : \A m \in S : Len(m) <= Len(n)
  BY <1>1, <1>2, LongestExists
<1> QED
  BY <1>3, Zenon DEF Deepest

\* A reply is a refusal or comes from a zone that the server has.
Refers(w, a, q, p) ==
  \E z \in Served(w, a, q) : \E c \in Delegated(w, z) :
    IsPrefix(c, q) /\ p = Packet("REFERRAL", q, c, w.ns[c], w.glue[c])
Answers(w, a, q, p) ==
  \E z \in Served(w, a, q) :
    \/ /\ q \in DOMAIN w.data /\ w.data[q].type \in {"A", "CNAME"}
       /\ p = Packet(w.data[q].type, w.data[q].val, z, w.own[z], OwnAddresses(w, z))
    \/ /\ q \notin DOMAIN w.data /\ At(w, q).type \in {"NX", "NODATA"}
       /\ p = Packet(At(w, q).type, q, z, {}, <<>>)

LEMMA AtFacts ==
  ASSUME NEW w, NEW q
  PROVE  /\ q \in DOMAIN w.data => At(w, q) = w.data[q]
         /\ q \notin DOMAIN w.data => At(w, q).type \in {"NX", "NODATA"}
BY DEF At

LEMMA Replies ==
  ASSUME NEW w, IsWorld(w), NEW a, NEW q
  PROVE  \/ Reply(w, a, q) = Packet("REFUSED", q, Root, {}, <<>>)
         \/ Refers(w, a, q, Reply(w, a, q)) \/ Answers(w, a, q, Reply(w, a, q))
<1>1. CASE Served(w, a, q) = {}
  BY <1>1 DEF Reply
<1>2. CASE Served(w, a, q) # {}
  <2>1. PICK z : z = Deepest(Served(w, a, q))
    OBVIOUS
  <2>2. z \in Served(w, a, q)
    <3>1. Served(w, a, q) \subseteq DOMAIN w.ns
      BY DEF Served
    <3> QED
      BY <1>2, <2>1, <3>1, DeepestZone
  <2>3. PICK below : below = {c \in Delegated(w, z) : IsPrefix(c, q)}
    OBVIOUS
  <2>4. PICK p : p = Reply(w, a, q)
    OBVIOUS
  <2>5. CASE below # {}
    <3>1. PICK c : c = CHOOSE d \in below : TRUE
      OBVIOUS
    <3>2. c \in below
      BY <2>5, <3>1
    <3>3. p = Packet("REFERRAL", q, c, w.ns[c], w.glue[c])
      BY <1>2, <2>1, <2>3, <2>4, <2>5, <3>1, Zenon DEF Reply
    <3> QED
      BY <2>2, <2>3, <2>4, <3>2, <3>3, Zenon DEF Refers
  <2>6. CASE below = {} /\ At(w, q).type \in {"A", "CNAME"}
    <3>1. p = Packet(At(w, q).type, At(w, q).val, z, w.own[z], OwnAddresses(w, z))
      BY <1>2, <2>1, <2>3, <2>4, <2>6, Zenon DEF Reply
    <3>2. q \in DOMAIN w.data /\ At(w, q) = w.data[q]
      BY <2>6, AtFacts
    <3>3. w.data[q].type \in {"A", "CNAME"}
      BY <2>6, <3>2
    <3> QED
      BY <2>2, <2>4, <3>1, <3>2, <3>3, Zenon DEF Answers
  <2>7. CASE below = {} /\ At(w, q).type \notin {"A", "CNAME"}
    <3>1. p = Packet(At(w, q).type, q, z, {}, <<>>)
      BY <1>2, <2>1, <2>3, <2>4, <2>7, Zenon DEF Reply
    <3>2. q \notin DOMAIN w.data
      BY <2>7, AtFacts DEF IsWorld
    <3> QED
      BY <2>2, <2>4, <3>1, <3>2, AtFacts, Zenon DEF Answers
  <2> QED
    BY <2>5, <2>6, <2>7
<1> QED
  BY <1>1, <1>2

\* What an answer says is what there is, and the addresses it adds are glue or what there is.
LEMMA CleanReplies ==
  ASSUME NEW w, IsWorld(w), NEW a, NEW q, NEW auth, NEW p,
         p = Sanitized(Reply(w, a, q), auth, q)
  PROVE  /\ p.type \in {"REFUSED", "REFERRAL", "A", "CNAME", "NX", "NODATA"}
         /\ p.type \in {"A", "CNAME"} =>
              q \in DOMAIN w.data /\ w.data[q].type = p.type /\ w.data[q].val = p.val
         /\ p.type \in {"NX", "NODATA"} => q \notin DOMAIN w.data /\ At(w, q).type = p.type
         /\ p.ns # {} => p.owner \in DOMAIN w.ns /\ p.ns \subseteq w.ns[p.owner] \cup w.own[p.owner]
         /\ \A n \in DOMAIN p.extra :
              /\ n \in Names(w) /\ IsPrefix(auth, n)
              /\ \/ n \in DOMAIN w.data /\ w.data[n].type = "A" /\ p.extra[n] = w.data[n].val
                 \/ \E s \in Served(w, a, q) : \E c \in Delegated(w, s) :
                      n \in DOMAIN w.glue[c] /\ p.extra[n] = w.glue[c][n]
<1>1. PICK r : r = Reply(w, a, q)
  OBVIOUS
<1>2. PICK ns : ns = IF r.owner # Root /\ IsPrefix(auth, r.owner) THEN r.ns ELSE {}
  OBVIOUS
<1>3. PICK names : names = {n \in DOMAIN r.extra : IsPrefix(auth, n) /\ n \in ns \cup {q}}
  OBVIOUS
<1>4. PICK extra : extra = [n \in names |-> r.extra[n]]
  OBVIOUS
<1>5. p = [r EXCEPT !.ns = ns, !.extra = extra]
  BY <1>1, <1>2, <1>3, <1>4, Zenon DEF Sanitized
<1>6. DOMAIN r = {"type", "val", "owner", "ns", "extra"}
  BY <1>1, Replies DEF Refers, Answers, Packet
<1>7. /\ p.type = r.type /\ p.val = r.val /\ p.owner = r.owner /\ p.ns = ns /\ p.extra = extra
  BY <1>5, <1>6
<1>8. ns \subseteq r.ns
  BY <1>2
<1>9. \A n \in DOMAIN extra : n \in DOMAIN r.extra /\ IsPrefix(auth, n) /\ extra[n] = r.extra[n]
  BY <1>3, <1>4
<1>10. CASE r = Packet("REFUSED", q, Root, {}, <<>>)
  <2>1. r.type = "REFUSED" /\ r.ns = {} /\ DOMAIN r.extra = {}
    BY <1>10 DEF Packet
  <2> QED
    BY <1>7, <1>8, <1>9, <2>1
<1>11. CASE Refers(w, a, q, r)
  <2>1. PICK s \in Served(w, a, q) : \E c \in Delegated(w, s) :
          IsPrefix(c, q) /\ r = Packet("REFERRAL", q, c, w.ns[c], w.glue[c])
    BY <1>11, Zenon DEF Refers
  <2>2. PICK c \in Delegated(w, s) :
          IsPrefix(c, q) /\ r = Packet("REFERRAL", q, c, w.ns[c], w.glue[c])
    BY <2>1
  <2>3. r.type = "REFERRAL" /\ r.owner = c /\ r.ns = w.ns[c] /\ r.extra = w.glue[c]
    BY <2>2 DEF Packet
  <2>4. c \in DOMAIN w.ns
    BY DEF Delegated
  <2>5. p.ns \subseteq w.ns[p.owner] \cup w.own[p.owner] /\ p.owner \in DOMAIN w.ns
    BY <1>7, <1>8, <2>3, <2>4
  <2>6. ASSUME NEW n \in DOMAIN p.extra
        PROVE  n \in Names(w) /\ IsPrefix(auth, n) /\ n \in DOMAIN w.glue[c]
               /\ p.extra[n] = w.glue[c][n]
    <3>1. n \in DOMAIN w.glue[c] /\ IsPrefix(auth, n) /\ p.extra[n] = w.glue[c][n]
      BY <1>7, <1>9, <2>3
    <3>2. DOMAIN w.glue[c] \subseteq w.ns[c] \cap Names(w)
      BY <2>4, Zenon DEF IsWorld
    <3> QED
      BY <3>1, <3>2
  <2>7. p.type = "REFERRAL"
    BY <1>7, <2>3
  <2>8. p.type \in {"REFUSED", "REFERRAL", "A", "CNAME", "NX", "NODATA"}
        /\ p.type \notin {"A", "CNAME"} /\ p.type \notin {"NX", "NODATA"}
    BY <2>7
  <2> QED
    BY <2>5, <2>6, <2>8, Zenon
<1>12. CASE Answers(w, a, q, r)
  <2>1. PICK z \in Served(w, a, q) :
          \/ /\ q \in DOMAIN w.data /\ w.data[q].type \in {"A", "CNAME"}
             /\ r = Packet(w.data[q].type, w.data[q].val, z, w.own[z], OwnAddresses(w, z))
          \/ /\ q \notin DOMAIN w.data /\ At(w, q).type \in {"NX", "NODATA"}
             /\ r = Packet(At(w, q).type, q, z, {}, <<>>)
    BY <1>12, Zenon DEF Answers
  <2>2. CASE /\ q \in DOMAIN w.data /\ w.data[q].type \in {"A", "CNAME"}
             /\ r = Packet(w.data[q].type, w.data[q].val, z, w.own[z], OwnAddresses(w, z))
    <3>1. r.type = w.data[q].type /\ r.val = w.data[q].val /\ r.owner = z /\ r.ns = w.own[z]
          /\ r.extra = OwnAddresses(w, z)
      BY <2>2 DEF Packet
    <3>2. z \in DOMAIN w.ns
      BY DEF Served
    <3>3. p.ns \subseteq w.ns[p.owner] \cup w.own[p.owner] /\ p.owner \in DOMAIN w.ns
      BY <1>7, <1>8, <3>1, <3>2
    <3>4. ASSUME NEW n \in DOMAIN p.extra
          PROVE  n \in Names(w) /\ IsPrefix(auth, n) /\ n \in DOMAIN w.data
                 /\ w.data[n].type = "A" /\ p.extra[n] = w.data[n].val
      <4>1. n \in DOMAIN OwnAddresses(w, z) /\ IsPrefix(auth, n)
            /\ p.extra[n] = OwnAddresses(w, z)[n]
        BY <1>7, <1>9, <3>1
      <4>2. n \in DOMAIN w.data /\ w.data[n].type = "A" /\ OwnAddresses(w, z)[n] = w.data[n].val
        BY <4>1 DEF OwnAddresses
      <4>3. n \in Names(w)
        BY <4>2, NamesKnown
      <4> QED
        BY <4>1, <4>2, <4>3
    <3>5. p.type = w.data[q].type /\ p.val = w.data[q].val
      BY <1>7, <3>1
    <3>6. p.type \in {"REFUSED", "REFERRAL", "A", "CNAME", "NX", "NODATA"}
          /\ p.type \notin {"NX", "NODATA"}
      BY <2>2, <3>5
    <3> QED
      BY <2>2, <3>3, <3>4, <3>5, <3>6, Zenon
  <2>3. CASE /\ q \notin DOMAIN w.data /\ At(w, q).type \in {"NX", "NODATA"}
             /\ r = Packet(At(w, q).type, q, z, {}, <<>>)
    <3>1. r.type = At(w, q).type /\ r.ns = {} /\ DOMAIN r.extra = {}
      BY <2>3 DEF Packet
    <3>2. p.type = At(w, q).type /\ p.ns = {} /\ DOMAIN p.extra = {}
      BY <1>7, <1>8, <1>9, <3>1
    <3> QED
      BY <2>3, <3>2
  <2> QED
    BY <2>1, <2>2, <2>3
<1> QED
  BY <1>1, <1>10, <1>11, <1>12, Replies

-----------------------------------------------------------------------------
(* What the caches hold *)

LEMMA StoredEntries ==
  ASSUME NEW known, NEW key, NEW entry, NEW now, now = Stored(known, key, entry),
         NEW k \in DOMAIN now
  PROVE  \/ k \in DOMAIN known /\ now[k] = known[k]
         \/ k = key /\ now[k] = entry
BY DEF Stored, With

\* An entry is one of before, the answer, the servers of a zone, or an added address.
LEMMA LearnedEntries ==
  ASSUME NEW p, NEW f, NEW k \in DOMAIN Learned(p, f)
  PROVE  \/ k \in DOMAIN cache /\ Learned(p, f)[k] = cache[k]
         \/ /\ p.type \in {"A", "CNAME"} /\ k = <<f.q, p.type>>
            /\ Learned(p, f)[k] = [auth |-> TRUE, val |-> p.val]
         \/ /\ p.ns # {} /\ k = <<p.owner, "NS">>
            /\ \E auth : Learned(p, f)[k] = [auth |-> auth, val |-> p.ns]
         \/ \E n \in DOMAIN p.extra :
              k = <<n, "A">> /\ Learned(p, f)[k] = [auth |-> TRUE, val |-> p.extra[n]]
<1>1. PICK known : known = Learned(p, f)
  OBVIOUS
<1>2. PICK answered : answered = IF p.type \in {"A", "CNAME"}
                  THEN Stored(cache, <<f.q, p.type>>, [auth |-> TRUE, val |-> p.val]) ELSE cache
  OBVIOUS
<1>3. PICK auth : auth = (p.type # "REFERRAL" /\ ~(p.type = "CNAME"))
  OBVIOUS
<1>4. PICK served : served = IF p.ns # {} /\ ~(p.type = "CNAME" /\ p.owner = f.auth)
                THEN Stored(answered, <<p.owner, "NS">>, [auth |-> auth, val |-> p.ns])
                ELSE answered
  OBVIOUS
<1>5. PICK glue : glue = {<<n, "A">> : n \in DOMAIN p.extra}
  OBVIOUS
<1>6. known = [i \in DOMAIN served \cup glue |->
                 IF i \in glue THEN [auth |-> TRUE, val |-> p.extra[i[1]]] ELSE served[i]]
  BY <1>1, <1>2, <1>3, <1>4, <1>5, Zenon DEF Learned
<1>7. k \in DOMAIN known
  BY <1>1
<1>8. CASE k \in glue
  <2>1. PICK n \in DOMAIN p.extra : k = <<n, "A">>
    BY <1>5, <1>8
  <2>2. k[1] = n
    BY <2>1
  <2>3. known[k] = [auth |-> TRUE, val |-> p.extra[n]]
    BY <1>6, <1>7, <1>8, <2>2
  <2> QED
    BY <1>1, <2>1, <2>3, Zenon
<1>9. CASE k \notin glue
  <2>1. k \in DOMAIN served /\ known[k] = served[k]
    BY <1>6, <1>7, <1>9
  <2>2. \/ k \in DOMAIN answered /\ served[k] = answered[k]
        \/ p.ns # {} /\ k = <<p.owner, "NS">> /\ served[k] = [auth |-> auth, val |-> p.ns]
    <3>1. CASE p.ns # {} /\ ~(p.type = "CNAME" /\ p.owner = f.auth)
      <4>1. served = Stored(answered, <<p.owner, "NS">>, [auth |-> auth, val |-> p.ns])
        BY <1>4, <3>1
      <4> QED
        BY <2>1, <3>1, <4>1, StoredEntries
    <3>2. CASE ~(p.ns # {} /\ ~(p.type = "CNAME" /\ p.owner = f.auth))
      BY <1>4, <2>1, <3>2, Zenon
    <3> QED
      BY <3>1, <3>2
  <2>3. ASSUME k \in DOMAIN answered
        PROVE  \/ k \in DOMAIN cache /\ answered[k] = cache[k]
               \/ /\ p.type \in {"A", "CNAME"} /\ k = <<f.q, p.type>>
                  /\ answered[k] = [auth |-> TRUE, val |-> p.val]
    <3>1. CASE p.type \in {"A", "CNAME"}
      <4>1. answered = Stored(cache, <<f.q, p.type>>, [auth |-> TRUE, val |-> p.val])
        BY <1>2, <3>1
      <4> QED
        BY <2>3, <3>1, <4>1, StoredEntries
    <3>2. CASE p.type \notin {"A", "CNAME"}
      BY <1>2, <2>3, <3>2, Zenon
    <3> QED
      BY <3>1, <3>2
  <2> QED
    BY <1>1, <2>1, <2>2, <2>3, Zenon
<1> QED
  BY <1>8, <1>9

CachesTyped ==
  /\ \A k \in DOMAIN cache : k[1] \in Names(world) /\ k[2] \in {"A", "CNAME", "NS"}
  /\ \A n \in DOMAIN neg : neg[n] \in {"NX", "NODATA"}

LEMMA LearnedTyped ==
  ASSUME CachesTyped, world \in Worlds, NEW f, f.at = "answer", Heard(world, f)
  PROVE  \A k \in DOMAIN Learned(f.packet, f) : k[1] \in Names(world) /\ k[2] \in {"A", "CNAME", "NS"}
<1>1. PICK p : p = f.packet
  OBVIOUS
<1>2. IsWorld(world)
  BY ResolutionAssumption
<1>3. PICK a : p = Sanitized(Reply(world, a, f.q), f.auth, f.q)
  BY <1>1, Zenon DEF Heard
<1>4. /\ p.type \in {"A", "CNAME"} => f.q \in DOMAIN world.data
      /\ p.ns # {} => p.owner \in DOMAIN world.ns
      /\ \A n \in DOMAIN p.extra : n \in Names(world)
  BY <1>2, <1>3, CleanReplies, Zenon
<1>5. ASSUME NEW k \in DOMAIN Learned(p, f)
      PROVE  k[1] \in Names(world) /\ k[2] \in {"A", "CNAME", "NS"}
  <2>1. \/ k \in DOMAIN cache
        \/ p.type \in {"A", "CNAME"} /\ k = <<f.q, p.type>>
        \/ p.ns # {} /\ k = <<p.owner, "NS">>
        \/ \E n \in DOMAIN p.extra : k = <<n, "A">>
    BY LearnedEntries
  <2>2. CASE k \in DOMAIN cache
    BY <2>2 DEF CachesTyped
  <2>3. CASE p.type \in {"A", "CNAME"} /\ k = <<f.q, p.type>>
    BY <1>2, <1>4, <2>3, NamesKnown
  <2>4. CASE p.ns # {} /\ k = <<p.owner, "NS">>
    BY <1>2, <1>4, <2>4, NamesKnown
  <2>5. CASE \E n \in DOMAIN p.extra : k = <<n, "A">>
    BY <1>4, <2>5
  <2> QED
    BY <2>1, <2>2, <2>3, <2>4, <2>5
<1> QED
  BY <1>1, <1>5

LEMMA WipedTyped ==
  ASSUME CachesTyped, NEW zones, Wipe(zones), UNCHANGED <<world, neg>>
  PROVE  CachesTyped'
BY DEF CachesTyped, Wipe, Without, Restrict

LEMMA CachesSame ==
  ASSUME CachesTyped, UNCHANGED <<world, caches>>
  PROVE  CachesTyped'
BY DEF CachesTyped, caches

LEMMA GotTyped ==
  ASSUME CachesTyped, world \in Worlds, Workmanlike, NEW w \in Workers, UNCHANGED <<world, neg>>,
         Runs(w, "noQM", "answer"), cache' = Learned(Top(w).packet, Top(w))
  PROVE  CachesTyped'
<1>1. stack[w] # <<>> /\ Top(w).at = "answer"
  BY DEF Runs
<1>2. Heard(world, Top(w))
  <2>1. Top(w).at \notin Calls
    BY <1>1 DEF Calls
  <2> QED
    BY <1>1, <2>1, AtTop, Zenon
<1>3. \A k \in DOMAIN cache' : k[1] \in Names(world) /\ k[2] \in {"A", "CNAME", "NS"}
  BY <1>1, <1>2, LearnedTyped, Zenon
<1> QED
  BY <1>3 DEF CachesTyped

-----------------------------------------------------------------------------
(* All that a worker does *)

\* Its frames but for the servers and addresses it may take, one action after the other.
LEMMA WorkSteps ==
  ASSUME Workmanlike, NEW w \in Workers, Work(w)
  PROVE  Stepped(w) /\ UNCHANGED world
<1>1. \/ NoMinimization(w) \/ Step0(w) \/ Peeked(w) \/ Step1(w) \/ Step34(w) \/ ChildAsked(w)
      \/ RefuseDepth(w) \/ CachedAlias(w) \/ AliasFollowed(w) \/ CacheHit(w) \/ NotCached(w)
      \/ GoOut(w) \/ NowhereToGo(w) \/ NoMoreServers(w) \/ ServerResolved(w)
      \/ (\E ns : TryServer(w, ns)) \/ (\E addr : AskServer(w, addr))
      \/ Refused(w) \/ GotAddress(w) \/ GotAlias(w) \/ TargetResolved(w) \/ GotDenial(w)
      \/ GotReferral(w)
  BY Zenon DEF Work
<1>2. CASE NoMinimization(w)
  BY <1>2, NoMinimizationSteps DEF NoMinimization
<1>3. CASE Step0(w)
  BY <1>3, Step0Steps DEF Step0
<1>4. CASE Peeked(w)
  BY <1>4, PeekedSteps DEF Peeked
<1>5. CASE Step1(w)
  BY <1>5, Step1Steps DEF Step1
<1>6. CASE Step34(w)
  BY <1>6, Step34Steps DEF Step34
<1>7. CASE ChildAsked(w)
  BY <1>7, ChildAskedSteps DEF ChildAsked
<1>8. CASE RefuseDepth(w) \/ CacheHit(w) \/ NotCached(w)
  BY <1>8, CacheStepsAlone DEF RefuseDepth, CacheHit, NotCached
<1>9. CASE CachedAlias(w)
  BY <1>9, CachedAliasSteps DEF CachedAlias
<1>10. CASE AliasFollowed(w) \/ TargetResolved(w)
  BY <1>10, TargetSteps DEF AliasFollowed, TargetResolved
<1>11. CASE GoOut(w) \/ NowhereToGo(w)
  BY <1>11, GoOutSteps DEF GoOut, NowhereToGo
<1>12. CASE NoMoreServers(w)
  BY <1>12, NoMoreServersSteps DEF NoMoreServers
<1>13. CASE ServerResolved(w)
  BY <1>13, ServerResolvedSteps DEF ServerResolved
<1>14. CASE \E ns : TryServer(w, ns)
  BY <1>14, TryServerSteps DEF TryServer
<1>15. CASE \E addr : AskServer(w, addr)
  BY <1>15, AskServerSteps DEF AskServer
<1>16. CASE Refused(w) \/ GotAddress(w) \/ GotDenial(w)
  BY <1>16, GotSteps DEF Refused, GotAddress, GotDenial
<1>17. CASE GotAlias(w)
  BY <1>17, GotAliasSteps DEF GotAlias
<1>18. CASE GotReferral(w)
  BY <1>18, GotReferralSteps DEF GotReferral
<1> QED
  BY <1>1, <1>2, <1>3, <1>4, <1>5, <1>6, <1>7, <1>8, <1>9, <1>10, <1>11, <1>12, <1>13,
     <1>14, <1>15, <1>16, <1>17, <1>18

\* What it changes in the caches.
LEMMA WorkCaches ==
  ASSUME NEW w, Work(w)
  PROVE  /\ UNCHANGED <<world, counters>>
         /\ \/ UNCHANGED caches
            \/ UNCHANGED neg /\ \E zones : Wipe(zones)
            \/ /\ UNCHANGED neg /\ Got(w, {"A", "CNAME", "REFERRAL"})
               /\ cache' = Learned(Top(w).packet, Top(w))
            \/ /\ UNCHANGED cache /\ Got(w, {"NX", "NODATA"})
               /\ \/ UNCHANGED neg
                  \/ neg' = With(neg, Top(w).q, Top(w).packet.type)
<1>1. \/ NoMinimization(w) \/ Step0(w) \/ Peeked(w) \/ Step1(w) \/ Step34(w) \/ ChildAsked(w)
      \/ RefuseDepth(w) \/ CachedAlias(w) \/ AliasFollowed(w) \/ CacheHit(w) \/ NotCached(w)
      \/ GoOut(w) \/ NowhereToGo(w) \/ NoMoreServers(w) \/ ServerResolved(w)
      \/ (\E ns : TryServer(w, ns)) \/ (\E addr : AskServer(w, addr))
      \/ Refused(w) \/ GotAddress(w) \/ GotAlias(w) \/ TargetResolved(w) \/ GotDenial(w)
      \/ GotReferral(w)
  BY Zenon DEF Work
<1>2. CASE \/ NoMinimization(w) \/ Step0(w) \/ Peeked(w) \/ Step34(w) \/ ChildAsked(w)
           \/ RefuseDepth(w) \/ CachedAlias(w) \/ AliasFollowed(w) \/ CacheHit(w) \/ NotCached(w)
           \/ NoMoreServers(w) \/ ServerResolved(w)
           \/ (\E ns : TryServer(w, ns)) \/ (\E addr : AskServer(w, addr))
           \/ Refused(w) \/ TargetResolved(w)
  <2>1. UNCHANGED <<world, caches, counters>>
    BY <1>2 DEF NoMinimization, Step0, Peeked, Step34, ChildAsked, RefuseDepth, CachedAlias,
                AliasFollowed, CacheHit, NotCached, NoMoreServers, ServerResolved, TryServer,
                AskServer, Refused, TargetResolved
  <2> QED
    BY <2>1
<1>3. CASE Step1(w)
  BY <1>3, Zenon DEF Step1, counters
<1>4. CASE GoOut(w)
  BY <1>4, Zenon DEF GoOut, counters
<1>5. CASE NowhereToGo(w)
  BY <1>5, Zenon DEF NowhereToGo, counters
<1>6. CASE GotAddress(w)
  BY <1>6 DEF GotAddress, Got
<1>7. CASE GotAlias(w)
  BY <1>7 DEF GotAlias, Got
<1>8. CASE GotReferral(w)
  BY <1>8 DEF GotReferral, Got
<1>9. CASE GotDenial(w)
  <2>1. /\ UNCHANGED <<world, cache, counters>> /\ Got(w, {"NX", "NODATA"})
        /\ UNCHANGED neg \/ neg' = With(neg, Top(w).q, Top(w).packet.type)
    BY <1>9 DEF GotDenial
  <2> QED
    BY <2>1
<1> QED
  BY <1>1, <1>2, <1>3, <1>4, <1>5, <1>6, <1>7, <1>8, <1>9

LEMMA WorkTyped ==
  ASSUME CachesTyped, world \in Worlds, Workmanlike, NEW w \in Workers, Work(w)
  PROVE  CachesTyped'
<1>1. /\ UNCHANGED world
      /\ \/ UNCHANGED caches
         \/ UNCHANGED neg /\ \E zones : Wipe(zones)
         \/ /\ UNCHANGED neg /\ Got(w, {"A", "CNAME", "REFERRAL"})
            /\ cache' = Learned(Top(w).packet, Top(w))
         \/ /\ UNCHANGED cache /\ Got(w, {"NX", "NODATA"})
            /\ \/ UNCHANGED neg
               \/ neg' = With(neg, Top(w).q, Top(w).packet.type)
  BY WorkCaches, Zenon
<1>2. CASE UNCHANGED caches
  BY <1>1, <1>2, CachesSame
<1>3. CASE UNCHANGED neg /\ \E zones : Wipe(zones)
  BY <1>1, <1>3, WipedTyped
<1>4. CASE UNCHANGED neg /\ Got(w, {"A", "CNAME", "REFERRAL"})
           /\ cache' = Learned(Top(w).packet, Top(w))
  BY <1>1, <1>4, GotTyped DEF Got
<1>5. CASE /\ UNCHANGED cache /\ Got(w, {"NX", "NODATA"})
           /\ \/ UNCHANGED neg
              \/ neg' = With(neg, Top(w).q, Top(w).packet.type)
  <2>1. Top(w).packet.type \in {"NX", "NODATA"}
    BY <1>5 DEF Got
  <2>2. \A n \in DOMAIN neg' : neg'[n] \in {"NX", "NODATA"}
    BY <1>5, <2>1 DEF CachesTyped, With
  <2> QED
    BY <1>1, <1>5, <2>2 DEF CachesTyped
<1> QED
  BY <1>1, <1>2, <1>3, <1>4, <1>5

\* The flags are those of the calls that a worker is in.
LEMMA Greatest ==
  ASSUME NEW n \in Nat, NEW T, T \subseteq 1 .. n, T # {}
  PROVE  \E i \in T : \A j \in T : j <= i
<1> DEFINE rest == {n - i : i \in T}
<1>1. PICK k \in rest : \A m \in rest : k <= m
  <2>1. rest \subseteq Nat /\ rest # {}
    OBVIOUS
  <2> HIDE DEF rest
  <2> QED
    BY <2>1, LeastNumber
<1>2. PICK i \in T : k = n - i
  BY <1>1
<1>3. \A j \in T : n - i <= n - j
  BY <1>1, <1>2
<1>4. \A j \in T : j <= i
  BY <1>3
<1> QED
  BY <1>4

LEMMA Scoped ==
  ASSUME NEW w \in Workers, Fine(w)
  PROVE  FlagsScoped(w)
<1>1. PICK s, m : s = stack[w] /\ m = me[w]
  OBVIOUS
<1>2. CASE s = <<>>
  BY <1>1, <1>2 DEF FlagsScoped
<1>3. CASE s # <<>>
  <2>1. Stacked(world, s, m)
    BY <1>1, Zenon DEF Fine
  <2>2. IsSeq(s)
    BY <2>1 DEF Stacked
  <2>3. PICK n \in Nat : n = Len(s) /\ n > 0 /\ DOMAIN s = 1 .. n
    BY <1>3, <2>2, Lengths
  <2>4. \/ s[n].at \in Calls /\ FlagsBack(s, n, m)
        \/ s[n].at \notin Calls /\ FlagsAt(s, n, m)
    BY <1>3, <2>1, <2>3, Zenon DEF Stacked
  <2>5. /\ m.requireAuth = Trusting(s, n + 1) /\ m.follow = Following(s, n + 1)
        /\ s[n].at \notin Looks => m.cacheOnly = Looking(s, n)
    <3>1. CASE s[n].at \in Calls
      BY <2>4, <3>1, Zenon DEF FlagsBack
    <3>2. CASE s[n].at \notin Calls
      <4>1. PICK P \in BOOLEAN, Q \in BOOLEAN : P = Trusting(s, n) /\ Q = Following(s, n)
        BY Booleans, Zenon
      <4>2. /\ Trusting(s, n + 1) = (P /\ s[n].at # "serverResolved")
            /\ Following(s, n + 1) = (Q /\ s[n].at \notin {"serverResolved", "childAsked"})
        <5>1. n \in Nat \ {0}
          BY <2>3
        <5> QED
          BY <4>1, <5>1, Above, Zenon
      <4>3. s[n].at # "serverResolved" /\ s[n].at \notin {"serverResolved", "childAsked"}
        BY <3>2 DEF Calls
      <4>4. Trusting(s, n + 1) = P /\ Following(s, n + 1) = Q
        BY <4>2, <4>3
      <4> QED
        BY <2>4, <3>2, <4>1, <4>4, Zenon DEF FlagsAt
    <3> QED
      BY <3>1, <3>2
  <2>6. m.requireAuth <=> Within(w, {"serverResolved"}) = {}
    <3>1. Trusting(s, n + 1) <=> \A j \in 1 .. n : s[j].at # "serverResolved"
      <4>1. (n + 1) - 1 = n
        OBVIOUS
      <4> QED
        BY <4>1, Zenon DEF Trusting
    <3>2. Within(w, {"serverResolved"}) = {} <=> \A j \in 1 .. n : s[j].at # "serverResolved"
      BY <1>1, <2>3 DEF Within
    <3> QED
      BY <2>5, <3>1, <3>2, Zenon
  <2>7. m.follow <=> Within(w, {"serverResolved", "childAsked"}) = {}
    <3>1. Following(s, n + 1) <=> \A j \in 1 .. n : s[j].at \notin {"serverResolved", "childAsked"}
      <4>1. (n + 1) - 1 = n
        OBVIOUS
      <4> QED
        BY <4>1, Zenon DEF Following
    <3>2. Within(w, {"serverResolved", "childAsked"}) = {}
            <=> \A j \in 1 .. n : s[j].at \notin {"serverResolved", "childAsked"}
      BY <1>1, <2>3 DEF Within
    <3> QED
      BY <2>5, <3>1, <3>2, Zenon
  <2>8. PICK looks : looks = Within(w, {"peeked", "serverResolved"})
    OBVIOUS
  <2>9. looks = {i \in 1 .. n : s[i].at \in Looks}
    BY <1>1, <2>3, <2>8 DEF Within, Looks
  <2>10. PICK inner : inner = IF looks = {} THEN 0 ELSE CHOOSE i \in looks : \A j \in looks : j <= i
    OBVIOUS
  <2>11. looks # {} => inner \in looks /\ \A j \in looks : j <= inner
    <3>1. ASSUME looks # {}
          PROVE  \E i \in looks : \A j \in looks : j <= i
      <4>1. looks \subseteq 1 .. n
        BY <2>9
      <4> QED
        BY <3>1, <4>1, Greatest
    <3> QED
      BY <2>10, <3>1, Zenon
  <2>12. ASSUME inner = 0
         PROVE  ~m.cacheOnly
    <3>1. looks = {}
      BY <2>9, <2>11, <2>12
    <3>2. \A j \in 1 .. n : s[j].at \notin Looks
      BY <2>9, <3>1
    <3>3. n \in 1 .. n /\ \A j \in 1 .. n - 1 : j \in 1 .. n
      BY <2>3
    <3>4. ~Looking(s, n) /\ s[n].at \notin Looks
      BY <3>2, <3>3, Zenon DEF Looking
    <3> QED
      BY <2>5, <3>4, Zenon
  <2>13. ASSUME inner \in 1 .. n - 1
         PROVE  m.cacheOnly <=> s[inner].at = "peeked" \/ s[inner + 1].q = s[inner].q
    <3>1. looks # {} /\ inner \in looks /\ \A j \in looks : j <= inner
      <4>1. inner # 0
        BY <2>13
      <4> QED
        BY <2>10, <2>11, <4>1
    <3>2. s[inner].at \in Looks /\ \A k \in inner + 1 .. n : s[k].at \notin Looks
      BY <2>9, <2>13, <3>1
    <3>3. n \in inner + 1 .. n /\ \A k \in inner + 1 .. n - 1 : k \in inner + 1 .. n
      BY <2>13
    <3>4. ASSUME NEW j \in 1 .. n - 1, s[j].at \in Looks,
                 \A k \in j + 1 .. n - 1 : s[k].at \notin Looks
          PROVE  j = inner
      <4>1. ~(inner \in j + 1 .. n - 1)
        BY <3>2, <3>4
      <4>2. ~(j \in inner + 1 .. n)
        BY <3>2, <3>4
      <4> QED
        BY <2>13, <4>1, <4>2
    <3>5. Looking(s, n) <=> s[inner].at = "peeked" \/ s[inner + 1].q = s[inner].q
      BY <2>13, <3>2, <3>3, <3>4, Zenon DEF Looking
    <3>6. m.cacheOnly = Looking(s, n)
      BY <2>5, <3>2, <3>3, Zenon
    <3> QED
      BY <3>5, <3>6, Zenon
  <2>14. inner \in 1 .. Len(stack[w]) - 1 => inner \in 1 .. n - 1
    BY <1>1, <2>3
  <2> QED
    BY <1>1, <2>6, <2>7, <2>8, <2>10, <2>12, <2>13, <2>14, ZenonT(60) DEF FlagsScoped
<1> QED
  BY <1>2, <1>3

-----------------------------------------------------------------------------
(* Types *)

Typed ==
  /\ world \in Worlds /\ Workmanlike /\ CachesTyped
  /\ asks \in Nat /\ faults \in Nat /\ asks <= world.asks /\ faults <= world.faults

LEMMA TypedInit == Init => Typed
<1> SUFFICES ASSUME Init PROVE Typed
  OBVIOUS
<1>1. world \in Worlds /\ IsWorld(world)
  BY ResolutionAssumption DEF Init
<1>2. /\ stack = [w \in Workers |-> <<>>] /\ me = [w \in Workers |-> NoOne]
      /\ running = None
  BY DEF Init
<1>3. Limited(NoOne)
  BY ResolutionAssumption DEF Limited, IsObject, NoOne, SyncRes
<1>4. Stacked(world, <<>>, NoOne)
  <2>1. \A i \in 1 .. 0 : FALSE
    OBVIOUS
  <2>2. \A i \in 1 .. 0 - 1 : FALSE
    OBVIOUS
  <2>3. 0 <= MaxStack
    BY ResolutionAssumption
  <2>4. PICK s : s = <<>> /\ IsSeq(s) /\ Len(s) = 0
    BY Empty
  <2>5. Stacked(world, s, NoOne)
    BY <2>1, <2>2, <2>3, <2>4, Zenon DEF Stacked
  <2> QED
    BY <2>4, <2>5, Zenon
<1>5. ASSUME NEW w \in Workers
      PROVE  Fine(w)
  <2>1. stack[w] = <<>> /\ me[w] = NoOne /\ running # w
    BY <1>2, ResolutionAssumption
  <2> QED
    BY <1>3, <1>4, <2>1, Zenon DEF Fine
<1>6. Workmanlike
  BY <1>2, <1>5 DEF Workmanlike
<1>7. CachesTyped
  <2>1. neg = <<>> /\ DOMAIN cache = {<<Root, "NS">>} \cup {<<n, "A">> : n \in world.ns[Root]}
    BY DEF Init
  <2>2. Root \in Names(world)
    <3>1. Root \in DOMAIN world.data \cup DOMAIN world.ns
      BY <1>1 DEF IsWorld
    <3> QED
      BY <1>1, <3>1, NamesKnown
  <2>3. world.ns[Root] \subseteq Names(world)
    BY <1>1 DEF IsWorld
  <2> QED
    BY <2>1, <2>2, <2>3 DEF CachesTyped
<1>8. asks = 0 /\ faults = 0 /\ world.asks \in Nat /\ world.faults \in Nat
  BY <1>1 DEF Init, IsWorld
<1> QED
  BY <1>1, <1>6, <1>7, <1>8 DEF Typed

LEMMA TypedNext == Typed /\ [Next]_vars => Typed'
<1> SUFFICES ASSUME Typed, [Next]_vars PROVE Typed'
  OBVIOUS
<1>1. world \in Worlds /\ Workmanlike /\ CachesTyped
  BY DEF Typed
<1>2. ASSUME NEW w \in Workers, Work(w)
      PROVE  Typed'
  <2>1. Workmanlike' /\ UNCHANGED world
    BY <1>1, <1>2, WorkSteps, Steps
  <2>2. CachesTyped'
    BY <1>1, <1>2, WorkTyped
  <2>3. UNCHANGED <<asks, faults>>
    BY <1>2, WorkCaches DEF counters
  <2> QED
    BY <2>1, <2>2, <2>3 DEF Typed
<1>3. ASSUME NEW w \in Workers, Receive(w)
      PROVE  Typed'
  <2>1. UNCHANGED <<world, caches, counters>>
    BY <1>3 DEF Receive
  <2>2. Workmanlike'
    BY <1>1, <1>3, <2>1, ReceiveSteps, Steps
  <2> QED
    BY <1>1, <2>1, <2>2, CachesSame DEF Typed, counters
<1>4. ASSUME NEW w \in Workers, Lose(w)
      PROVE  Typed'
  <2>1. UNCHANGED <<world, caches>>
    BY <1>4 DEF Lose
  <2>2. Workmanlike'
    BY <1>1, <1>4, <2>1, LoseSteps, Steps
  <2>3. asks' = asks /\ faults' = faults + 1 /\ faults < world.faults /\ world.faults \in Nat
    BY <1>1, <1>4, ResolutionAssumption DEF Lose, IsWorld
  <2> QED
    BY <1>1, <2>1, <2>2, <2>3, CachesSame DEF Typed
<1>5. ASSUME NEW w \in Workers, NEW q, Ask(w, q)
      PROVE  Typed'
  <2>1. UNCHANGED <<world, caches>>
    BY <1>5 DEF Ask
  <2>2. Workmanlike'
    BY <1>1, <1>5, <2>1, AskSteps, Steps
  <2>3. faults' = faults /\ asks' = asks + 1 /\ asks < world.asks /\ world.asks \in Nat
    BY <1>1, <1>5, ResolutionAssumption DEF Ask, IsWorld
  <2> QED
    BY <1>1, <2>1, <2>2, <2>3, CachesSame DEF Typed
<1>6. ASSUME NEW k, ExpireRecord(k) \/ ExpireDenial(k)
      PROVE  Typed'
  <2>1. Workmanlike'
    BY <1>1, <1>6, Unchanged DEF ExpireRecord, ExpireDenial
  <2>2. CachesTyped' /\ UNCHANGED <<world, asks>>
    BY <1>1, <1>6 DEF ExpireRecord, ExpireDenial, CachesTyped, Without, Restrict
  <2>3. faults' = faults + 1 /\ faults < world.faults /\ world.faults \in Nat
    BY <1>1, <1>6, ResolutionAssumption DEF ExpireRecord, ExpireDenial, IsWorld
  <2> QED
    BY <1>1, <2>1, <2>2, <2>3 DEF Typed
<1>7. CASE UNCHANGED vars
  <2>1. UNCHANGED <<world, caches, stack, me, running, asks, faults>>
    BY <1>7 DEF vars, caches
  <2> QED
    BY <1>1, <2>1, CachesSame, Unchanged DEF Typed
<1> QED
  BY <1>2, <1>3, <1>4, <1>5, <1>6, <1>7 DEF Next

LEMMA TypedIsTypeOK == Typed => TypeOK
<1> SUFFICES ASSUME Typed PROVE TypeOK
  OBVIOUS
<1>1. ASSUME NEW w \in Workers
      PROVE  /\ Len(stack[w]) <= MaxStack /\ me[w].sent <= MaxQueries
             /\ FlagsScoped(w)
             /\ running = w => stack[w] # <<>>
  <2>1. Fine(w)
    BY DEF Typed, Workmanlike
  <2> QED
    BY <2>1, Scoped, Zenon DEF Fine, Stacked, Limited
<1> QED
  BY <1>1 DEF Typed, Workmanlike, CachesTyped, TypeOK

\* Theorem 1.  Always the variables hold what they should, and the flags of a SyncRes are
\* those of the calls it is in: it looks into the caches only while it peeks (or asks a
\* server of itself), takes what is said without authority only for addresses of servers,
\* and does not follow aliases there and on the way to a name.  TypeOK alone is not
\* inductive: that flags are right again after a call returns follows from what the frames
\* have put aside, which is in Stacked.
THEOREM TypeCorrect == Spec => []TypeOK
<1>1. Spec => []Typed
  <2>1. Typed /\ [Next]_vars => Typed'
    BY TypedNext
  <2> QED
    BY TypedInit, <2>1, PTL DEF Spec
<1> QED
  BY <1>1, TypedIsTypeOK, PTL

-----------------------------------------------------------------------------
(* Chains of aliases *)

\* Records of aliases, each of the name the one before leads to, the last leads to q.
NextName(r, i, q) == IF i = Len(r) THEN q ELSE r[i + 1].name
Alias(u, n) == n \in DOMAIN u.data /\ u.data[n].type = "CNAME"
Path(u, r, q) ==
  /\ IsSeq(r)
  /\ \A i \in 1 .. Len(r) :
       /\ Alias(u, r[i].name) /\ r[i] = Record(r[i].name, u.data[r[i].name])
       /\ u.data[r[i].name].val = NextName(r, i, q)

Origin(r, q) == IF r = <<>> THEN q ELSE r[1].name

\* What a client has to be told about a name: the aliases that lead from it to one that is
\* none, with its address, or that it has none.
Whole(u, n, rcode, ret) ==
  \E p, q :
    /\ Path(u, p, q) /\ Origin(p, q) = n
    /\ \/ /\ q \in DOMAIN u.data /\ u.data[q].type = "A"
          /\ rcode = "NoError" /\ ret = Append(p, Record(q, u.data[q]))
       \/ /\ q \notin DOMAIN u.data /\ ret = p
          /\ rcode = IF At(u, q).type = "NX" THEN "NXDomain" ELSE "NoError"

LEMMA NoPath ==
  ASSUME NEW u, NEW q
  PROVE  Path(u, <<>>, q) /\ Origin(<<>>, q) = q
<1>1. \A i \in 1 .. 0 : FALSE
  OBVIOUS
<1>2. PICK s : s = <<>> /\ IsSeq(s) /\ Len(s) = 0
  BY Empty
<1>3. Path(u, s, q)
  BY <1>1, <1>2, Zenon DEF Path
<1>4. Origin(<<>>, q) = q
  BY DEF Origin
<1> QED
  BY <1>2, <1>3, <1>4

LEMMA PathOn ==
  ASSUME NEW u, NEW r, NEW q, Path(u, r, q), Alias(u, q), NEW x, x = Record(q, u.data[q])
  PROVE  /\ Path(u, Append(r, x), u.data[q].val)
         /\ Origin(Append(r, x), u.data[q].val) = Origin(r, q)
<1>1. IsSeq(r)
  BY DEF Path
<1>2. PICK n \in Nat : n = Len(r)
  BY <1>1, Lengths
<1>3. PICK t : t = Append(r, x)
  OBVIOUS
<1>4. IsSeq(t) /\ Len(t) = n + 1 /\ (\A i \in 1 .. n : t[i] = r[i]) /\ t[n + 1] = x
  BY <1>1, <1>2, <1>3, Appended
<1>5. x.name = q
  BY DEF Record
<1>6. ASSUME NEW i \in 1 .. n + 1
      PROVE  /\ Alias(u, t[i].name) /\ t[i] = Record(t[i].name, u.data[t[i].name])
             /\ u.data[t[i].name].val = NextName(t, i, u.data[q].val)
  <2>1. CASE i = n + 1
    <3>1. t[i] = x /\ i = Len(t)
      BY <1>4, <2>1
    <3>2. NextName(t, i, u.data[q].val) = u.data[q].val
      BY <3>1, Zenon DEF NextName
    <3> QED
      BY <1>5, <3>1, <3>2
  <2>2. CASE i \in 1 .. n
    <3>1. t[i] = r[i]
      BY <1>4, <2>2
    <3>2. NextName(t, i, u.data[q].val) = NextName(r, i, q)
      <4>1. i # Len(t)
        BY <1>4, <2>2
      <4>2. CASE i = n
        BY <1>2, <1>4, <1>5, <4>1, <4>2 DEF NextName
      <4>3. CASE i # n
        <5>1. i + 1 \in 1 .. n
          BY <2>2, <4>3
        <5> QED
          BY <1>2, <1>4, <4>1, <4>3, <5>1 DEF NextName
      <4> QED
        BY <4>2, <4>3
    <3>3. /\ Alias(u, r[i].name) /\ r[i] = Record(r[i].name, u.data[r[i].name])
          /\ u.data[r[i].name].val = NextName(r, i, q)
      BY <1>2, <2>2, Zenon DEF Path
    <3> QED
      BY <3>1, <3>2, <3>3, Zenon
  <2> QED
    BY <2>1, <2>2
<1>7. Path(u, t, u.data[q].val)
  BY <1>4, <1>6, Zenon DEF Path
<1>8. Origin(t, u.data[q].val) = Origin(r, q)
  <2>1. t # <<>>
    <3>1. Len(t) # 0
      BY <1>4
    <3> QED
      BY <1>4, <3>1, Lengths
  <2>2. CASE r = <<>>
    <3>1. n = 0
      BY <1>1, <1>2, <2>2, Lengths
    <3> QED
      BY <1>4, <1>5, <2>1, <2>2, <3>1 DEF Origin
  <2>3. CASE r # <<>>
    <3>1. 1 \in 1 .. n
      BY <1>1, <1>2, <2>3, Lengths
    <3> QED
      BY <1>4, <2>1, <2>3, <3>1 DEF Origin
  <2> QED
    BY <2>2, <2>3
<1> QED
  BY <1>3, <1>7, <1>8

LEMMA WholeAnswer ==
  ASSUME NEW u, NEW r, NEW q, Path(u, r, q), q \in DOMAIN u.data, u.data[q].type = "A",
         NEW x, x = Record(q, u.data[q])
  PROVE  Whole(u, Origin(r, q), "NoError", Append(r, x))
BY Zenon DEF Whole

LEMMA WholeDenial ==
  ASSUME NEW u, NEW r, NEW q, Path(u, r, q), q \notin DOMAIN u.data,
         NEW rcode, rcode = IF At(u, q).type = "NX" THEN "NXDomain" ELSE "NoError"
  PROVE  Whole(u, Origin(r, q), rcode, r)
BY Zenon DEF Whole

\* A chain that leads to a name and what there is to be told of that name.
LEMMA PathsJoin ==
  ASSUME NEW u, NEW r, NEW n, Path(u, r, n), NEW p, NEW q, Path(u, p, q), Origin(p, q) = n
  PROVE  Path(u, r \o p, q) /\ Origin(r \o p, q) = Origin(r, n)
<1>1. IsSeq(r) /\ IsSeq(p)
  BY DEF Path
<1>2. PICK k \in Nat, l \in Nat : k = Len(r) /\ l = Len(p)
  BY <1>1, Lengths
<1>3. PICK t : t = r \o p
  OBVIOUS
<1>4. IsSeq(t) /\ Len(t) = k + l /\ (\A i \in 1 .. k : t[i] = r[i]) /\ \A i \in 1 .. l : t[k + i] = p[i]
  BY <1>1, <1>2, <1>3, Joined
<1>5. ASSUME NEW i \in 1 .. k + l
      PROVE  /\ Alias(u, t[i].name) /\ t[i] = Record(t[i].name, u.data[t[i].name])
             /\ u.data[t[i].name].val = NextName(t, i, q)
  <2>1. CASE i \in 1 .. k
    <3>1. t[i] = r[i]
      BY <1>4, <2>1
    <3>2. /\ Alias(u, r[i].name) /\ r[i] = Record(r[i].name, u.data[r[i].name])
          /\ u.data[r[i].name].val = NextName(r, i, n)
      BY <1>2, <2>1, Zenon DEF Path
    <3>3. NextName(t, i, q) = NextName(r, i, n)
      <4>1. CASE i # k
        <5>1. i # k + l /\ i + 1 \in 1 .. k
          BY <2>1, <4>1
        <5> QED
          BY <1>2, <1>4, <4>1, <5>1 DEF NextName
      <4>2. CASE i = k /\ l = 0
        <5>1. p = <<>>
          BY <1>1, <1>2, <4>2, Lengths
        <5>2. q = n
          BY <5>1 DEF Origin
        <5> QED
          BY <1>2, <1>4, <4>2, <5>2 DEF NextName
      <4>3. CASE i = k /\ l # 0
        <5>1. p # <<>> /\ 1 \in 1 .. l
          BY <1>1, <1>2, <4>3, Lengths
        <5>2. p[1].name = n /\ t[k + 1] = p[1]
          BY <1>4, <5>1 DEF Origin
        <5>3. i # k + l
          BY <4>3
        <5> QED
          BY <1>2, <1>4, <4>3, <5>2, <5>3 DEF NextName
      <4> QED
        BY <4>1, <4>2, <4>3
    <3> QED
      BY <3>1, <3>2, <3>3, Zenon
  <2>2. CASE i \notin 1 .. k
    <3>1. PICK j \in 1 .. l : i = k + j
      <4>1. i - k \in 1 .. l /\ i = k + (i - k)
        BY <2>2
      <4> QED
        BY <4>1
    <3>2. t[i] = p[j]
      BY <1>4, <3>1
    <3>3. /\ Alias(u, p[j].name) /\ p[j] = Record(p[j].name, u.data[p[j].name])
          /\ u.data[p[j].name].val = NextName(p, j, q)
      BY <1>2, Zenon DEF Path
    <3>4. NextName(t, i, q) = NextName(p, j, q)
      <4>1. CASE j = l
        BY <1>2, <1>4, <3>1, <4>1 DEF NextName
      <4>2. CASE j # l
        <5>1. j + 1 \in 1 .. l /\ i + 1 = k + (j + 1) /\ i # k + l
          BY <3>1, <4>2
        <5>2. t[i + 1] = p[j + 1]
          BY <1>4, <5>1
        <5> QED
          BY <1>2, <1>4, <4>2, <5>1, <5>2, Zenon DEF NextName
      <4> QED
        BY <4>1, <4>2
    <3> QED
      BY <3>2, <3>3, <3>4, Zenon
  <2> QED
    BY <2>1, <2>2
<1>6. Path(u, t, q)
  BY <1>4, <1>5, Zenon DEF Path
<1>7. Origin(t, q) = Origin(r, n)
  <2>1. CASE r # <<>>
    <3>1. 1 \in 1 .. k /\ Len(t) # 0
      BY <1>1, <1>2, <1>4, <2>1, Lengths
    <3>2. t # <<>>
      BY <1>4, <3>1, Lengths
    <3> QED
      BY <1>4, <2>1, <3>1, <3>2 DEF Origin
  <2>2. CASE r = <<>> /\ p = <<>>
    <3>1. t = <<>>
      <4>1. Len(t) = 0
        BY <1>1, <1>2, <1>4, <2>2, Lengths
      <4> QED
        BY <1>4, <4>1, Lengths
    <3> QED
      BY <2>2, <3>1 DEF Origin
  <2>3. CASE r = <<>> /\ p # <<>>
    <3>1. k = 0 /\ 1 \in 1 .. l /\ Len(t) # 0
      BY <1>1, <1>2, <1>4, <2>3, Lengths
    <3>2. t # <<>> /\ t[1] = p[1]
      <4>1. t[k + 1] = p[1]
        BY <1>4, <3>1
      <4> QED
        BY <1>4, <3>1, <4>1, Lengths
    <3> QED
      BY <2>3, <3>2 DEF Origin
  <2> QED
    BY <2>1, <2>2, <2>3
<1> QED
  BY <1>3, <1>6, <1>7

LEMMA WholeFrom ==
  ASSUME NEW u, NEW r, NEW n, Path(u, r, n), NEW rcode, NEW ret, Whole(u, n, rcode, ret)
  PROVE  Whole(u, Origin(r, n), rcode, r \o ret)
<1>1. PICK p, q :
        /\ Path(u, p, q) /\ Origin(p, q) = n
        /\ \/ /\ q \in DOMAIN u.data /\ u.data[q].type = "A"
              /\ rcode = "NoError" /\ ret = Append(p, Record(q, u.data[q]))
           \/ /\ q \notin DOMAIN u.data /\ ret = p
              /\ rcode = IF At(u, q).type = "NX" THEN "NXDomain" ELSE "NoError"
  BY Zenon DEF Whole
<1>2. Path(u, r \o p, q) /\ Origin(r \o p, q) = Origin(r, n)
  BY <1>1, PathsJoin
<1>3. CASE q \notin DOMAIN u.data
  BY <1>1, <1>2, <1>3, WholeDenial, Zenon
<1>4. CASE q \in DOMAIN u.data
  <2>1. PICK x : x = Record(q, u.data[q])
    OBVIOUS
  <2>2. Whole(u, Origin(r, n), rcode, Append(r \o p, x))
    BY <1>1, <1>2, <1>4, <2>1, WholeAnswer, Zenon
  <2>3. Append(r \o p, x) = r \o Append(p, x)
    <3>1. IsSeq(r) /\ IsSeq(p)
      BY <1>1 DEF Path
    <3>2. PICK k \in Nat, l \in Nat : k = Len(r) /\ l = Len(p)
      BY <3>1, Lengths
    <3>3. PICK t, v : t = r \o p /\ v = Append(p, x)
      OBVIOUS
    <3>4. IsSeq(t) /\ Len(t) = k + l /\ (\A i \in 1 .. k : t[i] = r[i]) /\ \A i \in 1 .. l : t[k + i] = p[i]
      BY <3>1, <3>2, <3>3, Joined
    <3>5. IsSeq(v) /\ Len(v) = l + 1 /\ (\A i \in 1 .. l : v[i] = p[i]) /\ v[l + 1] = x
      BY <3>1, <3>2, <3>3, Appended
    <3>6. PICK a, b : a = Append(t, x) /\ b = r \o v
      OBVIOUS
    <3>7. /\ IsSeq(a) /\ Len(a) = (k + l) + 1
          /\ (\A i \in 1 .. k + l : a[i] = t[i]) /\ a[(k + l) + 1] = x
      BY <3>4, <3>6, Appended
    <3>8. /\ IsSeq(b) /\ Len(b) = k + (l + 1)
          /\ (\A i \in 1 .. k : b[i] = r[i]) /\ \A i \in 1 .. l + 1 : b[k + i] = v[i]
      <4>1. k = Len(r) /\ Len(v) = l + 1 /\ b = r \o v
        BY <3>2, <3>5, <3>6
      <4>2. IsSeq(r) /\ IsSeq(v)
        BY <3>1, <3>5
      <4>3. /\ IsSeq(r \o v) /\ Len(r \o v) = Len(r) + Len(v)
            /\ \A i \in 1 .. Len(r) : (r \o v)[i] = r[i]
            /\ \A i \in 1 .. Len(v) : (r \o v)[Len(r) + i] = v[i]
        BY ONLY <4>2, Joined
      <4> QED
        BY ONLY <4>1, <4>3
    <3>9. ASSUME NEW i \in 1 .. Len(a)
          PROVE  a[i] = b[i]
      <4>1. CASE i \in 1 .. k
        <5>1. i \in 1 .. k + l
          BY <4>1
        <5> QED
          BY <3>4, <3>7, <3>8, <4>1, <5>1
      <4>2. CASE i = (k + l) + 1
        <5>1. i = k + (l + 1) /\ l + 1 \in 1 .. l + 1
          BY <4>2
        <5> QED
          BY <3>5, <3>7, <3>8, <4>2, <5>1
      <4>3. CASE i \notin 1 .. k /\ i # (k + l) + 1
        <5>1. PICK j \in 1 .. l : i = k + j
          <6>1. i - k \in 1 .. l /\ i = k + (i - k)
            BY <3>7, <4>3
          <6> QED
            BY <6>1
        <5>2. j \in 1 .. l + 1 /\ i \in 1 .. k + l
          BY <5>1
        <5>3. a[i] = t[i] /\ t[i] = p[j] /\ b[i] = v[j] /\ v[j] = p[j]
          BY <3>4, <3>5, <3>7, <3>8, <5>1, <5>2
        <5> QED
          BY <5>3
      <4> QED
        BY <4>1, <4>2, <4>3
    <3>10. Len(a) = Len(b)
      BY <3>7, <3>8
    <3>11. a = b
      BY <3>7, <3>8, <3>9, <3>10, Same
    <3> QED
      BY <3>3, <3>6, <3>11
  <2> QED
    BY <1>1, <1>4, <2>1, <2>2, <2>3, Zenon
<1> QED
  BY <1>3, <1>4

\* Were there a first number that T does not have, T would have the one before it.
LEMMA UpTo ==
  ASSUME NEW T, NEW m \in Nat, 0 \in T, \A n \in 1 .. m : n - 1 \in T => n \in T
  PROVE  \A n \in 0 .. m : n \in T
<1> DEFINE missing == {n \in 0 .. m : n \notin T}
<1>1. ASSUME missing # {} PROVE FALSE
  <2>1. PICK n \in missing : \A k \in missing : n <= k
    <3>1. missing \subseteq Nat
      OBVIOUS
    <3> HIDE DEF missing
    <3> QED
      BY <1>1, <3>1, LeastNumber
  <2>2. n \in 1 .. m /\ n - 1 \in 0 .. m /\ n - 1 \notin missing
    BY <2>1
  <2> QED
    BY <2>1, <2>2
<1> QED
  BY <1>1

\* The names of a chain in their order: all but the last are aliases of the next.
NamesOf(r, q, names) ==
  /\ IsSeq(names) /\ Len(names) = Len(r) + 1 /\ names[Len(r) + 1] = q
  /\ \A i \in 1 .. Len(r) : names[i] = r[i].name

LEMMA NamesExist ==
  ASSUME NEW u, NEW r, NEW q, Path(u, r, q)
  PROVE  \E names : /\ NamesOf(r, q, names) /\ names[1] = Origin(r, q)
                    /\ \A i \in 1 .. Len(r) : Alias(u, names[i]) /\ u.data[names[i]].val = names[i + 1]
<1>1. IsSeq(r)
  BY DEF Path
<1>2. PICK n \in Nat : n = Len(r)
  BY <1>1, Lengths
<1>3. PICK f : f = [i \in 1 .. n |-> r[i].name]
  OBVIOUS
<1>4. f \in Seq({r[i].name : i \in 1 .. n}) /\ Len(f) = n
  BY <1>3
<1>5. IsSeq(f)
  BY <1>4 DEF IsSeq
<1>6. PICK names : names = Append(f, q)
  OBVIOUS
<1>7. /\ IsSeq(names) /\ Len(names) = n + 1 /\ names[n + 1] = q
      /\ \A i \in 1 .. n : names[i] = r[i].name
  <2>1. IsSeq(names) /\ Len(names) = n + 1 /\ (\A i \in 1 .. n : names[i] = f[i]) /\ names[n + 1] = q
    BY <1>4, <1>5, <1>6, Appended
  <2> QED
    BY <1>3, <2>1
<1>8. names[1] = Origin(r, q)
  <2>1. CASE r = <<>>
    <3>1. n = 0
      BY <1>1, <1>2, <2>1, Lengths
    <3> QED
      BY <1>7, <2>1, <3>1 DEF Origin
  <2>2. CASE r # <<>>
    <3>1. 1 \in 1 .. n
      BY <1>1, <1>2, <2>2, Lengths
    <3> QED
      BY <1>7, <2>2, <3>1 DEF Origin
  <2> QED
    BY <2>1, <2>2
<1>9. ASSUME NEW i \in 1 .. n
      PROVE  Alias(u, names[i]) /\ u.data[names[i]].val = names[i + 1]
  <2>1. Alias(u, r[i].name) /\ u.data[r[i].name].val = NextName(r, i, q) /\ names[i] = r[i].name
    BY <1>2, <1>7, Zenon DEF Path
  <2>2. NextName(r, i, q) = names[i + 1]
    <3>1. CASE i = n
      BY <1>2, <1>7, <3>1 DEF NextName
    <3>2. CASE i # n
      <4>1. i + 1 \in 1 .. n
        BY <3>2
      <4> QED
        BY <1>2, <1>7, <3>2, <4>1 DEF NextName
    <3> QED
      BY <3>1, <3>2
  <2> QED
    BY <2>1, <2>2, Zenon
<1>10. NamesOf(r, q, names)
  BY <1>2, <1>7 DEF NamesOf
<1> QED
  BY <1>2, <1>8, <1>9, <1>10

\* If one came twice the chain would go in circles and not end with q,
LEMMA NoneTwice ==
  ASSUME NEW u, NEW n \in Nat, NEW names, ~Alias(u, names[n + 1]),
         \A i \in 1 .. n : Alias(u, names[i]) /\ u.data[names[i]].val = names[i + 1],
         NEW i \in 1 .. n, NEW j \in 1 .. n, i < j
  PROVE  names[i] # names[j]
<1> SUFFICES ASSUME names[i] = names[j] PROVE FALSE
  OBVIOUS
<1>1. PICK m \in Nat : m = n + 1 - j
  OBVIOUS
<1>2. PICK T : T = {k \in 0 .. m : names[i + k] = names[j + k]}
  OBVIOUS
<1>3. 0 \in T
  BY <1>2
<1>4. ASSUME NEW k \in 1 .. m, k - 1 \in T
      PROVE  k \in T
  <2>1. PICK a \in 1 .. n : a = i + (k - 1)
    BY <1>1
  <2>2. PICK b \in 1 .. n : b = j + (k - 1)
    BY <1>1
  <2>3. names[a] = names[b]
    BY <1>2, <1>4, <2>1, <2>2
  <2>4. names[a + 1] = names[b + 1]
    BY <2>3
  <2>5. a + 1 = i + k /\ b + 1 = j + k /\ k \in 0 .. m
    BY <2>1, <2>2
  <2> QED
    BY <1>2, <2>4, <2>5
<1>5. \A k \in 0 .. m : k \in T
  BY <1>3, <1>4, UpTo
<1>6. names[i + m] = names[j + m]
  <2>1. m \in 0 .. m
    OBVIOUS
  <2> QED
    BY <1>2, <1>5, <2>1
<1>7. i + m \in 1 .. n /\ j + m = n + 1
  BY <1>1
<1> QED
  BY <1>6, <1>7

\* so there are no more of them than names.
LEMMA FewAliases ==
  ASSUME NEW u, IsWorld(u), NEW n \in Nat, NEW names, ~Alias(u, names[n + 1]),
         \A i \in 1 .. n : Alias(u, names[i]) /\ u.data[names[i]].val = names[i + 1]
  PROVE  Cardinality(DOMAIN u.data) \in Nat /\ n <= Cardinality(DOMAIN u.data)
<1>1. PICK S, T : S = 1 .. n /\ T = DOMAIN u.data
  OBVIOUS
<1>2. IsFiniteSet(T) /\ Cardinality(T) \in Nat
  BY <1>1, FS_CardinalityType DEF IsWorld
<1>3. IsFiniteSet(S) /\ Cardinality(S) = n
  <2>1. 1 \in Int /\ n \in Int /\ (IF 1 > n THEN 0 ELSE n - 1 + 1) = n
    OBVIOUS
  <2> QED
    BY <1>1, <2>1, FS_Interval
<1>4. PICK f : f = [i \in S |-> names[i]]
  OBVIOUS
<1>5. f \in [S -> T]
  BY <1>1, <1>4 DEF Alias
<1>6. ASSUME Cardinality(T) < Cardinality(S)
      PROVE  FALSE
  <2>1. PICK x, y \in S : x # y /\ f[x] = f[y]
    BY <1>2, <1>3, <1>5, <1>6, FS_PigeonHole
  <2>2. names[x] = names[y]
    BY <1>4, <2>1
  <2>3. x < y \/ y < x
    BY <1>1, <2>1
  <2>4. x \in 1 .. n /\ y \in 1 .. n
    BY <1>1
  <2>5. CASE x < y
    BY <2>2, <2>4, <2>5, NoneTwice
  <2>6. CASE y < x
    BY <2>2, <2>4, <2>6, NoneTwice
  <2> QED
    BY <2>3, <2>5, <2>6
<1> QED
  BY <1>1, <1>2, <1>3, <1>6

\* The function in Chain.
ChainSteps(u, q, m, step) ==
  step = [k \in 0 .. m |->
            IF k = 0 THEN <<q>>
            ELSE IF IsAlias(u, Last(step[k - 1]))
                 THEN Append(step[k - 1], u.data[Last(step[k - 1])].val)
                 ELSE step[k - 1]]

LEMMA AliasIs ==
  ASSUME NEW u, NEW n
  PROVE  IsAlias(u, n) <=> Alias(u, n)
BY AtFacts DEF IsAlias, Alias

LEMMA FirstOnes ==
  ASSUME NEW s, IsSeq(s), NEW k \in 1 .. Len(s)
  PROVE  /\ IsSeq(SubSeq(s, 1, k)) /\ Len(SubSeq(s, 1, k)) = k /\ Last(SubSeq(s, 1, k)) = s[k]
         /\ k < Len(s) => Append(SubSeq(s, 1, k), s[k + 1]) = SubSeq(s, 1, k + 1)
         /\ k = Len(s) => SubSeq(s, 1, k) = s
         /\ k = 1 => SubSeq(s, 1, k) = <<s[1]>>
<1>0. PICK S : s \in Seq(S)
  BY DEF IsSeq
<1>1. PICK n \in Nat : s \in Seq(S) /\ n = Len(s)
  BY <1>0
<1>2. PICK t : t = SubSeq(s, 1, k)
  OBVIOUS
<1>3. t \in Seq(S) /\ Len(t) = k /\ \A i \in 1 .. k : t[i] = s[i]
  BY <1>1, <1>2
<1>4. IsSeq(t) /\ Last(t) = s[k]
  <2>1. k \in 1 .. k
    BY <1>1
  <2> QED
    BY <1>3, <2>1 DEF IsSeq, Last
<1>5. ASSUME k < n
      PROVE  Append(t, s[k + 1]) = SubSeq(s, 1, k + 1)
  <2>1. PICK v : v = SubSeq(s, 1, k + 1)
    OBVIOUS
  <2>2. v \in Seq(S) /\ Len(v) = k + 1 /\ \A i \in 1 .. k + 1 : v[i] = s[i]
    BY <1>1, <1>5, <2>1
  <2>3. IsSeq(v)
    BY <2>2 DEF IsSeq
  <2>4. PICK a : a = Append(t, s[k + 1])
    OBVIOUS
  <2>5. IsSeq(a) /\ Len(a) = k + 1 /\ (\A i \in 1 .. k : a[i] = t[i]) /\ a[k + 1] = s[k + 1]
    BY <1>3, <1>4, <2>4, Appended
  <2>6. \A i \in 1 .. k + 1 : i \in 1 .. k \/ i = k + 1
    BY <1>1
  <2>7. \A i \in 1 .. Len(a) : a[i] = v[i]
    BY <1>3, <2>2, <2>5, <2>6
  <2>8. Len(a) = Len(v)
    BY <2>2, <2>5
  <2>9. a = v
    BY <2>3, <2>5, <2>7, <2>8, Same
  <2> QED
    BY <2>1, <2>4, <2>9
<1>6. k = n => t = s
  BY <1>1, <1>2
<1>7. k = 1 => t = <<s[1]>>
  <2>1. IsSeq(<<s[1]>>)
    <3>1. <<s[1]>> \in Seq({s[1]})
      OBVIOUS
    <3> QED
      BY <3>1 DEF IsSeq
  <2>2. ASSUME k = 1
        PROVE  t = <<s[1]>>
    <3>1. PICK a : a = <<s[1]>>
      OBVIOUS
    <3>2. Len(a) = Len(t) /\ \A i \in 1 .. Len(a) : a[i] = t[i]
      BY <1>3, <2>2, <3>1
    <3> QED
      BY <1>4, <2>1, <3>1, <3>2, Same
  <2> QED
    BY <2>2
<1> QED
  BY <1>1, <1>2, <1>4, <1>5, <1>6, <1>7

LEMMA ChainIs ==
  ASSUME NEW u, IsWorld(u), NEW n \in Nat, NEW names, IsSeq(names), Len(names) = n + 1,
         ~Alias(u, names[n + 1]),
         \A i \in 1 .. n : Alias(u, names[i]) /\ u.data[names[i]].val = names[i + 1]
  PROVE  Chain(u, names[1]) = names
<1>1. PICK m \in Nat : m = Cardinality(DOMAIN u.data) /\ n <= m
  <2>1. Cardinality(DOMAIN u.data) \in Nat /\ n <= Cardinality(DOMAIN u.data)
    BY FewAliases, Zenon
  <2> QED
    BY <2>1
<1>2. PICK o : o = names[1]
  OBVIOUS
<1> DEFINE size(k) == IF k < n THEN k + 1 ELSE n + 1
<1>3. PICK g : g = [k \in 0 .. m |-> SubSeq(names, 1, size(k))]
  OBVIOUS
<1>4. g[0] = <<o>>
  <2>1. size(0) = 1 /\ 1 \in 1 .. n + 1 /\ 0 \in 0 .. m
    OBVIOUS
  <2>2. g[0] = SubSeq(names, 1, 1)
    BY <1>3, <2>1
  <2> QED
    BY <1>2, <2>1, <2>2, FirstOnes
<1>5. ASSUME NEW k \in 1 .. m
      PROVE  g[k] = IF IsAlias(u, Last(g[k - 1]))
                    THEN Append(g[k - 1], u.data[Last(g[k - 1])].val) ELSE g[k - 1]
  <2>1. k \in 0 .. m /\ k - 1 \in 0 .. m
    OBVIOUS
  <2>2. g[k] = SubSeq(names, 1, size(k)) /\ g[k - 1] = SubSeq(names, 1, size(k - 1))
    BY <1>3, <2>1
  <2>3. CASE k <= n
    <3>1. size(k - 1) = k /\ size(k) = k + 1 /\ k \in 1 .. n + 1 /\ k < n + 1 /\ k \in 1 .. n
      BY <2>3
    <3>2. Last(g[k - 1]) = names[k] /\ Append(g[k - 1], names[k + 1]) = g[k]
      BY <2>2, <3>1, FirstOnes
    <3>3. IsAlias(u, names[k]) /\ u.data[names[k]].val = names[k + 1]
      BY <3>1, AliasIs
    <3> QED
      BY <3>2, <3>3
  <2>4. CASE k > n
    <3>1. size(k - 1) = n + 1 /\ size(k) = n + 1 /\ n + 1 \in 1 .. n + 1
      BY <2>4
    <3>2. Last(g[k - 1]) = names[n + 1] /\ g[k] = g[k - 1]
      BY <2>2, <3>1, FirstOnes
    <3>3. ~IsAlias(u, names[n + 1])
      BY AliasIs
    <3> QED
      BY <3>2, <3>3
  <2> QED
    BY <2>3, <2>4
<1>6. g[m] = names
  <2>1. m \in 0 .. m /\ size(m) = n + 1 /\ n + 1 \in 1 .. n + 1
    BY <1>1
  <2>2. g[m] = SubSeq(names, 1, n + 1)
    BY <1>3, <2>1
  <2> QED
    BY <2>1, <2>2, FirstOnes
<1> HIDE DEF size
<1>7. ChainSteps(u, o, m, g)
  <2>1. g = [k \in 0 .. m |-> g[k]]
    BY <1>3
  <2>2. ASSUME NEW k \in 0 .. m
        PROVE  g[k] = IF k = 0 THEN <<o>>
                      ELSE IF IsAlias(u, Last(g[k - 1]))
                           THEN Append(g[k - 1], u.data[Last(g[k - 1])].val)
                           ELSE g[k - 1]
    <3>1. k # 0 => k \in 1 .. m
      OBVIOUS
    <3> QED
      BY <1>4, <1>5, <3>1, Zenon
  <2> QED
    BY <2>1, <2>2, Zenon DEF ChainSteps
<1>8. PICK f : f = CHOOSE step : ChainSteps(u, o, m, step)
  OBVIOUS
<1>9. ChainSteps(u, o, m, f)
  BY <1>7, <1>8
<1>10. Chain(u, o) = f[m]
  BY <1>1, <1>8, Zenon DEF Chain, ChainSteps
<1>11. ASSUME NEW k \in 0 .. m
       PROVE  f[k] = IF k = 0 THEN <<o>>
                     ELSE IF IsAlias(u, Last(f[k - 1]))
                          THEN Append(f[k - 1], u.data[Last(f[k - 1])].val)
                          ELSE f[k - 1]
  BY <1>9, Zenon DEF ChainSteps
<1>12. PICK T : T = {k \in 0 .. m : f[k] = g[k]}
  OBVIOUS
<1>13. 0 \in T
  <2>1. 0 \in 0 .. m
    OBVIOUS
  <2> QED
    BY <1>4, <1>11, <1>12, <2>1, Zenon
<1>14. ASSUME NEW k \in 1 .. m, k - 1 \in T
       PROVE  k \in T
  <2>1. k \in 0 .. m /\ k # 0
    OBVIOUS
  <2>2. f[k - 1] = g[k - 1]
    BY <1>12, <1>14
  <2>3. f[k] = g[k]
    BY <1>5, <1>11, <2>1, <2>2, Zenon
  <2> QED
    BY <1>12, <2>1, <2>3
<1>15. \A k \in 0 .. m : k \in T
  BY <1>13, <1>14, UpTo
<1>16. f[m] = g[m]
  <2>1. m \in 0 .. m
    OBVIOUS
  <2> QED
    BY <1>12, <1>15, <2>1
<1> QED
  BY <1>2, <1>6, <1>10, <1>16

LEMMA RecordsOf ==
  ASSUME NEW s, IsSeq(s), NEW data, NEW t, t = [i \in DOMAIN s |-> Record(s[i], data[s[i]])]
  PROVE  /\ IsSeq(t) /\ Len(t) = Len(s)
         /\ \A i \in 1 .. Len(s) : t[i] = Record(s[i], data[s[i]])
<1>1. PICK n \in Nat : n = Len(s) /\ DOMAIN s = 1 .. n
  BY Lengths
<1>2. PICK S : S = {Record(s[i], data[s[i]]) : i \in 1 .. n}
  OBVIOUS
<1>3. t \in [1 .. n -> S]
  BY <1>1, <1>2
<1>4. t \in Seq(S) /\ Len(t) = n
  BY <1>3
<1> QED
  BY <1>1, <1>4 DEF IsSeq

\* What is whole is the truth.
LEMMA WholeIsTrue ==
  ASSUME NEW u, IsWorld(u), NEW o, NEW rcode, NEW ret, Whole(u, o, rcode, ret)
  PROVE  Truth(u, o) = [rcode |-> rcode, records |-> ret]
<1>1. PICK p, q :
        /\ Path(u, p, q) /\ Origin(p, q) = o
        /\ \/ /\ q \in DOMAIN u.data /\ u.data[q].type = "A"
              /\ rcode = "NoError" /\ ret = Append(p, Record(q, u.data[q]))
           \/ /\ q \notin DOMAIN u.data /\ ret = p
              /\ rcode = IF At(u, q).type = "NX" THEN "NXDomain" ELSE "NoError"
  BY Zenon DEF Whole
<1>2. IsSeq(p) /\ \A i \in 1 .. Len(p) : p[i] = Record(p[i].name, u.data[p[i].name])
  BY <1>1 DEF Path
<1>3. PICK n \in Nat : n = Len(p)
  BY <1>2, Lengths
<1>4. PICK names :
        /\ NamesOf(p, q, names) /\ names[1] = o
        /\ \A i \in 1 .. n : Alias(u, names[i]) /\ u.data[names[i]].val = names[i + 1]
  BY <1>1, <1>3, NamesExist
<1>5. /\ IsSeq(names) /\ Len(names) = n + 1 /\ names[n + 1] = q
      /\ \A i \in 1 .. n : names[i] = p[i].name
  BY <1>3, <1>4 DEF NamesOf
<1>6. ~Alias(u, q)
  BY <1>1 DEF Alias
<1>7. Chain(u, o) = names
  BY <1>4, <1>5, <1>6, ChainIs
<1>8. names # <<>> /\ Last(names) = q
  BY <1>5, Lengths DEF Last
<1>9. \A i \in 1 .. n : p[i] = Record(names[i], u.data[names[i]])
  BY <1>2, <1>3, <1>5
<1>10. PICK known : known = IF q \in DOMAIN u.data THEN names ELSE Front(names)
  OBVIOUS
<1>11. PICK records : records = [i \in DOMAIN known |-> Record(known[i], u.data[known[i]])]
  OBVIOUS
<1>12. Truth(u, o) = [rcode   |-> IF At(u, q).type = "NX" THEN "NXDomain" ELSE "NoError",
                      records |-> records]
  BY <1>7, <1>8, <1>10, <1>11, Zenon DEF Truth
<1>13. CASE q \in DOMAIN u.data
  <2>1. known = names
    BY <1>10, <1>13
  <2>2. /\ IsSeq(records) /\ Len(records) = n + 1
        /\ \A i \in 1 .. n + 1 : records[i] = Record(names[i], u.data[names[i]])
    <3>1. records = [i \in DOMAIN names |-> Record(names[i], u.data[names[i]])]
      BY <1>11, <2>1, Zenon
    <3>2. /\ IsSeq(records) /\ Len(records) = Len(names)
          /\ \A i \in 1 .. Len(names) : records[i] = Record(names[i], u.data[names[i]])
      <4>1. IsSeq(names)
        BY <1>5
      <4> QED
        BY ONLY <3>1, <4>1, RecordsOf
    <3> QED
      BY <1>5, <3>2
  <2>3. PICK x : x = Record(q, u.data[q])
    OBVIOUS
  <2>4. IsSeq(ret) /\ Len(ret) = n + 1 /\ (\A i \in 1 .. n : ret[i] = p[i]) /\ ret[n + 1] = x
    <3>1. ret = Append(p, x)
      BY <1>1, <1>13, <2>3
    <3>2. /\ IsSeq(ret) /\ Len(ret) = Len(p) + 1
          /\ \A i \in 1 .. Len(p) : ret[i] = p[i]
          /\ ret[Len(p) + 1] = x
      BY ONLY <1>2, <3>1, Appended
    <3> QED
      BY <1>3, <3>2
  <2>5. \A i \in 1 .. n + 1 : i \in 1 .. n \/ i = n + 1
    OBVIOUS
  <2>6. \A i \in 1 .. n + 1 : records[i] = ret[i]
    BY <1>5, <1>9, <2>2, <2>3, <2>4, <2>5
  <2>7. records = ret
    BY <2>2, <2>4, <2>6, Same
  <2>8. At(u, q).type = "A" /\ rcode = "NoError"
    BY <1>1, <1>13, AtFacts
  <2> QED
    BY <1>12, <2>7, <2>8
<1>14. CASE q \notin DOMAIN u.data
  <2>1. known = Front(names)
    BY <1>10, <1>14
  <2>2. IsSeq(known) /\ Len(known) = n /\ \A i \in 1 .. n : known[i] = names[i]
    BY <1>5, <1>8, <2>1, Shortened
  <2>3. /\ IsSeq(records) /\ Len(records) = n
        /\ \A i \in 1 .. n : records[i] = Record(known[i], u.data[known[i]])
    <3>1. records = [i \in DOMAIN known |-> Record(known[i], u.data[known[i]])]
      BY <1>11
    <3>2. /\ IsSeq(records) /\ Len(records) = Len(known)
          /\ \A i \in 1 .. Len(known) : records[i] = Record(known[i], u.data[known[i]])
      <4>1. IsSeq(known)
        BY <2>2
      <4> QED
        BY ONLY <3>1, <4>1, RecordsOf
    <3> QED
      BY <2>2, <3>2
  <2>4. \A i \in 1 .. n : records[i] = p[i]
    BY <1>9, <2>2, <2>3
  <2>5. records = p
    BY <1>2, <1>3, <2>3, <2>4, Same
  <2> QED
    BY <1>1, <1>12, <1>14, <2>5
<1> QED
  BY <1>13, <1>14

-----------------------------------------------------------------------------
(* What the caches may say *)

\* An address is one that a server was given or, with authority, that its name has; an
\* alias is one, and servers are those the parent of a zone or the zone itself names.
EntryTrue(u, n, type, e) ==
  /\ type = "A" =>
       /\ e.val \in Addresses(u, n)
       /\ e.auth => n \in DOMAIN u.data /\ u.data[n].type = "A" /\ e.val = u.data[n].val
  /\ type = "CNAME" => Alias(u, n) /\ e.val = u.data[n].val
  /\ type = "NS" => n \in DOMAIN u.ns /\ e.val \subseteq u.ns[n] \cup u.own[n]

CachesTrue ==
  /\ \A k \in DOMAIN cache : EntryTrue(world, k[1], k[2], cache[k])
  /\ \A n \in DOMAIN neg : n \notin DOMAIN world.data /\ At(world, n).type = neg[n]

\* The packet a frame is to handle is from a server that it had reason to ask.
Trusted(u, f) ==
  /\ f.auth \in DOMAIN u.ns
  /\ f.at = "answer" =>
       \E a \in Hosts(u, f.auth) : f.packet = Sanitized(Reply(u, a, f.q), f.auth, f.q)

LEMMA AddressOf ==
  ASSUME NEW u, NEW n \in DOMAIN u.data, u.data[n].type = "A"
  PROVE  u.data[n].val \in Addresses(u, n)
BY DEF Addresses

LEMMA LearnedTrue ==
  ASSUME CachesTrue, world \in Worlds, GlueAgrees(world), NEW f, f.at = "answer", Trusted(world, f)
  PROVE  \A k \in DOMAIN Learned(f.packet, f) :
           EntryTrue(world, k[1], k[2], Learned(f.packet, f)[k])
<1>1. PICK p : p = f.packet
  OBVIOUS
<1>2. IsWorld(world)
  BY ResolutionAssumption
<1>3. PICK a \in Hosts(world, f.auth) : p = Sanitized(Reply(world, a, f.q), f.auth, f.q)
  BY <1>1, Zenon DEF Trusted
<1>4. /\ p.type \in {"A", "CNAME"} =>
           f.q \in DOMAIN world.data /\ world.data[f.q].type = p.type
             /\ world.data[f.q].val = p.val
      /\ p.ns # {} => p.owner \in DOMAIN world.ns
                        /\ p.ns \subseteq world.ns[p.owner] \cup world.own[p.owner]
      /\ \A n \in DOMAIN p.extra :
           /\ IsPrefix(f.auth, n)
           /\ \/ n \in DOMAIN world.data /\ world.data[n].type = "A"
                   /\ p.extra[n] = world.data[n].val
              \/ \E s \in Served(world, a, f.q) : \E c \in Delegated(world, s) :
                   n \in DOMAIN world.glue[c] /\ p.extra[n] = world.glue[c][n]
  BY ONLY <1>2, <1>3, CleanReplies
<1>5. ASSUME NEW n \in DOMAIN p.extra
      PROVE  n \in DOMAIN world.data /\ world.data[n].type = "A" /\ p.extra[n] = world.data[n].val
  <2>1. ASSUME NEW s \in Served(world, a, f.q), NEW c \in Delegated(world, s),
               n \in DOMAIN world.glue[c], p.extra[n] = world.glue[c][n]
        PROVE  n \in DOMAIN world.data /\ world.data[n].type = "A" /\ p.extra[n] = world.data[n].val
    <3>1. s \in DOMAIN world.ns /\ s \in world.serves[a] /\ f.auth \in DOMAIN world.ns
      BY DEF Served, Trusted
    <3>2. IsPrefix(f.auth, n)
      BY <1>4
    <3>3. n \in DOMAIN world.data /\ world.data[n].type = "A" /\ world.data[n].val = world.glue[c][n]
      BY <2>1, <3>1, <3>2, Zenon DEF GlueAgrees
    <3> QED
      BY <2>1, <3>3
  <2> QED
    BY <1>4, <2>1, Zenon
<1>6. ASSUME NEW k \in DOMAIN Learned(p, f), NEW e, e = Learned(p, f)[k]
      PROVE  EntryTrue(world, k[1], k[2], e)
  <2>1. \/ k \in DOMAIN cache /\ e = cache[k]
        \/ /\ p.type \in {"A", "CNAME"} /\ k = <<f.q, p.type>>
           /\ e = [auth |-> TRUE, val |-> p.val]
        \/ /\ p.ns # {} /\ k = <<p.owner, "NS">>
           /\ \E auth : e = [auth |-> auth, val |-> p.ns]
        \/ \E n \in DOMAIN p.extra :
             k = <<n, "A">> /\ e = [auth |-> TRUE, val |-> p.extra[n]]
    BY <1>6, LearnedEntries
  <2>2. CASE k \in DOMAIN cache /\ e = cache[k]
    BY <2>2, Zenon DEF CachesTrue
  <2>3. CASE p.type \in {"A", "CNAME"} /\ k = <<f.q, p.type>> /\ e = [auth |-> TRUE, val |-> p.val]
    <3>1. k[1] = f.q /\ k[2] = p.type /\ e.val = world.data[f.q].val /\ f.q \in DOMAIN world.data
          /\ world.data[f.q].type = p.type /\ p.type \in {"A", "CNAME"}
      BY <1>4, <2>3
    <3>2. CASE p.type = "A"
      <4>1. e.val \in Addresses(world, f.q)
        BY <3>1, <3>2, AddressOf
      <4> QED
        BY <3>1, <3>2, <4>1 DEF EntryTrue
    <3>3. CASE p.type = "CNAME"
      BY <3>1, <3>3 DEF EntryTrue, Alias
    <3> QED
      BY <3>1, <3>2, <3>3
  <2>4. CASE p.ns # {} /\ k = <<p.owner, "NS">> /\ \E auth : e = [auth |-> auth, val |-> p.ns]
    <3>1. k[1] = p.owner /\ k[2] = "NS" /\ e.val = p.ns
      BY <2>4
    <3> QED
      BY <1>4, <2>4, <3>1 DEF EntryTrue
  <2>5. ASSUME NEW n \in DOMAIN p.extra, k = <<n, "A">>, e = [auth |-> TRUE, val |-> p.extra[n]]
        PROVE  EntryTrue(world, k[1], k[2], e)
    <3>1. k[1] = n /\ k[2] = "A" /\ e.val = world.data[n].val /\ n \in DOMAIN world.data
          /\ world.data[n].type = "A"
      BY <1>5, <2>5
    <3>2. e.val \in Addresses(world, n)
      BY <3>1, AddressOf
    <3> QED
      BY <3>1, <3>2 DEF EntryTrue
  <2> QED
    BY <2>1, <2>2, <2>3, <2>4, <2>5
<1> QED
  BY <1>1, <1>6

LEMMA WipedTrue ==
  ASSUME CachesTrue, NEW zones, Wipe(zones), UNCHANGED <<world, neg>>
  PROVE  CachesTrue'
BY DEF CachesTrue, Wipe, Without, Restrict

LEMMA SameTrue ==
  ASSUME CachesTrue, UNCHANGED <<world, caches>>
  PROVE  CachesTrue'
BY DEF CachesTrue, caches

LEMMA WorkKeepsTrue ==
  ASSUME CachesTrue, world \in Worlds, GlueAgrees(world), NEW w \in Workers, Work(w),
         stack[w] # <<>> => Trusted(world, Top(w))
  PROVE  CachesTrue'
<1>1. /\ UNCHANGED world
      /\ \/ UNCHANGED caches
         \/ UNCHANGED neg /\ \E zones : Wipe(zones)
         \/ /\ UNCHANGED neg /\ Got(w, {"A", "CNAME", "REFERRAL"})
            /\ cache' = Learned(Top(w).packet, Top(w))
         \/ /\ UNCHANGED cache /\ Got(w, {"NX", "NODATA"})
            /\ \/ UNCHANGED neg
               \/ neg' = With(neg, Top(w).q, Top(w).packet.type)
  BY WorkCaches, Zenon
<1>2. CASE UNCHANGED caches
  BY <1>1, <1>2, SameTrue
<1>3. CASE UNCHANGED neg /\ \E zones : Wipe(zones)
  BY <1>1, <1>3, WipedTrue
<1>4. CASE UNCHANGED neg /\ Got(w, {"A", "CNAME", "REFERRAL"})
           /\ cache' = Learned(Top(w).packet, Top(w))
  <2>1. Top(w).at = "answer" /\ Trusted(world, Top(w))
    BY <1>4 DEF Got, Runs
  <2>2. \A k \in DOMAIN cache' : EntryTrue(world, k[1], k[2], cache'[k])
    BY <1>4, <2>1, LearnedTrue, Zenon
  <2> QED
    BY <1>1, <1>4, <2>2 DEF CachesTrue
<1>5. CASE /\ UNCHANGED cache /\ Got(w, {"NX", "NODATA"})
           /\ \/ UNCHANGED neg
              \/ neg' = With(neg, Top(w).q, Top(w).packet.type)
  <2>1. PICK p, q : p = Top(w).packet /\ q = Top(w).q
    OBVIOUS
  <2>2. p.type \in {"NX", "NODATA"} /\ Top(w).at = "answer" /\ Trusted(world, Top(w))
    BY <1>5, <2>1 DEF Got, Runs
  <2>3. PICK a : p = Sanitized(Reply(world, a, q), Top(w).auth, q)
    BY <2>1, <2>2, Zenon DEF Trusted
  <2>4. q \notin DOMAIN world.data /\ At(world, q).type = p.type
    <3>1. IsWorld(world)
      BY ResolutionAssumption
    <3>2. p.type \in {"NX", "NODATA"} => q \notin DOMAIN world.data /\ At(world, q).type = p.type
      BY ONLY <2>3, <3>1, CleanReplies
    <3> QED
      BY <2>2, <3>2
  <2>5. neg' = neg \/ neg' = With(neg, q, p.type)
    BY <1>5, <2>1
  <2>6. \A n \in DOMAIN neg' : n \notin DOMAIN world.data /\ At(world, n).type = neg'[n]
    <3>1. CASE neg' = With(neg, q, p.type)
      <4>1. DOMAIN neg' = DOMAIN neg \cup {q}
            /\ \A n \in DOMAIN neg' : neg'[n] = IF n = q THEN p.type ELSE neg[n]
        BY <3>1 DEF With
      <4>2. ASSUME NEW n \in DOMAIN neg'
            PROVE  n \notin DOMAIN world.data /\ At(world, n).type = neg'[n]
        <5>1. CASE n = q
          BY <2>4, <4>1, <4>2, <5>1
        <5>2. CASE n # q
          <6>1. n \in DOMAIN neg /\ neg'[n] = neg[n]
            BY <4>1, <4>2, <5>2
          <6> QED
            BY <6>1, Zenon DEF CachesTrue
        <5> QED
          BY <5>1, <5>2
      <4> QED
        BY <4>2, Zenon
    <3>2. CASE neg' = neg
      BY <3>2, Zenon DEF CachesTrue
    <3> QED
      BY <2>5, <3>1, <3>2
  <2>7. world' = world /\ cache' = cache
    BY <1>1, <1>5
  <2> QED
    BY <2>6, <2>7, Zenon DEF CachesTrue
<1> QED
  BY <1>1, <1>2, <1>3, <1>4, <1>5

-----------------------------------------------------------------------------
(* What frames may believe *)

Told == {"NoError", "NXDomain"}

\* The addresses in an answer.
Given(ret) == {ret[i].val : i \in {j \in DOMAIN ret : ret[j].type = "A"}}

\* A frame asks for servers of its zone, at addresses these have, and the aliases it has
\* followed lead to its name.
Sound(u, f) ==
  /\ Trusted(u, f)
  /\ f.left \subseteq u.ns[f.auth] \cup u.own[f.auth]
  /\ f.addrs \subseteq Hosts(u, f.auth)
  /\ f.at = "start" => f.addrs = {}
  /\ f.at = "wait" => f.asked \in Hosts(u, f.auth)
  /\ Path(u, f.ret, f.q)

\* Such a frame is only where aliases are followed.
Follows(f) == f.fn = "doResolve" \/ f.at \in {"peeked", "aliasFollowed", "targetResolved"}

\* A frame and the one it called.
Linked(u, f, g) ==
  /\ f.at = "peeked" => g.q = f.q /\ g.ret = <<>>
  /\ f.at \in {"aliasFollowed", "targetResolved"} =>
       /\ Alias(u, f.q) /\ g.q = u.data[f.q].val
       /\ g.ret = Append(f.ret, Record(f.q, u.data[f.q]))
  /\ f.at = "serverResolved" => g.q \in u.ns[f.auth] \cup u.own[f.auth]
  /\ f.at \in {"serverResolved", "childAsked"} => g.ret = <<>>
  /\ g.stop => f.at = "childAsked"

IsResult(r) == DOMAIN r = DOMAIN NoResult

\* A result that speaks of a name, and not only of what is in the caches.
Speaks(r, looking) == r.rcode \in Told /\ (~looking \/ r.from \/ Given(r.ret) # {})

\* What the frame on top owes to the one below or to the client: the whole answer where
\* aliases are followed, or else addresses of the server that was looked for.
Owed(u, s, r) ==
  /\ IsResult(r)
  /\ Following(s, Len(s)) /\ Speaks(r, Looking(s, Len(s))) =>
       Whole(u, Origin(s[Len(s)].ret, s[Len(s)].q), r.rcode, r.ret)
  /\ ~Following(s, Len(s)) /\ r.rcode = "NoError" =>
       Given(r.ret) \subseteq Addresses(u, s[Len(s)].q)

\* What it can rely on when it was called back.
Paid(u, s) ==
  LET f == s[Len(s)]
  IN  /\ IsResult(f.got)
      /\ f.at = "peeked" /\ Speaks(f.got, TRUE) => Whole(u, f.q, f.got.rcode, f.got.ret)
      /\ f.at \in {"aliasFollowed", "targetResolved"} /\ Speaks(f.got, Looking(s, Len(s))) =>
           Whole(u, Origin(f.ret, f.q), f.got.rcode, f.got.ret)
      /\ f.at = "serverResolved" /\ f.got.rcode = "NoError" =>
           Given(f.got.ret) \subseteq Hosts(u, f.auth)

Right(u, s, q) ==
  /\ \A i \in 1 .. Len(s) : Sound(u, s[i]) /\ (Follows(s[i]) => Following(s, i))
  /\ \A i \in 1 .. Len(s) - 1 : Linked(u, s[i], s[i + 1])
  /\ s # <<>> => /\ s[1].q = q /\ s[1].ret = <<>> /\ ~s[1].stop
                 /\ s[Len(s)].at \in Calls => Paid(u, s)

LEMMA FollowingAlike ==
  ASSUME NEW s, NEW t, NEW i \in Nat, \A j \in 1 .. i - 1 : s[j].at = t[j].at
  PROVE  Following(s, i) <=> Following(t, i)
BY DEF Following

\* The frame on top goes on about the same question,
LEMMA RightGoesOn ==
  ASSUME NEW u, NEW s, NEW m, Stacked(u, s, m), s # <<>>, NEW q, Right(u, s, q),
         NEW f, f.at \notin Calls, f.q = s[Len(s)].q, f.ret = s[Len(s)].ret,
         f.stop => s[Len(s)].stop, Sound(u, f), Follows(f) => Follows(s[Len(s)])
  PROVE  Right(u, Append(Front(s), f), q)
<1>1. IsSeq(s)
  BY DEF Stacked
<1>2. PICK n \in Nat : n = Len(s) /\ n > 0
  BY <1>1, Lengths
<1>3. PICK t : t = Append(Front(s), f)
  OBVIOUS
<1>4. IsSeq(t) /\ Len(t) = n /\ (\A i \in 1 .. n - 1 : t[i] = s[i]) /\ t[n] = f
  BY <1>1, <1>2, <1>3, Replaced
<1>5. ASSUME NEW i \in 1 .. n
      PROVE  Sound(u, t[i]) /\ (Follows(t[i]) => Following(t, i))
  <2>1. Sound(u, s[i]) /\ (Follows(s[i]) => Following(s, i))
    BY <1>2 DEF Right
  <2>2. \A j \in 1 .. i - 1 : s[j].at = t[j].at
    BY <1>4
  <2>3. Following(s, i) <=> Following(t, i)
    BY <2>2, FollowingAlike
  <2>4. CASE i = n
    BY <1>2, <1>4, <2>1, <2>3, <2>4, Zenon
  <2>5. CASE i # n
    <3>1. t[i] = s[i]
      BY <1>4, <2>5
    <3> QED
      BY <2>1, <2>3, <3>1, Zenon
  <2> QED
    BY <2>4, <2>5
<1>6. ASSUME NEW i \in 1 .. n - 1
      PROVE  Linked(u, t[i], t[i + 1])
  <2>1. Linked(u, s[i], s[i + 1]) /\ t[i] = s[i]
    BY <1>2, <1>4 DEF Right
  <2>2. CASE i + 1 = n
    <3>1. Linked(u, s[i], s[n])
      BY <2>1, <2>2
    <3>2. Linked(u, s[i], f)
      BY <1>2, <3>1, Zenon DEF Linked
    <3> QED
      BY <1>4, <2>1, <2>2, <3>2
  <2>3. CASE i + 1 # n
    <3>1. t[i + 1] = s[i + 1]
      BY <1>4, <2>3
    <3> QED
      BY <2>1, <3>1
  <2> QED
    BY <2>2, <2>3
<1>7. t[1].q = q /\ t[1].ret = <<>> /\ ~t[1].stop
  <2>1. s[1].q = q /\ s[1].ret = <<>> /\ ~s[1].stop
    BY DEF Right
  <2>2. CASE n = 1
    BY <1>2, <1>4, <2>1, <2>2
  <2>3. CASE n # 1
    <3>1. t[1] = s[1]
      BY <1>2, <1>4, <2>3
    <3> QED
      BY <2>1, <3>1
  <2> QED
    BY <2>2, <2>3
<1>8. t[n].at \notin Calls
  BY <1>4
<1> QED
  BY <1>3, <1>4, <1>5, <1>6, <1>7, <1>8, Zenon DEF Right

\* calls another,
LEMMA RightCalls ==
  ASSUME NEW u, NEW s, NEW m, Stacked(u, s, m), s # <<>>, NEW q, Right(u, s, q),
         NEW f, f.q = s[Len(s)].q, f.ret = s[Len(s)].ret, f.stop => s[Len(s)].stop,
         Sound(u, f), Follows(f) => Following(s, Len(s)),
         NEW g, g.at = "start", Sound(u, g), Linked(u, f, g),
         Follows(g) => Following(s, Len(s)) /\ f.at \notin {"serverResolved", "childAsked"}
  PROVE  Right(u, Front(s) \o <<f, g>>, q)
<1>1. IsSeq(s)
  BY DEF Stacked
<1>2. PICK n \in Nat : n = Len(s) /\ n > 0
  BY <1>1, Lengths
<1>3. PICK t : t = Front(s) \o <<f, g>>
  OBVIOUS
<1>4. IsSeq(t) /\ Len(t) = n + 1 /\ (\A i \in 1 .. n - 1 : t[i] = s[i]) /\ t[n] = f /\ t[n + 1] = g
  BY <1>1, <1>2, <1>3, Pushed
<1>5. ASSUME NEW i \in 1 .. n
      PROVE  Sound(u, t[i]) /\ (Follows(t[i]) => Following(t, i))
  <2>1. Sound(u, s[i]) /\ (Follows(s[i]) => Following(s, i))
    BY <1>2 DEF Right
  <2>2. \A j \in 1 .. i - 1 : s[j].at = t[j].at
    BY <1>4
  <2>3. Following(s, i) <=> Following(t, i)
    BY <2>2, FollowingAlike
  <2>4. CASE i = n
    BY <1>2, <1>4, <2>3, <2>4, Zenon
  <2>5. CASE i # n
    <3>1. t[i] = s[i]
      BY <1>4, <2>5
    <3> QED
      BY <2>1, <2>3, <3>1, Zenon
  <2> QED
    BY <2>4, <2>5
<1>6. Sound(u, t[n + 1]) /\ (Follows(t[n + 1]) => Following(t, n + 1))
  <2>1. Following(t, n + 1) = (Following(t, n) /\ t[n].at \notin {"serverResolved", "childAsked"})
    <3>1. n \in Nat \ {0}
      BY <1>2
    <3> QED
      BY <3>1, Above, Zenon
  <2>2. \A j \in 1 .. n - 1 : s[j].at = t[j].at
    BY <1>4
  <2>3. Following(s, n) <=> Following(t, n)
    BY <2>2, FollowingAlike
  <2> QED
    BY <1>2, <1>4, <2>1, <2>3, Zenon
<1>7. ASSUME NEW i \in 1 .. n
      PROVE  Linked(u, t[i], t[i + 1])
  <2>1. CASE i = n
    BY <1>4, <2>1
  <2>2. CASE i = n - 1
    <3>1. Linked(u, s[i], s[i + 1]) /\ t[i] = s[i] /\ i + 1 = n
      BY <1>2, <1>4, <2>2 DEF Right
    <3>2. Linked(u, s[i], s[n])
      BY <3>1
    <3>3. Linked(u, s[i], f)
      BY <1>2, <3>2, Zenon DEF Linked
    <3> QED
      BY <1>4, <3>1, <3>3
  <2>3. CASE i # n /\ i # n - 1
    <3>1. Linked(u, s[i], s[i + 1]) /\ t[i] = s[i] /\ t[i + 1] = s[i + 1]
      BY <1>2, <1>4, <2>3 DEF Right
    <3> QED
      BY <3>1
  <2> QED
    BY <2>1, <2>2, <2>3
<1>8. t[1].q = q /\ t[1].ret = <<>> /\ ~t[1].stop
  <2>1. s[1].q = q /\ s[1].ret = <<>> /\ ~s[1].stop
    BY DEF Right
  <2>2. CASE n = 1
    BY <1>2, <1>4, <2>1, <2>2
  <2>3. CASE n # 1
    <3>1. t[1] = s[1]
      BY <1>2, <1>4, <2>3
    <3> QED
      BY <2>1, <3>1
  <2> QED
    BY <2>2, <2>3
<1>9. t[n + 1].at \notin Calls
  BY <1>4 DEF Calls
<1>10. \A i \in 1 .. n + 1 : i \in 1 .. n \/ i = n + 1
  OBVIOUS
<1>11. \A i \in 1 .. n + 1 : Sound(u, t[i]) /\ (Follows(t[i]) => Following(t, i))
  BY <1>5, <1>6, <1>10, Zenon
<1>12. \A i \in 1 .. (n + 1) - 1 : Linked(u, t[i], t[i + 1])
  BY <1>7
<1> QED
  BY <1>3, <1>4, <1>8, <1>9, <1>11, <1>12, Zenon DEF Right

\* or returns to the one below,
LEMMA RightReturns ==
  ASSUME NEW u, NEW s, NEW m, Stacked(u, s, m), s # <<>>, Len(s) # 1, NEW q, Right(u, s, q),
         NEW r, Owed(u, s, r)
  PROVE  Right(u, Append(Front(Front(s)), [Last(Front(s)) EXCEPT !.got = r]), q)
<1>1. IsSeq(s)
  BY DEF Stacked
<1>2. PICK n \in Nat : n = Len(s) /\ n > 1
  <2>1. PICK n \in Nat : n = Len(s)
    BY <1>1, Lengths
  <2> QED
    BY <1>1, <2>1, Lengths
<1>3. PICK k \in Nat \ {0} : k = n - 1
  BY <1>2
<1>4. PICK f : f = s[k]
  OBVIOUS
<1>5. PICK g : g = s[n]
  OBVIOUS
<1>6. PICK h : h = [f EXCEPT !.got = r]
  OBVIOUS
<1>7. IsFrame(f) /\ f.at \in Calls
  BY <1>2, <1>3, <1>4 DEF Stacked
<1>8. /\ h.at = f.at /\ h.q = f.q /\ h.ret = f.ret /\ h.stop = f.stop /\ h.fn = f.fn
      /\ h.auth = f.auth /\ h.left = f.left /\ h.addrs = f.addrs /\ h.asked = f.asked
      /\ h.packet = f.packet /\ h.got = r
  BY <1>6, <1>7 DEF IsFrame, Frame
<1>9. PICK t : t = Append(Front(Front(s)), h)
  OBVIOUS
<1>10. /\ Last(Front(s)) = f /\ IsSeq(t) /\ Len(t) = k
       /\ (\A i \in 1 .. k - 1 : t[i] = s[i]) /\ t[k] = h
  <2>1. /\ Last(Front(s)) = s[Len(s) - 1]
        /\ IsSeq(Append(Front(Front(s)), h)) /\ Len(Append(Front(Front(s)), h)) = Len(s) - 1
        /\ \A i \in 1 .. Len(s) - 2 : Append(Front(Front(s)), h)[i] = s[i]
        /\ Append(Front(Front(s)), h)[Len(s) - 1] = h
    BY <1>1, Popped, Zenon
  <2>2. Len(s) - 1 = k /\ Len(s) - 2 = k - 1
    BY <1>2, <1>3
  <2> QED
    BY <1>4, <1>9, <2>1, <2>2, Zenon
<1>11. /\ Sound(u, f) /\ (Follows(f) => Following(s, k)) /\ Linked(u, f, g)
  <2>1. k \in 1 .. Len(s) /\ k \in 1 .. Len(s) - 1 /\ k + 1 = n
    BY <1>2, <1>3
  <2> QED
    BY <1>4, <1>5, <2>1, Zenon DEF Right
<1>12. Sound(u, h) /\ (Follows(h) => Follows(f))
  BY <1>8, <1>11, Zenon DEF Sound, Trusted, Follows
<1>13. ASSUME NEW i \in 1 .. k
       PROVE  Sound(u, t[i]) /\ (Follows(t[i]) => Following(t, i))
  <2>1. \A j \in 1 .. i - 1 : s[j].at = t[j].at
    BY <1>10
  <2>2. Following(s, i) <=> Following(t, i)
    BY <2>1, FollowingAlike
  <2>3. CASE i = k
    BY <1>10, <1>11, <1>12, <2>2, <2>3, Zenon
  <2>4. CASE i # k
    <3>1. t[i] = s[i] /\ i \in 1 .. Len(s)
      BY <1>2, <1>3, <1>10, <2>4
    <3>2. Sound(u, s[i]) /\ (Follows(s[i]) => Following(s, i))
      BY <3>1, Zenon DEF Right
    <3> QED
      BY <2>2, <3>1, <3>2, Zenon
  <2> QED
    BY <2>3, <2>4
<1>14. ASSUME NEW i \in 1 .. k - 1
       PROVE  Linked(u, t[i], t[i + 1])
  <2>1. Linked(u, s[i], s[i + 1]) /\ t[i] = s[i]
    BY <1>2, <1>3, <1>10 DEF Right
  <2>2. CASE i + 1 = k
    <3>1. Linked(u, s[i], f)
      BY <1>4, <2>1, <2>2
    <3>2. Linked(u, s[i], h)
      BY <1>8, <3>1, Zenon DEF Linked
    <3> QED
      BY <1>10, <2>1, <2>2, <3>2
  <2>3. CASE i + 1 # k
    <3>1. t[i + 1] = s[i + 1]
      BY <1>10, <2>3
    <3> QED
      BY <2>1, <3>1
  <2> QED
    BY <2>2, <2>3
<1>15. t[1].q = q /\ t[1].ret = <<>> /\ ~t[1].stop
  <2>1. s[1].q = q /\ s[1].ret = <<>> /\ ~s[1].stop
    BY DEF Right
  <2>2. CASE k = 1
    BY <1>4, <1>8, <1>10, <2>1, <2>2
  <2>3. CASE k # 1
    <3>1. t[1] = s[1]
      BY <1>3, <1>10, <2>3
    <3> QED
      BY <2>1, <3>1
  <2> QED
    BY <2>2, <2>3
<1>16. /\ Following(s, n) = (Following(s, k) /\ f.at \notin {"serverResolved", "childAsked"})
       /\ f.at \notin Looks => Looking(s, n) = Looking(s, k)
       /\ f.at = "peeked" => Looking(s, n) = TRUE
  <2>1. k + 1 = n
    BY <1>3
  <2> QED
    BY <1>4, <2>1, Above, Zenon
<1>17. Looking(t, k) = Looking(s, k)
  <2>1. \A j \in 1 .. k - 1 : s[j].at = t[j].at /\ s[j].q = t[j].q
    BY <1>10
  <2>2. s[k].q = t[k].q
    BY <1>4, <1>8, <1>10
  <2> QED
    BY <2>1, <2>2, Alike
<1>18. /\ IsResult(r)
       /\ Following(s, n) /\ Speaks(r, Looking(s, n)) => Whole(u, Origin(g.ret, g.q), r.rcode, r.ret)
       /\ ~Following(s, n) /\ r.rcode = "NoError" => Given(r.ret) \subseteq Addresses(u, g.q)
  BY <1>2, <1>5, Zenon DEF Owed
<1>19. ASSUME f.at = "peeked", Speaks(r, TRUE)
       PROVE  Whole(u, f.q, r.rcode, r.ret)
  <2>1. Follows(f) /\ f.at \notin {"serverResolved", "childAsked"} /\ g.q = f.q /\ g.ret = <<>>
    BY <1>11, <1>19 DEF Follows, Linked
  <2>2. Following(s, n) /\ Looking(s, n) = TRUE
    BY <1>11, <1>16, <1>19, <2>1, Zenon
  <2>3. Origin(g.ret, g.q) = f.q
    BY <2>1 DEF Origin
  <2> QED
    BY <1>18, <1>19, <2>2, <2>3, Zenon
<1>20. ASSUME f.at \in {"aliasFollowed", "targetResolved"}, Speaks(r, Looking(s, k))
       PROVE  Whole(u, Origin(f.ret, f.q), r.rcode, r.ret)
  <2>1. Follows(f) /\ f.at \notin {"serverResolved", "childAsked"} /\ f.at \notin Looks
    BY <1>20 DEF Follows, Looks
  <2>2. /\ Alias(u, f.q) /\ g.q = u.data[f.q].val
        /\ g.ret = Append(f.ret, Record(f.q, u.data[f.q]))
    BY <1>11, <1>20, Zenon DEF Linked
  <2>3. Following(s, n) /\ Looking(s, n) = Looking(s, k)
    BY <1>11, <1>16, <2>1, Zenon
  <2>4. Path(u, f.ret, f.q)
    BY <1>11, Zenon DEF Sound
  <2>5. Origin(g.ret, g.q) = Origin(f.ret, f.q)
    <3>1. PICK x : x = Record(f.q, u.data[f.q])
      OBVIOUS
    <3>2. Origin(Append(f.ret, x), u.data[f.q].val) = Origin(f.ret, f.q)
      BY <2>2, <2>4, <3>1, PathOn
    <3> QED
      BY <2>2, <3>1, <3>2, Zenon
  <2> QED
    BY <1>18, <1>20, <2>3, <2>5, Zenon
<1>21. ASSUME f.at = "serverResolved", r.rcode = "NoError"
       PROVE  Given(r.ret) \subseteq Hosts(u, f.auth)
  <2>1. ~Following(s, n)
    BY <1>16, <1>21
  <2>2. g.q \in u.ns[f.auth] \cup u.own[f.auth]
    BY <1>11, <1>21, Zenon DEF Linked
  <2>3. Addresses(u, g.q) \subseteq Hosts(u, f.auth)
    BY <2>2, Zenon DEF Hosts
  <2> QED
    BY <1>18, <1>21, <2>1, <2>3
<1>22. Paid(u, t)
  BY <1>8, <1>10, <1>17, <1>18, <1>19, <1>20, <1>21, Zenon DEF Paid
<1>23. Right(u, t, q)
  BY <1>10, <1>13, <1>14, <1>15, <1>22, Zenon DEF Right
<1> QED
  BY <1>6, <1>9, <1>10, <1>23

\* or to the client.
LEMMA RightTells ==
  ASSUME NEW u, NEW s, NEW q, Len(s) = 1, s # <<>>, Right(u, s, q),
         NEW r, Owed(u, s, r), r.rcode \in Told
  PROVE  Whole(u, q, r.rcode, r.ret)
<1>1. \A j \in 1 .. 1 - 1 : FALSE
  OBVIOUS
<1>2. Following(s, 1) /\ ~Looking(s, 1)
  BY <1>1, Zenon DEF Following, Looking
<1>3. s[1].q = q /\ s[1].ret = <<>>
  BY DEF Right
<1>4. Origin(s[1].ret, s[1].q) = q
  BY <1>3 DEF Origin
<1> QED
  BY <1>2, <1>4, Zenon DEF Owed, Speaks

LEMMA RightNothing ==
  ASSUME NEW u, NEW q
  PROVE  Right(u, <<>>, q)
<1>1. \A i \in 1 .. 0 : FALSE
  OBVIOUS
<1>2. \A i \in 1 .. 0 - 1 : FALSE
  OBVIOUS
<1>3. PICK s : s = <<>> /\ Len(s) = 0
  BY Empty
<1>4. Right(u, s, q)
  BY <1>1, <1>2, <1>3, Zenon DEF Right
<1> QED
  BY <1>3, <1>4

-----------------------------------------------------------------------------
(* What holds of every worker, and how an action of one leaves it *)

Honest(w) ==
  /\ Right(world, stack[w], me[w].q)
  /\ out[w].rcode \in Told => Whole(world, out[w].q, out[w].rcode, out[w].records)

Knowing ==
  /\ Typed /\ GlueAgrees(world) /\ CachesTrue
  /\ DOMAIN out = Workers /\ \A w \in Workers : Honest(w)

Rightly(w) ==
  /\ DOMAIN out' = Workers /\ \A v \in Workers \ {w} : out'[v] = out[v]
  /\ Right(world', stack'[w], me'[w].q)
  /\ out'[w].rcode \in Told => Whole(world', out'[w].q, out'[w].rcode, out'[w].records)

LEMMA RightlySteps ==
  ASSUME Knowing, NEW w \in Workers, Stepped(w), Rightly(w), UNCHANGED world, Typed', CachesTrue'
  PROVE  Knowing'
<1>1. ASSUME NEW v \in Workers, v # w
      PROVE  Honest(v)'
  <2>1. Honest(v)
    BY DEF Knowing
  <2>2. stack'[v] = stack[v] /\ me'[v] = me[v] /\ out'[v] = out[v]
    BY <1>1 DEF Stepped, Rightly
  <2> QED
    BY <2>1, <2>2, Zenon DEF Honest
<1>2. Honest(w)'
  BY Zenon DEF Rightly, Honest
<1>3. GlueAgrees(world)' /\ (DOMAIN out = Workers)'
  BY DEF Knowing, Rightly
<1> QED
  BY <1>1, <1>2, <1>3 DEF Knowing

\* The frame a worker is in.
LEMMA TopFrame ==
  ASSUME Knowing, NEW w \in Workers, stack[w] # <<>>
  PROVE  /\ Workmanlike /\ world \in Worlds /\ IsWorld(world) /\ DOMAIN out = Workers
         /\ Stacked(world, stack[w], me[w]) /\ Right(world, stack[w], me[w].q)
         /\ Top(w) = stack[w][Len(stack[w])] /\ IsFrame(Top(w)) /\ Sound(world, Top(w))
         /\ Follows(Top(w)) => Following(stack[w], Len(stack[w]))
         /\ Top(w).at \in Calls => Paid(world, stack[w])
<1>1. Workmanlike /\ world \in Worlds /\ DOMAIN out = Workers /\ Honest(w)
  BY DEF Knowing, Typed
<1>2. IsWorld(world)
  BY <1>1, ResolutionAssumption
<1>3. Stacked(world, stack[w], me[w])
  BY <1>1, Zenon DEF Workmanlike, Fine
<1>4. Right(world, stack[w], me[w].q)
  BY <1>1, Zenon DEF Honest
<1>5. PICK s : s = stack[w]
  OBVIOUS
<1>6. IsSeq(s) /\ s # <<>>
  BY <1>3, <1>5, Zenon DEF Stacked
<1>7. Len(s) \in 1 .. Len(s)
  BY <1>6, Lengths
<1>8. Top(w) = s[Len(s)]
  BY <1>5 DEF Top, Last
<1>9. IsFrame(s[Len(s)])
  BY <1>3, <1>5, <1>7, Zenon DEF Stacked
<1>10. Sound(world, s[Len(s)]) /\ (Follows(s[Len(s)]) => Following(s, Len(s)))
  BY <1>4, <1>5, <1>7, Zenon DEF Right
<1>11. s[Len(s)].at \in Calls => Paid(world, s)
  BY <1>4, <1>5, <1>6, Zenon DEF Right
<1> QED
  BY <1>1, <1>2, <1>3, <1>4, <1>5, <1>8, <1>9, <1>10, <1>11, Zenon

LEMMA ContinueRight ==
  ASSUME Knowing, NEW w \in Workers, stack[w] # <<>>, UNCHANGED <<world, out>>,
         NEW object, MeBecomes(w, object), object.q = me[w].q,
         NEW f, Continue(w, f), f.at \notin Calls, f.q = Top(w).q, f.ret = Top(w).ret,
         f.stop => Top(w).stop, Sound(world, f), Follows(f) => Follows(Top(w))
  PROVE  Rightly(w)
<1>1. PICK s : s = stack[w]
  OBVIOUS
<1>2. /\ Workmanlike /\ DOMAIN out = Workers /\ Stacked(world, s, me[w])
      /\ Right(world, s, me[w].q) /\ Top(w) = s[Len(s)]
  BY <1>1, TopFrame, Zenon
<1>3. PICK t : t = Append(Front(s), f)
  OBVIOUS
<1>4. Right(world, t, me[w].q)
  BY <1>1, <1>2, <1>3, RightGoesOn, Zenon
<1>5. stack'[w] = t
  BY <1>1, <1>2, <1>3 DEF Continue, Workmanlike
<1>6. Right(world', stack'[w], me'[w].q)
  BY <1>4, <1>5, Zenon DEF MeBecomes
<1>7. Honest(w)
  BY DEF Knowing
<1> QED
  BY <1>2, <1>6, <1>7 DEF Rightly, Honest

LEMMA FinishRight ==
  ASSUME Knowing, NEW w \in Workers, UNCHANGED world, NEW rcode, NEW ret, Finish(w, rcode, ret),
         rcode \in Told => Whole(world, me[w].q, rcode, ret)
  PROVE  Rightly(w)
<1>1. Workmanlike /\ DOMAIN out = Workers
  BY DEF Knowing, Typed
<1>2. PICK told : told = [q |-> me[w].q, rcode |-> rcode, records |-> ret, lost |-> me[w].lost]
  OBVIOUS
<1>3. /\ stack'[w] = <<>>
      /\ DOMAIN out' = Workers /\ out'[w] = told /\ \A v \in Workers \ {w} : out'[v] = out[v]
  BY <1>1, <1>2 DEF Finish, Workmanlike
<1>4. told.q = me[w].q /\ told.rcode = rcode /\ told.records = ret
  BY <1>2
<1>5. Right(world', stack'[w], me'[w].q)
  BY <1>3, RightNothing
<1>6. out'[w].rcode \in Told => Whole(world', out'[w].q, out'[w].rcode, out'[w].records)
  BY <1>3, <1>4, Zenon
<1> QED
  BY <1>3, <1>5, <1>6, Zenon DEF Rightly

LEMMA ThrowRight ==
  ASSUME Knowing, NEW w \in Workers, UNCHANGED world, Throw(w)
  PROVE  Rightly(w)
<1>1. "ServFail" \notin Told
  BY DEF Told
<1> QED
  BY <1>1, FinishRight, Zenon DEF Throw

LEMMA ReturnRight ==
  ASSUME Knowing, NEW w \in Workers, stack[w] # <<>>, UNCHANGED world, NEW r, NEW object,
         Return(w, r, object), object.q = me[w].q, Owed(world, stack[w], r)
  PROVE  Rightly(w)
<1>1. PICK s : s = stack[w]
  OBVIOUS
<1>2. /\ Workmanlike /\ DOMAIN out = Workers /\ Stacked(world, s, me[w])
      /\ Right(world, s, me[w].q)
  BY <1>1, TopFrame, Zenon
<1>3. CASE Len(s) = 1
  <2>1. Finish(w, r.rcode, r.ret)
    BY <1>1, <1>3, Zenon DEF Return
  <2>2. r.rcode \in Told => Whole(world, me[w].q, r.rcode, r.ret)
    BY <1>1, <1>2, <1>3, RightTells, Zenon
  <2> QED
    BY <2>1, <2>2, FinishRight, Zenon
<1>4. CASE Len(s) # 1
  <2>1. PICK t : t = Append(Front(Front(s)), [Last(Front(s)) EXCEPT !.got = r])
    OBVIOUS
  <2>2. Right(world, t, me[w].q)
    BY <1>1, <1>2, <1>4, <2>1, RightReturns, Zenon
  <2>3. /\ stack' = [stack EXCEPT ![w] = t] /\ me' = [me EXCEPT ![w] = object]
        /\ out' = out
    <3>1. stack' = [stack EXCEPT ![w] = Append(Front(Front(stack[w])), [Last(Front(stack[w])) EXCEPT !.got = r])]
      BY <1>1, <1>4, SMT DEF Return
    <3>2. me' = [me EXCEPT ![w] = object] /\ out' = out
      BY <1>1, <1>4, Zenon DEF Return
    <3> QED
      BY <1>1, <2>1, <3>1, <3>2, Zenon
  <2>4. stack'[w] = t /\ me'[w].q = me[w].q
    BY <1>2, <2>3 DEF Workmanlike
  <2>5. Honest(w)
    BY DEF Knowing
  <2>6. Right(world', stack'[w], me'[w].q)
    BY <2>2, <2>4, Zenon
  <2> QED
    BY <1>2, <2>3, <2>5, <2>6 DEF Rightly, Honest
<1> QED
  BY <1>3, <1>4

LEMMA CallRight ==
  ASSUME Knowing, NEW w \in Workers, stack[w] # <<>>, UNCHANGED <<world, out>>,
         NEW f, IsFrame(f), f.at \in Calls, f.q = Top(w).q, f.ret = Top(w).ret,
         f.stop => Top(w).stop, Sound(world, f),
         Follows(f) => Following(stack[w], Len(stack[w])),
         NEW g, g.at = "start", Sound(world, g), Linked(world, f, g),
         Follows(g) => /\ Following(stack[w], Len(stack[w]))
                       /\ f.at \notin {"serverResolved", "childAsked"},
         Call(w, f, g), NEW object, MeBecomes(w, object), object.q = me[w].q
  PROVE  Rightly(w)
<1>1. PICK s : s = stack[w]
  OBVIOUS
<1>2. /\ Workmanlike /\ DOMAIN out = Workers /\ Stacked(world, s, me[w])
      /\ Right(world, s, me[w].q) /\ Top(w) = s[Len(s)]
  BY <1>1, TopFrame, Zenon
<1>3. PICK h : h = [f EXCEPT !.got = NoResult]
  OBVIOUS
<1>4. /\ h.at = f.at /\ h.q = f.q /\ h.ret = f.ret /\ h.stop = f.stop /\ h.fn = f.fn
      /\ h.auth = f.auth /\ h.left = f.left /\ h.addrs = f.addrs /\ h.asked = f.asked
      /\ h.packet = f.packet
  BY <1>3 DEF IsFrame, Frame
<1>5. Sound(world, h) /\ Linked(world, h, g) /\ (Follows(h) => Follows(f))
  BY <1>4, Zenon DEF Sound, Trusted, Linked, Follows
<1>6. PICK t : t = Front(s) \o <<h, g>>
  OBVIOUS
<1>7. Right(world, t, me[w].q)
  <2>1. /\ s # <<>> /\ h.q = s[Len(s)].q /\ h.ret = s[Len(s)].ret /\ (h.stop => s[Len(s)].stop)
        /\ (Follows(h) => Following(s, Len(s)))
        /\ (Follows(g) => Following(s, Len(s)) /\ h.at \notin {"serverResolved", "childAsked"})
    BY <1>1, <1>2, <1>4, <1>5, Zenon
  <2>2. Right(world, Front(s) \o <<h, g>>, me[w].q)
    <3>1. Sound(world, g) /\ g.at = "start"
      OBVIOUS
    <3> QED
      BY ONLY <1>2, <1>5, <2>1, <3>1, RightCalls, Zenon
  <2> QED
    BY <1>6, <2>2
<1>8. stack'[w] = t
  <2>1. stack' = [stack EXCEPT ![w] = Front(stack[w]) \o <<[f EXCEPT !.got = NoResult], g>>]
    BY DEF Call
  <2>2. stack' = [stack EXCEPT ![w] = t]
    BY <1>1, <1>3, <1>6, <2>1, Zenon
  <2> QED
    BY <1>2, <2>2 DEF Workmanlike
<1>9. Right(world', stack'[w], me'[w].q)
  BY <1>7, <1>8, Zenon DEF MeBecomes
<1>10. Honest(w)
  BY DEF Knowing
<1> QED
  BY <1>2, <1>9, <1>10 DEF Rightly, Honest

-----------------------------------------------------------------------------
(* What a frame may return, and what it may be when it goes on *)

LEMMA PathGives ==
  ASSUME NEW u, NEW r, NEW q, Path(u, r, q)
  PROVE  IsSeq(r) /\ Given(r) = {}
<1>1. IsSeq(r)
  BY DEF Path
<1>2. DOMAIN r = 1 .. Len(r)
  BY <1>1, Lengths
<1>3. ASSUME NEW i \in DOMAIN r
      PROVE  r[i].type # "A"
  <2>1. Alias(u, r[i].name) /\ r[i] = Record(r[i].name, u.data[r[i].name])
    BY <1>2, Zenon DEF Path
  <2>2. r[i].type = u.data[r[i].name].type
    BY <2>1 DEF Record
  <2> QED
    BY <2>1, <2>2 DEF Alias
<1> QED
  BY <1>1, <1>3 DEF Given

LEMMA AppendGives ==
  ASSUME NEW r, IsSeq(r), Given(r) = {}, NEW x
  PROVE  /\ Given(Append(r, x)) \subseteq {x.val}
         /\ x.type # "A" => Given(Append(r, x)) = {}
<1>1. PICK t : t = Append(r, x)
  OBVIOUS
<1>2. PICK n \in Nat : n = Len(r)
  BY Lengths
<1>3. IsSeq(t) /\ Len(t) = n + 1 /\ (\A i \in 1 .. n : t[i] = r[i]) /\ t[n + 1] = x
  BY <1>1, <1>2, Appended
<1>4. DOMAIN r = 1 .. n /\ DOMAIN t = 1 .. n + 1
  BY <1>2, <1>3, Lengths
<1>5. ASSUME NEW i \in DOMAIN t, t[i].type = "A"
      PROVE  t[i] = x
  <2>1. CASE i \in 1 .. n
    <3>1. r[i].type = "A" /\ i \in DOMAIN r
      BY <1>3, <1>4, <1>5, <2>1
    <3> QED
      BY <3>1 DEF Given
  <2>2. CASE i = n + 1
    BY <1>3, <2>2
  <2> QED
    BY <1>4, <2>1, <2>2
<1>6. Given(t) \subseteq {x.val} /\ (x.type # "A" => Given(t) = {})
  BY <1>5 DEF Given
<1> QED
  BY <1>1, <1>6

\* Where aliases are not followed, a frame was called with nothing to add to; and asked to
\* stop at a delegation it follows none.
LEMMA Bare ==
  ASSUME NEW u, NEW s, NEW m, Stacked(u, s, m), s # <<>>, NEW q, Right(u, s, q)
  PROVE  /\ ~Following(s, Len(s)) => s[Len(s)].ret = <<>>
         /\ s[Len(s)].stop => ~Following(s, Len(s))
<1>1. IsSeq(s)
  BY DEF Stacked
<1>2. PICK n \in Nat \ {0} : n = Len(s)
  BY <1>1, Lengths
<1>3. CASE n = 1
  <2>1. \A j \in 1 .. 1 - 1 : FALSE
    OBVIOUS
  <2>2. Following(s, 1)
    BY <2>1, Zenon DEF Following
  <2>3. ~s[1].stop
    BY DEF Right
  <2> QED
    BY <1>2, <1>3, <2>2, <2>3
<1>4. CASE n # 1
  <2>1. PICK k \in Nat \ {0} : k = n - 1
    BY <1>2, <1>4
  <2>2. k \in 1 .. Len(s) /\ k \in 1 .. Len(s) - 1 /\ k + 1 = n
    BY <1>2, <2>1
  <2>3. /\ Linked(u, s[k], s[n]) /\ s[k].at \in Calls
        /\ Follows(s[k]) => Following(s, k)
    BY <2>2, Zenon DEF Right, Stacked
  <2>4. Following(s, k + 1) = (Following(s, k) /\ s[k].at \notin {"serverResolved", "childAsked"})
    BY Above, Zenon
  <2>5. s[k].at \notin {"serverResolved", "childAsked"} => Follows(s[k])
    BY <2>3 DEF Calls, Follows
  <2>6. Following(s, n) <=> s[k].at \notin {"serverResolved", "childAsked"}
    BY <2>2, <2>3, <2>4, <2>5, Zenon
  <2>7. /\ s[k].at \in {"serverResolved", "childAsked"} => s[n].ret = <<>>
        /\ s[n].stop => s[k].at = "childAsked"
    BY <2>3, Zenon DEF Linked
  <2> QED
    BY <1>2, <2>6, <2>7
<1> QED
  BY <1>3, <1>4

\* A failure, or nothing where only the caches are looked into, is no answer;
LEMMA OwedFailure ==
  ASSUME NEW u, NEW s, NEW r, IsResult(r), r.rcode \notin Told
  PROVE  Owed(u, s, r)
BY DEF Owed, Speaks, Told

LEMMA OwedQuiet ==
  ASSUME NEW u, NEW s, NEW r, IsResult(r), Given(r.ret) = {},
         ~Following(s, Len(s)) \/ (Looking(s, Len(s)) /\ ~r.from)
  PROVE  Owed(u, s, r)
BY DEF Owed, Speaks

\* that there is nothing, or an address, is one.
LEMMA OwedWhole ==
  ASSUME NEW u, NEW s, NEW f, f = s[Len(s)],
         NEW r, IsResult(r), Whole(u, Origin(f.ret, f.q), r.rcode, r.ret),
         ~Following(s, Len(s)) => Given(r.ret) \subseteq Addresses(u, f.q)
  PROVE  Owed(u, s, r)
BY Zenon DEF Owed

LEMMA OwedDenial ==
  ASSUME NEW u, NEW s, NEW f, f = s[Len(s)], Path(u, f.ret, f.q), f.q \notin DOMAIN u.data,
         NEW r, IsResult(r), r.ret = f.ret,
         r.rcode = IF At(u, f.q).type = "NX" THEN "NXDomain" ELSE "NoError"
  PROVE  Owed(u, s, r)
<1>1. Whole(u, Origin(f.ret, f.q), r.rcode, r.ret)
  BY WholeDenial, Zenon
<1>2. Given(r.ret) = {}
  BY PathGives
<1>3. Given(r.ret) \subseteq Addresses(u, f.q)
  BY <1>2
<1> QED
  BY <1>1, <1>3, OwedWhole, Zenon

LEMMA OwedAddress ==
  ASSUME NEW u, NEW s, NEW f, f = s[Len(s)], Path(u, f.ret, f.q),
         f.q \in DOMAIN u.data, u.data[f.q].type = "A",
         NEW r, IsResult(r), r.ret = Append(f.ret, Record(f.q, u.data[f.q])), r.rcode = "NoError"
  PROVE  Owed(u, s, r)
<1>1. PICK x : x = Record(f.q, u.data[f.q])
  OBVIOUS
<1>2. Whole(u, Origin(f.ret, f.q), r.rcode, r.ret)
  BY <1>1, WholeAnswer, Zenon
<1>3. Given(r.ret) \subseteq {x.val}
  BY <1>1, PathGives, AppendGives, Zenon
<1>4. x.val \in Addresses(u, f.q)
  BY <1>1, AddressOf DEF Record
<1>5. Given(r.ret) \subseteq Addresses(u, f.q)
  BY <1>3, <1>4
<1> QED
  BY <1>2, <1>5, OwedWhole, Zenon

\* Frames that go on.
LEMMA FreshSound ==
  ASSUME NEW u, IsWorld(u), NEW g, g.at = "start", g.auth = Root, g.left = {}, g.addrs = {},
         Path(u, g.ret, g.q)
  PROVE  Sound(u, g)
BY DEF Sound, Trusted, IsWorld

LEMMA SoundElsewhere ==
  ASSUME NEW u, NEW f, Sound(u, f), NEW g, g.auth = f.auth, g.left \subseteq f.left,
         g.addrs \subseteq Hosts(u, f.auth), g.q = f.q, g.ret = f.ret,
         g.at \notin {"start", "wait", "answer"}
  PROVE  Sound(u, g)
BY DEF Sound, Trusted

LEMMA StillSound ==
  ASSUME NEW u, NEW f, Sound(u, f), NEW g, g.auth = f.auth, g.left = f.left,
         g.addrs = f.addrs, g.q = f.q, g.ret = f.ret, g.at \notin {"start", "wait", "answer"}
  PROVE  Sound(u, g)
BY DEF Sound, Trusted

LEMMA SoundAddrs ==
  ASSUME NEW u, NEW f, Sound(u, f)
  PROVE  f.addrs \subseteq Hosts(u, f.auth) /\ f.auth \in DOMAIN u.ns /\ Path(u, f.ret, f.q)
BY DEF Sound, Trusted

\* The flags of an mthread that is not where it was called.
LEMMA FlagsTop ==
  ASSUME Knowing, NEW w \in Workers, stack[w] # <<>>, Top(w).at \notin Calls
  PROVE  FlagsAt(stack[w], Len(stack[w]), me[w])
<1>1. Workmanlike
  BY DEF Knowing, Typed
<1> QED
  BY <1>1, AtTop, Zenon

LEMMA BareTop ==
  ASSUME Knowing, NEW w \in Workers, stack[w] # <<>>
  PROVE  /\ ~Following(stack[w], Len(stack[w])) => Top(w).ret = <<>>
         /\ Top(w).stop => ~Following(stack[w], Len(stack[w]))
<1>1. /\ Stacked(world, stack[w], me[w]) /\ Right(world, stack[w], me[w].q)
      /\ Top(w) = stack[w][Len(stack[w])]
  BY TopFrame, Zenon
<1>2. PICK s, m : s = stack[w] /\ m = me[w]
  OBVIOUS
<1>3. /\ ~Following(s, Len(s)) => s[Len(s)].ret = <<>>
      /\ s[Len(s)].stop => ~Following(s, Len(s))
  BY <1>1, <1>2, Bare, Zenon
<1> QED
  BY <1>1, <1>2, <1>3, Zenon

LEMMA Mine ==
  ASSUME Knowing, NEW w \in Workers
  PROVE  Workmanlike /\ Limited(me[w])
BY DEF Knowing, Typed, Workmanlike, Fine

LEMMA ContinueAlong ==
  ASSUME Knowing, NEW w \in Workers, stack[w] # <<>>, UNCHANGED <<world, me, out>>,
         NEW f, Continue(w, f), f.at \notin Calls, f.q = Top(w).q, f.ret = Top(w).ret,
         f.stop => Top(w).stop, Sound(world, f), Follows(f) => Follows(Top(w))
  PROVE  Rightly(w)
<1>1. MeBecomes(w, me[w])
  <2>1. Workmanlike
    BY Mine
  <2> QED
    BY <2>1, MeStays, Zenon
<1> QED
  BY <1>1, ContinueRight, Zenon

-----------------------------------------------------------------------------
(* The actions of a worker, one by one: who goes on about a name *)

LEMMA PlainlySound ==
  ASSUME NEW u, IsWorld(u), NEW f, Path(u, f.ret, f.q), NEW depth, NEW g, g = Plainly(f, depth)
  PROVE  /\ Sound(u, g) /\ g.at = "start" /\ g.q = f.q /\ g.ret = f.ret /\ ~g.stop /\ ~Follows(g)
         /\ g.at \notin Calls
<1>1. /\ g.at = "start" /\ g.q = f.q /\ g.ret = f.ret /\ ~g.stop /\ g.fn = "noQM"
      /\ g.auth = Root /\ g.left = {} /\ g.addrs = {}
  BY DEF Plainly, Frame
<1>2. Sound(u, g)
  BY <1>1, FreshSound, Zenon
<1> QED
  BY <1>1, <1>2 DEF Follows, Calls

LEMMA NoMinimizationRight ==
  ASSUME Knowing, NEW w \in Workers, NoMinimization(w)
  PROVE  Rightly(w)
<1>1. PICK f : f = Plainly(Top(w), Top(w).depth)
  OBVIOUS
<1>2. stack[w] # <<>> /\ Continue(w, f) /\ UNCHANGED <<world, me, out>>
  BY <1>1 DEF NoMinimization, Runs
<1>3. IsWorld(world) /\ Sound(world, Top(w))
  BY <1>2, TopFrame, Zenon
<1>4. Path(world, Top(w).ret, Top(w).q)
  BY <1>3, SoundAddrs, Zenon
<1>5. /\ Sound(world, f) /\ f.q = Top(w).q /\ f.ret = Top(w).ret /\ ~f.stop /\ ~Follows(f)
      /\ f.at \notin Calls
  <2>1. PICK t, depth : t = Top(w) /\ depth = Top(w).depth
    OBVIOUS
  <2>2. IsWorld(world) /\ Path(world, t.ret, t.q) /\ f = Plainly(t, depth)
    BY <1>1, <1>3, <1>4, <2>1, Zenon
  <2>3. /\ Sound(world, f) /\ f.q = t.q /\ f.ret = t.ret /\ ~f.stop /\ ~Follows(f)
        /\ f.at \notin Calls
    BY ONLY <2>2, PlainlySound
  <2> QED
    BY <2>1, <2>3, Zenon
<1> QED
  BY <1>2, <1>5, ContinueAlong, Zenon

LEMMA Step0Right ==
  ASSUME Knowing, NEW w \in Workers, Step0(w)
  PROVE  Rightly(w)
<1>1. PICK f : f = [Top(w) EXCEPT !.at = "peeked", !.old = me[w].cacheOnly]
  OBVIOUS
<1>2. PICK g : g = [Frame("noQM", Top(w).q, <<>>, Top(w).depth, Top(w).been) EXCEPT !.peek = TRUE]
  OBVIOUS
<1>3. /\ stack[w] # <<>> /\ Top(w).fn = "doResolve" /\ UNCHANGED <<world, out>>
      /\ me' = [me EXCEPT ![w].cacheOnly = TRUE]
  BY DEF Step0, Runs
<1>4. Call(w, f, g)
  BY <1>1, <1>2, Zenon DEF Step0
<1>5. /\ IsWorld(world) /\ Sound(world, Top(w)) /\ IsFrame(Top(w))
      /\ Follows(Top(w)) => Following(stack[w], Len(stack[w]))
  BY <1>3, TopFrame, Zenon
<1>6. Workmanlike /\ Limited(me[w])
  BY Mine
<1>7. PICK o : o = [me[w] EXCEPT !.cacheOnly = TRUE]
  OBVIOUS
<1>8. MeBecomes(w, o)
  BY <1>3, <1>6, <1>7 DEF MeBecomes, Workmanlike
<1>9. o.q = me[w].q
  BY <1>6, <1>7 DEF Limited, IsObject, NoOne, SyncRes
<1>10. /\ IsFrame(f) /\ f.at = "peeked" /\ f.q = Top(w).q /\ f.ret = Top(w).ret
       /\ f.stop = Top(w).stop /\ f.auth = Top(w).auth /\ f.left = Top(w).left
       /\ f.addrs = Top(w).addrs /\ f.at \in Calls
  BY <1>1, <1>5 DEF IsFrame, Frame, Calls
<1>11. Sound(world, f)
  <2>1. f.at \notin {"start", "wait", "answer"}
    BY <1>10
  <2> QED
    BY <1>5, <1>10, <2>1, StillSound, Zenon
<1>12. Following(stack[w], Len(stack[w]))
  BY <1>3, <1>5 DEF Follows
<1>13. /\ g.at = "start" /\ g.q = Top(w).q /\ g.ret = <<>> /\ ~g.stop /\ g.auth = Root
       /\ g.left = {} /\ g.addrs = {} /\ g.fn = "noQM"
  BY <1>2 DEF Frame
<1>14. Sound(world, g)
  <2>1. Path(world, g.ret, g.q)
    BY <1>13, NoPath
  <2> QED
    BY <1>5, <1>13, <2>1, FreshSound, Zenon
<1>15. Linked(world, f, g) /\ ~Follows(g)
  BY <1>10, <1>13 DEF Linked, Follows
<1> QED
  BY <1>3, <1>4, <1>8, <1>9, <1>10, <1>11, <1>12, <1>13, <1>14, <1>15, CallRight, Zenon

LEMMA Step1Right ==
  ASSUME Knowing, NEW w \in Workers, Step1(w)
  PROVE  Rightly(w)
<1>1. stack[w] # <<>> /\ Top(w).fn = "doResolve" /\ UNCHANGED <<world, me, out>>
  BY DEF Step1, Runs
<1>2. PICK zone : Continue(w, [Top(w) EXCEPT !.at = "child", !.child = zone])
  BY Zenon DEF Step1
<1>3. PICK f : f = [Top(w) EXCEPT !.at = "child", !.child = zone]
  OBVIOUS
<1>4. Sound(world, Top(w)) /\ IsFrame(Top(w))
  BY <1>1, TopFrame, Zenon
<1>5. /\ f.at = "child" /\ f.q = Top(w).q /\ f.ret = Top(w).ret /\ f.stop = Top(w).stop
      /\ f.auth = Top(w).auth /\ f.left = Top(w).left /\ f.addrs = Top(w).addrs
      /\ f.fn = Top(w).fn
  BY <1>3, <1>4 DEF IsFrame, Frame
<1>6. Sound(world, f)
  <2>1. f.at \notin {"start", "wait", "answer"}
    BY <1>5
  <2> QED
    BY <1>4, <1>5, <2>1, StillSound, Zenon
<1>7. f.at \notin Calls /\ Follows(Top(w))
  BY <1>1, <1>5 DEF Calls, Follows
<1> QED
  BY <1>1, <1>2, <1>3, <1>5, <1>6, <1>7, ContinueAlong, Zenon

\* Behind step 0: the answer of the cache goes behind what led to the name.
LEMMA PeekedRight ==
  ASSUME Knowing, NEW w \in Workers, Peeked(w)
  PROVE  Rightly(w)
<1>1. PICK f : f = [Top(w) EXCEPT !.at = "ancestor", !.been = Top(w).got.been, !.got = NoResult]
  OBVIOUS
<1>2. PICK o : o = [me[w] EXCEPT !.cacheOnly = Top(w).old]
  OBVIOUS
<1>3. /\ stack[w] # <<>> /\ Top(w).at = "peeked" /\ Top(w).fn = "doResolve" /\ UNCHANGED world
  BY DEF Peeked, Runs
<1>4. PICK t : t = Top(w)
  OBVIOUS
<1>5. PICK r : r = [t.got EXCEPT !.ret = t.ret \o @, !.from = FALSE]
  OBVIOUS
<1>6. \/ Return(w, r, o) /\ t.got.from
      \/ Continue(w, f) /\ me' = [me EXCEPT ![w] = o] /\ UNCHANGED out
  BY <1>1, <1>2, <1>4, <1>5, Zenon DEF Peeked
<1>7. /\ IsWorld(world) /\ Sound(world, t) /\ IsFrame(t) /\ t = stack[w][Len(stack[w])]
      /\ Paid(world, stack[w]) /\ (Follows(t) => Following(stack[w], Len(stack[w])))
  <2>1. Top(w).at \in Calls
    BY <1>3 DEF Calls
  <2> QED
    BY <1>3, <1>4, <2>1, TopFrame, Zenon
<1>8. Workmanlike /\ Limited(me[w])
  BY Mine
<1>9. o.q = me[w].q
  BY <1>2, <1>8 DEF Limited, IsObject, NoOne, SyncRes
<1>10. Following(stack[w], Len(stack[w]))
  BY <1>3, <1>4, <1>7 DEF Follows
<1>11. CASE Return(w, r, o) /\ t.got.from
  <2>1. IsResult(t.got)
    BY <1>7, Zenon DEF Paid
  <2>2. IsResult(r) /\ r.rcode = t.got.rcode /\ r.ret = t.ret \o t.got.ret /\ r.from = FALSE
    BY <1>5, <2>1 DEF IsResult, NoResult
  <2>3. Speaks(r, Looking(stack[w], Len(stack[w]))) => Speaks(t.got, TRUE)
    BY <1>11, <2>2, Zenon DEF Speaks
  <2>4. Speaks(t.got, TRUE) => Whole(world, t.q, t.got.rcode, t.got.ret)
    BY <1>3, <1>4, <1>7 DEF Paid
  <2>5. Path(world, t.ret, t.q)
    BY <1>7, SoundAddrs, Zenon
  <2>6. Speaks(t.got, TRUE) => Whole(world, Origin(t.ret, t.q), r.rcode, r.ret)
    BY <2>2, <2>4, <2>5, WholeFrom, Zenon
  <2>7. Owed(world, stack[w], r)
    BY <1>7, <1>10, <2>2, <2>3, <2>6, Zenon DEF Owed
  <2> QED
    BY <1>3, <1>9, <1>11, <2>7, ReturnRight, Zenon
<1>12. CASE Continue(w, f) /\ me' = [me EXCEPT ![w] = o] /\ UNCHANGED out
  <2>1. /\ f.at = "ancestor" /\ f.q = t.q /\ f.ret = t.ret /\ f.stop = t.stop
        /\ f.auth = t.auth /\ f.left = t.left /\ f.addrs = t.addrs
    BY <1>1, <1>4, <1>7 DEF IsFrame, Frame
  <2>2. Sound(world, f)
    <3>1. f.at \notin {"start", "wait", "answer"}
      BY <2>1
    <3> QED
      BY <1>7, <2>1, <3>1, StillSound, Zenon
  <2>3. f.at \notin Calls /\ Follows(t)
    BY <1>3, <1>4, <2>1 DEF Calls, Follows
  <2>4. MeBecomes(w, o)
    BY <1>8, <1>12, MeSet, Zenon
  <2> QED
    BY <1>3, <1>4, <1>9, <1>12, <2>1, <2>2, <2>3, <2>4, ContinueRight, Zenon
<1> QED
  BY <1>6, <1>11, <1>12

LEMMA ChildAskedRight ==
  ASSUME Knowing, NEW w \in Workers, ChildAsked(w)
  PROVE  Rightly(w)
<1>1. PICK t : t = Top(w)
  OBVIOUS
<1>2. PICK g : g = [t EXCEPT !.been = t.got.been, !.got = NoResult, !.i = @ + 1]
  OBVIOUS
<1>3. PICK a : a = [g EXCEPT !.at = IF t.got.stopped THEN "ancestor" ELSE "child"]
  OBVIOUS
<1>4. PICK depth : depth = t.depth + 1
  OBVIOUS
<1>5. PICK b : b = Plainly(g, depth)
  OBVIOUS
<1>6. PICK o : o = [me[w] EXCEPT !.follow = t.old]
  OBVIOUS
<1>7. PICK p : p = [o EXCEPT !.qm = FALSE, !.fallback = TRUE]
  OBVIOUS
<1>8. \/ Continue(w, a) /\ me' = [me EXCEPT ![w] = o]
      \/ Continue(w, b) /\ me' = [me EXCEPT ![w] = p]
  <2>1. CASE t.got.rcode # "NoError" /\ ~t.got.stopped
    <3>1. Continue(w, Plainly(g, t.depth + 1))
          /\ me' = [me EXCEPT ![w] = [o EXCEPT !.qm = FALSE, !.fallback = TRUE]]
      BY <1>1, <1>2, <1>6, <2>1, Zenon DEF ChildAsked
    <3> QED
      BY <1>4, <1>5, <1>7, <3>1, Zenon
  <2>2. CASE ~(t.got.rcode # "NoError" /\ ~t.got.stopped)
    <3>1. Continue(w, [g EXCEPT !.at = IF t.got.stopped THEN "ancestor" ELSE "child"])
          /\ me' = [me EXCEPT ![w] = o]
      BY <1>1, <1>2, <1>6, <2>2, Zenon DEF ChildAsked
    <3> QED
      BY <1>3, <3>1, Zenon
  <2> QED
    BY <2>1, <2>2
<1>9. stack[w] # <<>> /\ t.fn = "doResolve" /\ UNCHANGED <<world, out>>
  BY <1>1 DEF ChildAsked, Runs
<1>10. IsWorld(world) /\ Sound(world, t) /\ IsFrame(t)
  BY <1>1, <1>9, TopFrame, Zenon
<1>11. Workmanlike /\ Limited(me[w])
  BY Mine
<1>12. o.q = me[w].q /\ p.q = me[w].q
  BY <1>6, <1>7, <1>11 DEF Limited, IsObject, NoOne, SyncRes
<1>13. /\ IsFrame(g) /\ g.q = t.q /\ g.ret = t.ret /\ g.stop = t.stop /\ g.auth = t.auth
       /\ g.left = t.left /\ g.addrs = t.addrs
  BY <1>2, <1>10 DEF IsFrame, Frame
<1>14. Follows(t)
  BY <1>9 DEF Follows
<1>15. CASE Continue(w, a) /\ me' = [me EXCEPT ![w] = o]
  <2>1. PICK at : at = IF t.got.stopped THEN "ancestor" ELSE "child"
    OBVIOUS
  <2>2. /\ a.at = at /\ a.q = t.q /\ a.ret = t.ret /\ a.stop = t.stop
        /\ a.auth = t.auth /\ a.left = t.left /\ a.addrs = t.addrs
    BY <1>3, <1>13, <2>1 DEF IsFrame, Frame
  <2>3. at \in {"ancestor", "child"}
    BY <2>1
  <2>4. a.at \notin {"start", "wait", "answer"} /\ a.at \notin Calls
    BY <2>2, <2>3 DEF Calls
  <2>5. Sound(world, a)
    BY <1>10, <2>2, <2>4, StillSound, Zenon
  <2>6. MeBecomes(w, o)
    BY <1>11, <1>15, MeSet, Zenon
  <2> QED
    BY <1>1, <1>9, <1>12, <1>14, <1>15, <2>2, <2>4, <2>5, <2>6, ContinueRight, Zenon
<1>16. CASE Continue(w, b) /\ me' = [me EXCEPT ![w] = p]
  <2>1. Path(world, g.ret, g.q)
    BY <1>10, <1>13, SoundAddrs
  <2>2. /\ Sound(world, b) /\ b.q = g.q /\ b.ret = g.ret /\ ~b.stop /\ b.at \notin Calls
    BY ONLY <1>5, <1>10, <2>1, PlainlySound
  <2>3. MeBecomes(w, p)
    BY <1>11, <1>16, MeSet, Zenon
  <2> QED
    BY <1>1, <1>9, <1>12, <1>13, <1>14, <1>16, <2>2, <2>3, ContinueRight, Zenon
<1> QED
  BY <1>8, <1>15, <1>16

LEMMA Step34Right ==
  ASSUME Knowing, NEW w \in Workers, Step34(w)
  PROVE  Rightly(w)
<1>1. PICK t : t = Top(w)
  OBVIOUS
<1>2. PICK child : child = SubSeq(t.q, 1, StepLen(Len(t.child), Len(t.q), t.i))
  OBVIOUS
<1>3. PICK f : f = [t EXCEPT !.at = "childAsked", !.child = child, !.old = me[w].follow]
  OBVIOUS
<1>4. PICK g : g = [Frame("noQM", child, <<>>, t.depth, t.been) EXCEPT !.stop = TRUE]
  OBVIOUS
<1>5. PICK depth : depth = t.depth
  OBVIOUS
<1>6. PICK h : h = Plainly(t, depth)
  OBVIOUS
<1>7. PICK r : r = Result(t, "ServFail", t.ret)
  OBVIOUS
<1>8. \/ Return(w, r, me[w])
      \/ Continue(w, h) /\ UNCHANGED <<me, out>>
      \/ Call(w, f, g) /\ me' = [me EXCEPT ![w].follow = FALSE] /\ UNCHANGED out
  BY <1>1, <1>2, <1>3, <1>4, <1>5, <1>6, <1>7, Zenon DEF Step34
<1>9. stack[w] # <<>> /\ t.fn = "doResolve" /\ UNCHANGED world
  BY <1>1 DEF Step34, Runs
<1>10. /\ IsWorld(world) /\ Sound(world, t) /\ IsFrame(t)
       /\ Follows(t) => Following(stack[w], Len(stack[w]))
  BY <1>1, <1>9, TopFrame, Zenon
<1>11. CASE Return(w, r, me[w])
  <2>1. IsResult(r) /\ r.rcode \notin Told
    BY <1>7 DEF Result, IsResult, NoResult, Told
  <2>2. Owed(world, stack[w], r)
    BY <2>1, OwedFailure, Zenon
  <2> QED
    BY <1>9, <1>11, <2>2, ReturnRight, Zenon
<1>12. CASE Continue(w, h) /\ UNCHANGED <<me, out>>
  <2>1. Path(world, t.ret, t.q)
    BY <1>10, SoundAddrs, Zenon
  <2>2. /\ Sound(world, h) /\ h.q = t.q /\ h.ret = t.ret /\ ~h.stop /\ ~Follows(h)
        /\ h.at \notin Calls
    BY ONLY <1>6, <1>10, <2>1, PlainlySound
  <2> QED
    BY <1>1, <1>9, <1>12, <2>2, ContinueAlong, Zenon
<1>13. CASE Call(w, f, g) /\ me' = [me EXCEPT ![w].follow = FALSE] /\ UNCHANGED out
  <2>1. PICK o : o = [me[w] EXCEPT !.follow = FALSE]
    OBVIOUS
  <2>2. Workmanlike /\ Limited(me[w])
    BY Mine
  <2>3. MeBecomes(w, o)
    BY <1>13, <2>1, <2>2 DEF MeBecomes, Workmanlike
  <2>4. o.q = me[w].q
    BY <2>1, <2>2 DEF Limited, IsObject, NoOne, SyncRes
  <2>5. /\ IsFrame(f) /\ f.at = "childAsked" /\ f.q = t.q /\ f.ret = t.ret /\ f.stop = t.stop
        /\ f.auth = t.auth /\ f.left = t.left /\ f.addrs = t.addrs
    BY <1>3, <1>10 DEF IsFrame, Frame
  <2>6. f.at \notin {"start", "wait", "answer"} /\ f.at \in Calls
    BY <2>5 DEF Calls
  <2>7. Sound(world, f)
    BY <1>10, <2>5, <2>6, StillSound, Zenon
  <2>8. Following(stack[w], Len(stack[w]))
    BY <1>9, <1>10 DEF Follows
  <2>9. /\ g.at = "start" /\ g.q = child /\ g.ret = <<>> /\ g.auth = Root
        /\ g.left = {} /\ g.addrs = {} /\ g.fn = "noQM"
    BY <1>4 DEF Frame
  <2>10. Sound(world, g)
    <3>1. Path(world, g.ret, g.q)
      BY <2>9, NoPath
    <3> QED
      BY <1>10, <2>9, <3>1, FreshSound, Zenon
  <2>11. Linked(world, f, g) /\ ~Follows(g)
    BY <2>5, <2>9 DEF Linked, Follows
  <2> QED
    BY <1>1, <1>9, <1>13, <2>3, <2>4, <2>5, <2>6, <2>7, <2>8, <2>9, <2>10, <2>11, CallRight, Zenon
<1> QED
  BY <1>8, <1>11, <1>12, <1>13

-----------------------------------------------------------------------------
(* Aliases *)

\* What is cached as an alias is one.
LEMMA AliasKnown ==
  ASSUME Knowing, NEW q, <<q, "CNAME">> \in DOMAIN cache
  PROVE  Alias(world, q) /\ cache[<<q, "CNAME">>].val = world.data[q].val
<1>1. PICK k : k = <<q, "CNAME">>
  OBVIOUS
<1>2. EntryTrue(world, k[1], k[2], cache[k])
  BY <1>1, Zenon DEF Knowing, CachesTrue
<1>3. k[1] = q /\ k[2] = "CNAME"
  BY <1>1
<1>4. EntryTrue(world, q, "CNAME", cache[k])
  BY <1>2, <1>3, Zenon
<1> QED
  BY <1>1, <1>4, Zenon DEF EntryTrue

\* With its record there is nothing given, and it leads to its target.
LEMMA AliasOn ==
  ASSUME NEW u, NEW r, NEW q, Path(u, r, q), Alias(u, q), NEW target, target = u.data[q].val,
         NEW ret, ret = Append(r, Record(q, [type |-> "CNAME", val |-> target]))
  PROVE  /\ Given(ret) = {} /\ Path(u, ret, target)
         /\ ret = Append(r, Record(q, u.data[q]))
<1>1. PICK x : x = Record(q, u.data[q])
  OBVIOUS
<1>2. Record(q, [type |-> "CNAME", val |-> target]) = x /\ x.type # "A"
  BY <1>1 DEF Record, Alias
<1>3. ret = Append(r, x)
  BY <1>2
<1>4. Path(u, Append(r, x), u.data[q].val)
  BY <1>1, PathOn
<1>5. IsSeq(r) /\ Given(r) = {}
  BY PathGives
<1>6. Given(Append(r, x)) = {}
  BY <1>2, <1>5, AppendGives
<1> QED
  BY <1>1, <1>3, <1>4, <1>6

LEMMA BelowMine ==
  ASSUME Knowing, NEW w \in Workers, NEW q, NEW target
  PROVE  NoMinimizationBelow(w, q, target).q = me[w].q
<1>1. Limited(me[w])
  BY Mine
<1> QED
  BY <1>1 DEF NoMinimizationBelow, Limited, IsObject, NoOne, SyncRes

\* An alias is followed with the records that led to it and its own.
LEMMA FollowRight ==
  ASSUME Knowing, NEW w \in Workers, stack[w] # <<>>, UNCHANGED <<world, out>>,
         Following(stack[w], Len(stack[w])), Alias(world, Top(w).q),
         NEW f, IsFrame(f), f.at \in {"aliasFollowed", "targetResolved"}, f.q = Top(w).q,
         f.ret = Top(w).ret, f.stop = Top(w).stop, f.auth = Top(w).auth,
         f.left \subseteq Top(w).left, f.addrs \subseteq Top(w).addrs,
         NEW target, target = world.data[Top(w).q].val,
         NEW ret, ret = Append(Top(w).ret, Record(Top(w).q, [type |-> "CNAME", val |-> target])),
         NEW depth, NEW g, g = Frame("doResolve", target, ret, depth, {}),
         Call(w, f, g),
         NEW object, me' = [me EXCEPT ![w] = object], object.q = me[w].q
  PROVE  Rightly(w)
<1>1. PICK t : t = Top(w)
  OBVIOUS
<1>2. IsWorld(world) /\ Sound(world, t)
  BY <1>1, TopFrame, Zenon
<1>3. Path(world, t.ret, t.q) /\ t.addrs \subseteq Hosts(world, t.auth)
  BY <1>2, SoundAddrs, Zenon
<1>4. Path(world, ret, target) /\ ret = Append(t.ret, Record(t.q, world.data[t.q]))
  <2>1. /\ Alias(world, t.q) /\ target = world.data[t.q].val
        /\ ret = Append(t.ret, Record(t.q, [type |-> "CNAME", val |-> target]))
    BY <1>1, Zenon
  <2> QED
    BY ONLY <1>3, <2>1, AliasOn
<1>5. /\ f.at \notin {"start", "wait", "answer"} /\ f.at \in Calls
      /\ f.at \notin {"serverResolved", "childAsked"} /\ f.at # "peeked"
  BY DEF Calls
<1>6. Sound(world, f)
  <2>1. f.addrs \subseteq Hosts(world, t.auth)
    BY <1>1, <1>3
  <2> QED
    BY <1>1, <1>2, <1>5, <2>1, SoundElsewhere, Zenon
<1>7. /\ g.at = "start" /\ g.q = target /\ g.ret = ret /\ g.auth = Root
      /\ g.left = {} /\ g.addrs = {} /\ ~g.stop
  BY DEF Frame
<1>8. Sound(world, g)
  BY <1>2, <1>4, <1>7, FreshSound, Zenon
<1>9. Linked(world, f, g)
  <2>1. Alias(world, f.q) /\ g.q = world.data[f.q].val /\ g.ret = Append(f.ret, Record(f.q, world.data[f.q]))
    BY <1>1, <1>4, <1>7, Zenon
  <2>2. f.at # "serverResolved" /\ f.at # "peeked" /\ f.at \notin {"serverResolved", "childAsked"}
    BY <1>5
  <2> QED
    BY <1>7, <2>1, <2>2, Zenon DEF Linked
<1>10. MeBecomes(w, object)
  <2>1. Workmanlike
    BY Mine
  <2> QED
    BY <2>1, MeSet, Zenon
<1> QED
  BY <1>5, <1>6, <1>7, <1>8, <1>9, <1>10, CallRight, Zenon

LEMMA CachedAliasRight ==
  ASSUME Knowing, NEW w \in Workers, CachedAlias(w)
  PROVE  Rightly(w)
<1>1. PICK t : t = Top(w)
  OBVIOUS
<1>2. PICK target : target = cache[<<t.q, "CNAME">>].val
  OBVIOUS
<1>3. PICK ret : ret = Append(t.ret, Record(t.q, [type |-> "CNAME", val |-> target]))
  OBVIOUS
<1>4. PICK object : object = NoMinimizationBelow(w, t.q, target)
  OBVIOUS
<1>5. PICK f : f = [t EXCEPT !.at = "aliasFollowed"]
  OBVIOUS
<1>6. PICK depth : depth = t.depth + 1
  OBVIOUS
<1>7. PICK g : g = Frame("doResolve", target, ret, depth, {})
  OBVIOUS
<1>8. PICK r : r = Aliased(w, t, "NoError", ret)
  OBVIOUS
<1>9. \/ Throw(w)
      \/ ~me[w].follow /\ Return(w, r, object)
      \/ me[w].follow /\ Call(w, f, g) /\ me' = [me EXCEPT ![w] = object] /\ UNCHANGED out
  BY <1>1, <1>2, <1>3, <1>4, <1>5, <1>6, <1>7, <1>8, Zenon DEF CachedAlias
<1>10. /\ stack[w] # <<>> /\ t.at = "start" /\ UNCHANGED world
       /\ <<t.q, "CNAME">> \in DOMAIN cache
  BY <1>1 DEF CachedAlias, Starts, Runs, Has
<1>11. Sound(world, t) /\ IsFrame(t)
  BY <1>1, <1>10, TopFrame, Zenon
<1>12. me[w].follow = Following(stack[w], Len(stack[w]))
  <2>1. Top(w).at \notin Calls
    BY <1>1, <1>10 DEF Calls
  <2> QED
    BY <1>10, <2>1, FlagsTop, Zenon DEF FlagsAt
<1>13. Alias(world, t.q) /\ target = world.data[t.q].val
  BY <1>2, <1>10, AliasKnown, Zenon
<1>14. object.q = me[w].q
  BY <1>4, BelowMine, Zenon
<1>15. CASE Throw(w)
  BY <1>10, <1>15, ThrowRight, Zenon
<1>16. CASE ~me[w].follow /\ Return(w, r, object)
  <2>1. Path(world, t.ret, t.q)
    BY <1>11, SoundAddrs, Zenon
  <2>2. Given(ret) = {}
    BY ONLY <1>3, <1>13, <2>1, AliasOn
  <2>3. IsResult(r) /\ r.ret = ret
    BY <1>8 DEF Aliased, Result, IsResult, NoResult
  <2>4. Owed(world, stack[w], r)
    BY <1>12, <1>16, <2>2, <2>3, OwedQuiet, Zenon
  <2> QED
    BY <1>10, <1>14, <1>16, <2>4, ReturnRight, Zenon
<1>17. CASE me[w].follow /\ Call(w, f, g) /\ me' = [me EXCEPT ![w] = object] /\ UNCHANGED out
  <2>1. /\ IsFrame(f) /\ f.at = "aliasFollowed" /\ f.q = t.q /\ f.ret = t.ret /\ f.stop = t.stop
        /\ f.auth = t.auth /\ f.left = t.left /\ f.addrs = t.addrs
    BY <1>5, <1>11 DEF IsFrame, Frame
  <2>2. /\ f.at \in {"aliasFollowed", "targetResolved"} /\ f.left \subseteq t.left
        /\ f.addrs \subseteq t.addrs
    BY <2>1
  <2>3. Following(stack[w], Len(stack[w])) /\ UNCHANGED <<world, out>>
    BY <1>10, <1>12, <1>17
  <2> QED
    BY <1>1, <1>3, <1>7, <1>10, <1>13, <1>14, <1>17, <2>1, <2>2, <2>3, FollowRight, Zenon
<1> QED
  BY <1>9, <1>15, <1>16, <1>17

\* The target's answer is that of the alias; of a peek, only when there is no more to ask
\* the caches for or it ends in an address.
LEMMA TargetRight ==
  ASSUME Knowing, NEW w \in Workers, AliasFollowed(w) \/ TargetResolved(w)
  PROVE  Rightly(w)
<1>1. PICK t : t = Top(w)
  OBVIOUS
<1>2. /\ stack[w] # <<>> /\ t.at \in {"aliasFollowed", "targetResolved"} /\ UNCHANGED world
  BY <1>1 DEF AliasFollowed, TargetResolved, Runs
<1>3. t.at \in Calls /\ t.at \notin Looks /\ Follows(t)
  BY <1>2 DEF Calls, Looks, Follows
<1>4. /\ t = stack[w][Len(stack[w])] /\ Paid(world, stack[w])
      /\ Following(stack[w], Len(stack[w]))
  BY <1>1, <1>2, <1>3, TopFrame, Zenon
<1>5. me[w].cacheOnly = Looking(stack[w], Len(stack[w]))
  <2>1. FlagsBack(stack[w], Len(stack[w]), me[w])
    BY <1>1, <1>2, <1>3, Mine, AtCall, Zenon
  <2> QED
    BY <1>3, <1>4, <2>1, Zenon DEF FlagsBack
<1>6. PICK a, b : a = Aliased(w, t, t.got.rcode, t.got.ret) /\ b = Result(t, t.got.rcode, t.got.ret)
  OBVIOUS
<1>7. Return(w, a, me[w]) \/ Return(w, b, me[w])
  BY <1>1, <1>6, Zenon DEF AliasFollowed, TargetResolved
<1>8. /\ IsResult(a) /\ a.rcode = t.got.rcode /\ a.ret = t.got.ret
      /\ a.from => ~me[w].cacheOnly \/ HaveFinalAnswer(t.q, t.got.rcode, t.got.ret)
      /\ IsResult(b) /\ b.rcode = t.got.rcode /\ b.ret = t.got.ret /\ ~b.from
  BY <1>6 DEF Aliased, Result, IsResult, NoResult
<1>9. HaveFinalAnswer(t.q, t.got.rcode, t.got.ret) => Given(t.got.ret) # {}
  <2>1. ASSUME HaveFinalAnswer(t.q, t.got.rcode, t.got.ret)
        PROVE  \E i \in DOMAIN t.got.ret : t.got.ret[i].type = "A"
    BY <2>1, Zenon DEF HaveFinalAnswer
  <2> QED
    BY <2>1 DEF Given
<1>10. Speaks(t.got, Looking(stack[w], Len(stack[w]))) =>
         Whole(world, Origin(t.ret, t.q), t.got.rcode, t.got.ret)
  BY <1>2, <1>4, Zenon DEF Paid
<1>11. ASSUME NEW r \in {a, b}, Speaks(r, Looking(stack[w], Len(stack[w])))
       PROVE  Speaks(t.got, Looking(stack[w], Len(stack[w])))
  BY <1>5, <1>8, <1>9, <1>11, Zenon DEF Speaks
<1>12. ASSUME NEW r \in {a, b}
       PROVE  Owed(world, stack[w], r)
  <2>1. IsResult(r) /\ r.rcode = t.got.rcode /\ r.ret = t.got.ret
    BY <1>8
  <2> QED
    BY <1>4, <1>10, <1>11, <2>1, Zenon DEF Owed
<1> QED
  BY <1>2, <1>7, <1>12, ReturnRight, Zenon

-----------------------------------------------------------------------------
(* The caches *)

\* Where addresses are only good with authority, what is taken from the cache is what the
\* name has.
LEMMA AddressKnown ==
  ASSUME Knowing, NEW q, <<q, "A">> \in DOMAIN cache, NEW e, e = cache[<<q, "A">>]
  PROVE  /\ e.val \in Addresses(world, q)
         /\ e.auth => /\ q \in DOMAIN world.data /\ world.data[q].type = "A"
                      /\ e.val = world.data[q].val
<1>1. PICK k : k = <<q, "A">>
  OBVIOUS
<1>2. EntryTrue(world, k[1], k[2], cache[k])
  BY <1>1, Zenon DEF Knowing, CachesTrue
<1>3. k[1] = q /\ k[2] = "A"
  BY <1>1
<1>4. EntryTrue(world, q, "A", e)
  BY <1>1, <1>2, <1>3, Zenon
<1> QED
  BY <1>4, Zenon DEF EntryTrue

LEMMA ServersKnown ==
  ASSUME Knowing, NEW zone, Usable(zone) # {}
  PROVE  zone \in DOMAIN world.ns /\ Usable(zone) \subseteq world.ns[zone] \cup world.own[zone]
<1>1. Usable(zone) \subseteq NSOf(zone)
  BY DEF Usable
<1>2. PICK k : k = <<zone, "NS">>
  OBVIOUS
<1>3. k \in DOMAIN cache /\ NSOf(zone) = cache[k].val
  BY <1>1, <1>2 DEF NSOf
<1>4. EntryTrue(world, k[1], k[2], cache[k])
  BY <1>3, Zenon DEF Knowing, CachesTrue
<1>5. k[1] = zone /\ k[2] = "NS"
  BY <1>2
<1>6. EntryTrue(world, zone, "NS", cache[k])
  BY <1>4, <1>5, Zenon
<1>7. zone \in DOMAIN world.ns /\ cache[k].val \subseteq world.ns[zone] \cup world.own[zone]
  BY <1>6, Zenon DEF EntryTrue
<1> QED
  BY <1>1, <1>3, <1>7

LEMMA FollowingTrusts ==
  ASSUME NEW s, NEW i, Following(s, i)
  PROVE  Trusting(s, i)
BY DEF Following, Trusting

LEMMA CacheHitRight ==
  ASSUME Knowing, NEW w \in Workers, CacheHit(w)
  PROVE  Rightly(w)
<1>1. PICK t : t = Top(w)
  OBVIOUS
<1>2. PICK e : e = cache[<<t.q, "A">>]
  OBVIOUS
<1>3. PICK x : x = Record(t.q, [type |-> "A", val |-> e.val])
  OBVIOUS
<1>4. PICK a : a = [Result(t, IF neg[t.q] = "NX" THEN "NXDomain" ELSE "NoError", t.ret)
                      EXCEPT !.from = t.peek]
  OBVIOUS
<1>5. PICK b : b = [Result(t, "NoError", Append(t.ret, x)) EXCEPT !.from = t.peek]
  OBVIOUS
<1>6. \/ t.q \in DOMAIN neg /\ Return(w, a, me[w])
      \/ Has(w, t.q, "A") /\ Return(w, b, me[w])
  BY <1>1, <1>2, <1>3, <1>4, <1>5, Zenon DEF CacheHit
<1>7. stack[w] # <<>> /\ t.at = "start" /\ UNCHANGED world
  BY <1>1 DEF CacheHit, Starts, Runs
<1>8. Sound(world, t) /\ t = stack[w][Len(stack[w])]
  BY <1>1, <1>7, TopFrame, Zenon
<1>9. Path(world, t.ret, t.q)
  BY <1>8, SoundAddrs, Zenon
<1>10. me[w].requireAuth = Trusting(stack[w], Len(stack[w]))
  <2>1. Top(w).at \notin Calls
    BY <1>1, <1>7 DEF Calls
  <2> QED
    BY <1>7, <2>1, FlagsTop, Zenon DEF FlagsAt
<1>11. CASE t.q \in DOMAIN neg /\ Return(w, a, me[w])
  <2>1. /\ IsResult(a) /\ a.ret = t.ret
        /\ a.rcode = IF neg[t.q] = "NX" THEN "NXDomain" ELSE "NoError"
    BY <1>4 DEF Result, IsResult, NoResult
  <2>2. t.q \notin DOMAIN world.data /\ At(world, t.q).type = neg[t.q]
    BY <1>11, Zenon DEF Knowing, CachesTrue
  <2>3. a.rcode = IF At(world, t.q).type = "NX" THEN "NXDomain" ELSE "NoError"
    BY <2>1, <2>2
  <2>4. Owed(world, stack[w], a)
    BY <1>8, <1>9, <2>1, <2>2, <2>3, OwedDenial, Zenon
  <2> QED
    BY <1>7, <1>11, <2>4, ReturnRight, Zenon
<1>12. CASE Has(w, t.q, "A") /\ Return(w, b, me[w])
  <2>1. IsResult(b) /\ b.ret = Append(t.ret, x) /\ b.rcode = "NoError"
    BY <1>5 DEF Result, IsResult, NoResult
  <2>2. <<t.q, "A">> \in DOMAIN cache /\ (me[w].requireAuth => e.auth)
    BY <1>2, <1>12, Zenon DEF Has
  <2>3. /\ e.val \in Addresses(world, t.q)
        /\ e.auth => /\ t.q \in DOMAIN world.data /\ world.data[t.q].type = "A"
                     /\ e.val = world.data[t.q].val
    BY <1>2, <2>2, AddressKnown, Zenon
  <2>4. ASSUME e.auth
        PROVE  Owed(world, stack[w], b)
    <3>1. x = Record(t.q, world.data[t.q])
      BY <1>3, <2>3, <2>4 DEF Record
    <3>2. b.ret = Append(t.ret, Record(t.q, world.data[t.q]))
      BY <2>1, <3>1
    <3> QED
      BY <1>8, <1>9, <2>1, <2>3, <2>4, <3>2, OwedAddress, Zenon
  <2>5. ASSUME ~e.auth
        PROVE  Owed(world, stack[w], b)
    <3>1. ~Following(stack[w], Len(stack[w]))
      BY <1>10, <2>2, <2>5, FollowingTrusts, Zenon
    <3>2. IsSeq(t.ret) /\ Given(t.ret) = {}
      BY <1>9, PathGives
    <3>3. Given(b.ret) \subseteq {x.val}
      BY <2>1, <3>2, AppendGives
    <3>4. Given(b.ret) \subseteq Addresses(world, t.q)
      BY <1>3, <2>3, <3>3 DEF Record
    <3> QED
      BY <1>8, <2>1, <3>1, <3>4, Zenon DEF Owed
  <2>6. Owed(world, stack[w], b)
    BY <2>4, <2>5
  <2> QED
    BY <1>7, <1>12, <2>6, ReturnRight, Zenon
<1> QED
  BY <1>6, <1>11, <1>12

LEMMA NotCachedRight ==
  ASSUME Knowing, NEW w \in Workers, NotCached(w)
  PROVE  Rightly(w)
<1>1. PICK t : t = Top(w)
  OBVIOUS
<1>2. PICK r : r = Result(t, "NoError", t.ret)
  OBVIOUS
<1>3. /\ stack[w] # <<>> /\ t.at = "start" /\ UNCHANGED world /\ me[w].cacheOnly
      /\ Return(w, r, me[w])
  BY <1>1, <1>2 DEF NotCached, Unknown, Starts, Runs
<1>4. Looking(stack[w], Len(stack[w]))
  <2>1. Top(w).at \notin Calls
    BY <1>1, <1>3 DEF Calls
  <2> QED
    BY <1>3, <2>1, FlagsTop, Zenon DEF FlagsAt
<1>5. IsResult(r) /\ r.ret = t.ret /\ ~r.from
  BY <1>2 DEF Result, IsResult, NoResult
<1>6. Given(r.ret) = {}
  <2>1. Sound(world, t)
    BY <1>1, <1>3, TopFrame, Zenon
  <2>2. Path(world, t.ret, t.q)
    BY <2>1, SoundAddrs, Zenon
  <2> QED
    BY <1>5, <2>2, PathGives
<1>7. Owed(world, stack[w], r)
  BY <1>4, <1>5, <1>6, OwedQuiet, Zenon
<1> QED
  BY <1>3, <1>7, ReturnRight, Zenon

LEMMA RefuseDepthRight ==
  ASSUME Knowing, NEW w \in Workers, RefuseDepth(w)
  PROVE  Rightly(w)
BY ThrowRight DEF RefuseDepth

\* Where to go from the cache: a zone and servers of it.
LEMMA LevelSound ==
  ASSUME NEW u, NEW f, IsFrame(f), Sound(u, f), NEW zone \in DOMAIN u.ns,
         NEW servers, servers \subseteq u.ns[zone] \cup u.own[zone],
         NEW g, g.at = "next", g.auth = zone, g.left = servers, g.addrs = {}, g.q = f.q,
         g.ret = f.ret
  PROVE  Sound(u, g)
BY DEF Sound, Trusted

LEMMA LevelFields ==
  ASSUME NEW f, IsFrame(f), NEW zone, NEW servers, NEW g, g = Level(f, zone, servers)
  PROVE  /\ IsFrame(g) /\ g.at = "next" /\ g.auth = zone /\ g.left = servers /\ g.addrs = f.addrs
         /\ g.q = f.q /\ g.ret = f.ret /\ g.stop = f.stop /\ g.fn = f.fn
BY DEF Level, IsFrame, Frame

LEMMA GoOutRight ==
  ASSUME Knowing, NEW w \in Workers, GoOut(w) \/ NowhereToGo(w)
  PROVE  Rightly(w)
<1>1. PICK t : t = Top(w)
  OBVIOUS
<1>2. /\ stack[w] # <<>> /\ t.at = "start" /\ t.fn = "noQM" /\ UNCHANGED <<world, me, out>>
  BY <1>1 DEF GoOut, NowhereToGo, Unknown, Starts, Runs
<1>3. IsWorld(world) /\ Sound(world, t) /\ IsFrame(t)
  BY <1>1, <1>2, TopFrame, Zenon
<1>4. t.addrs = {}
  BY <1>2, <1>3, Zenon DEF Sound
<1>5. \E g : /\ Continue(w, g) /\ g.at = "next" /\ g.q = t.q /\ g.ret = t.ret
             /\ g.stop = t.stop /\ g.fn = t.fn /\ Sound(world, g)
  <2>1. CASE GoOut(w)
    <3>1. PICK tried, b : \E zone \in Best(tried, t.been) :
            Continue(w, [Level(t, zone, Usable(zone)) EXCEPT !.been = b \cup {BestNSAnswer(tried, zone)}])
      <4>1. PICK tried : tried = IF Best(t.q, t.been) # {} THEN t.q ELSE Root
        OBVIOUS
      <4>2. PICK zone \in Best(tried, t.been) :
              Continue(w, [Level(t, zone, Usable(zone)) EXCEPT !.been = @ \cup {BestNSAnswer(tried, zone)}])
        BY <1>1, <2>1, <4>1, Zenon DEF GoOut
      <4>3. PICK l : l = Level(t, zone, Usable(zone))
        OBVIOUS
      <4>4. Continue(w, [l EXCEPT !.been = l.been \cup {BestNSAnswer(tried, zone)}])
        BY <4>2, <4>3, Zenon
      <4> QED
        BY <4>3, <4>4, Zenon
    <3>2. PICK zone \in Best(tried, t.been) :
            Continue(w, [Level(t, zone, Usable(zone)) EXCEPT !.been = b \cup {BestNSAnswer(tried, zone)}])
      BY <3>1
    <3>3. Usable(zone) # {}
      BY DEF Best, Candidates
    <3>4. zone \in DOMAIN world.ns /\ Usable(zone) \subseteq world.ns[zone] \cup world.own[zone]
      BY <3>3, ServersKnown
    <3>5. PICK servers : servers = Usable(zone)
      OBVIOUS
    <3>6. PICK l : l = Level(t, zone, servers)
      OBVIOUS
    <3>7. /\ IsFrame(l) /\ l.at = "next" /\ l.auth = zone /\ l.left = servers
          /\ l.addrs = t.addrs /\ l.q = t.q /\ l.ret = t.ret /\ l.stop = t.stop /\ l.fn = t.fn
      BY ONLY <1>3, <3>6, LevelFields
    <3>8. PICK c : c = b \cup {BestNSAnswer(tried, zone)}
      OBVIOUS
    <3>9. PICK g : g = [l EXCEPT !.been = c]
      OBVIOUS
    <3>10. /\ g.at = "next" /\ g.auth = zone /\ g.left = servers
           /\ g.addrs = {} /\ g.q = t.q /\ g.ret = t.ret /\ g.stop = t.stop /\ g.fn = t.fn
      BY <1>4, <3>7, <3>9 DEF IsFrame, Frame
    <3>11. Sound(world, g)
      BY <1>3, <3>4, <3>5, <3>10, LevelSound, Zenon
    <3>12. Continue(w, g)
      BY <3>2, <3>5, <3>6, <3>8, <3>9, Zenon
    <3> QED
      BY <3>10, <3>11, <3>12, Zenon
  <2>2. CASE NowhereToGo(w)
    <3>1. PICK g : g = Level(t, Root, {})
      OBVIOUS
    <3>2. Continue(w, g)
      BY <1>1, <2>2, <3>1, Zenon DEF NowhereToGo
    <3>3. /\ g.at = "next" /\ g.auth = Root /\ g.left = {} /\ g.addrs = {}
          /\ g.q = t.q /\ g.ret = t.ret /\ g.stop = t.stop /\ g.fn = t.fn
      <4>1. /\ g.at = "next" /\ g.auth = Root /\ g.left = {} /\ g.addrs = t.addrs
            /\ g.q = t.q /\ g.ret = t.ret /\ g.stop = t.stop /\ g.fn = t.fn
        BY ONLY <1>3, <3>1, LevelFields
      <4> QED
        BY <1>4, <4>1
    <3>4. Root \in DOMAIN world.ns /\ {} \subseteq world.ns[Root] \cup world.own[Root]
      BY <1>3 DEF IsWorld
    <3>5. Sound(world, g)
      BY <1>3, <3>3, <3>4, LevelSound, Zenon
    <3> QED
      BY <3>2, <3>3, <3>5, Zenon
  <2> QED
    BY <2>1, <2>2
<1>6. PICK g : /\ Continue(w, g) /\ g.at = "next" /\ g.q = t.q /\ g.ret = t.ret
               /\ g.stop = t.stop /\ g.fn = t.fn /\ Sound(world, g)
  BY <1>5
<1>7. g.at \notin Calls /\ ~Follows(g)
  BY <1>2, <1>6 DEF Calls, Follows
<1> QED
  BY <1>1, <1>2, <1>6, <1>7, ContinueAlong, Zenon

-----------------------------------------------------------------------------
(* The servers and their addresses *)

LEMMA FailureRight ==
  ASSUME Knowing, NEW w \in Workers, stack[w] # <<>>, UNCHANGED world, NEW f, NEW ret,
         NEW object, Return(w, Result(f, "ServFail", ret), object), object.q = me[w].q
  PROVE  Rightly(w)
<1>1. PICK r : r = Result(f, "ServFail", ret)
  OBVIOUS
<1>2. IsResult(r) /\ r.rcode \notin Told
  BY <1>1 DEF Result, IsResult, NoResult, Told
<1>3. Owed(world, stack[w], r)
  BY <1>2, OwedFailure, Zenon
<1> QED
  BY <1>1, <1>3, ReturnRight, Zenon

LEMMA NoMoreServersRight ==
  ASSUME Knowing, NEW w \in Workers, NoMoreServers(w)
  PROVE  Rightly(w)
<1>1. stack[w] # <<>> /\ UNCHANGED world
  BY DEF NoMoreServers, Runs
<1>2. Throw(w) \/ Return(w, Result(Top(w), "ServFail", Top(w).ret), me[w])
  BY Zenon DEF NoMoreServers
<1> QED
  BY <1>1, <1>2, ThrowRight, FailureRight, Zenon

LEMMA TryServerRight ==
  ASSUME Knowing, NEW w \in Workers, NEW ns, TryServer(w, ns)
  PROVE  Rightly(w)
<1>1. PICK t : t = Top(w)
  OBVIOUS
<1>2. PICK e : e = [t EXCEPT !.left = @ \ {ns}]
  OBVIOUS
<1>3. PICK saved : saved = [cacheOnly |-> me[w].cacheOnly, requireAuth |-> me[w].requireAuth,
                            follow |-> me[w].follow]
  OBVIOUS
<1>4. PICK addr : addr = cache[<<ns, "A">>].val
  OBVIOUS
<1>5. PICK a : a = [e EXCEPT !.at = "ask", !.addrs = {addr}]
  OBVIOUS
<1>6. PICK f : f = [e EXCEPT !.at = "serverResolved", !.sent = me[w].sent, !.saved = saved]
  OBVIOUS
<1>7. PICK g : g = Frame("noQM", ns, <<>>, t.depth + 1, t.been)
  OBVIOUS
<1>8. \/ Continue(w, a) /\ UNCHANGED me /\ <<ns, "A">> \in DOMAIN cache
      \/ /\ Call(w, f, g)
         /\ me' = [me EXCEPT ![w].cacheOnly = (ns = t.q), ![w].requireAuth = FALSE,
                             ![w].follow = FALSE]
  <2>1. CASE <<ns, "A">> \in DOMAIN cache
    BY <1>1, <1>2, <1>4, <1>5, <2>1, Zenon DEF TryServer
  <2>2. CASE <<ns, "A">> \notin DOMAIN cache
    <3>1. Call(w, [e EXCEPT !.at = "serverResolved", !.sent = me[w].sent,
                            !.saved = [cacheOnly   |-> me[w].cacheOnly,
                                       requireAuth |-> me[w].requireAuth,
                                       follow      |-> me[w].follow]],
                  Frame("noQM", ns, <<>>, t.depth + 1, t.been))
      BY <1>1, <1>2, <2>2, Zenon DEF TryServer
    <3>2. me' = [me EXCEPT ![w].cacheOnly = (ns = t.q), ![w].requireAuth = FALSE,
                           ![w].follow = FALSE]
      BY <1>1, <2>2, Zenon DEF TryServer
    <3> QED
      BY <1>3, <1>6, <1>7, <3>1, <3>2, Zenon
  <2> QED
    BY <2>1, <2>2
<1>9. /\ stack[w] # <<>> /\ t.fn = "noQM" /\ t.at = "next" /\ ns \in t.left
      /\ UNCHANGED <<world, out>>
  BY <1>1 DEF TryServer, Runs
<1>10. IsWorld(world) /\ Sound(world, t) /\ IsFrame(t)
  BY <1>1, <1>9, TopFrame, Zenon
<1>11. ns \in world.ns[t.auth] \cup world.own[t.auth]
  BY <1>9, <1>10 DEF Sound
<1>12. /\ IsFrame(e) /\ e.q = t.q /\ e.ret = t.ret /\ e.stop = t.stop /\ e.fn = t.fn
       /\ e.auth = t.auth /\ e.left \subseteq t.left /\ e.addrs = t.addrs
  BY <1>2, <1>10 DEF IsFrame, Frame
<1>13. CASE Continue(w, a) /\ UNCHANGED me /\ <<ns, "A">> \in DOMAIN cache
  <2>1. /\ a.at = "ask" /\ a.addrs = {addr} /\ a.q = t.q /\ a.ret = t.ret /\ a.stop = t.stop
        /\ a.fn = t.fn /\ a.auth = t.auth /\ a.left \subseteq t.left
    BY <1>5, <1>12 DEF IsFrame, Frame
  <2>2. addr \in Addresses(world, ns)
    BY <1>4, <1>13, AddressKnown, Zenon
  <2>3. a.addrs \subseteq Hosts(world, t.auth)
    BY <1>11, <2>1, <2>2 DEF Hosts
  <2>4. a.at \notin {"start", "wait", "answer"} /\ a.at \notin Calls /\ ~Follows(a)
    BY <1>9, <2>1 DEF Calls, Follows
  <2>5. Sound(world, a)
    BY <1>10, <2>1, <2>3, <2>4, SoundElsewhere, Zenon
  <2> QED
    BY <1>1, <1>9, <1>13, <2>1, <2>4, <2>5, ContinueAlong, Zenon
<1>14. CASE /\ Call(w, f, g)
            /\ me' = [me EXCEPT ![w].cacheOnly = (ns = t.q), ![w].requireAuth = FALSE,
                                ![w].follow = FALSE]
  <2>1. PICK B \in BOOLEAN : B = (ns = t.q)
    OBVIOUS
  <2>2. PICK o : o = [me[w] EXCEPT !.cacheOnly = B, !.requireAuth = FALSE, !.follow = FALSE]
    OBVIOUS
  <2>3. Workmanlike /\ Limited(me[w])
    BY Mine
  <2>4. MeBecomes(w, o)
    <3>1. me' = [me EXCEPT ![w].cacheOnly = B, ![w].requireAuth = FALSE, ![w].follow = FALSE]
      BY <1>14, <2>1, Zenon
    <3> QED
      BY <2>2, <2>3, <3>1 DEF MeBecomes, Workmanlike
  <2>5. o.q = me[w].q
    BY <2>2, <2>3 DEF Limited, IsObject, NoOne, SyncRes
  <2>6. /\ IsFrame(f) /\ f.at = "serverResolved" /\ f.q = t.q /\ f.ret = t.ret /\ f.stop = t.stop
        /\ f.fn = t.fn /\ f.auth = t.auth /\ f.left \subseteq t.left /\ f.addrs = t.addrs
    BY <1>6, <1>12 DEF IsFrame, Frame
  <2>7. f.at \notin {"start", "wait", "answer"} /\ f.at \in Calls /\ ~Follows(f)
    BY <1>9, <2>6 DEF Calls, Follows
  <2>8. Sound(world, f)
    <3>1. f.addrs \subseteq Hosts(world, t.auth)
      BY <1>10, <2>6, SoundAddrs
    <3> QED
      BY <1>10, <2>6, <2>7, <3>1, SoundElsewhere, Zenon
  <2>9. /\ g.at = "start" /\ g.q = ns /\ g.ret = <<>> /\ g.auth = Root
        /\ g.left = {} /\ g.addrs = {} /\ g.fn = "noQM" /\ ~g.stop
    BY <1>7 DEF Frame
  <2>10. Sound(world, g)
    <3>1. Path(world, g.ret, g.q)
      BY <2>9, NoPath
    <3> QED
      BY <1>10, <2>9, <3>1, FreshSound, Zenon
  <2>11. Linked(world, f, g) /\ ~Follows(g)
    BY <1>11, <2>6, <2>9 DEF Linked, Follows
  <2> QED
    BY <1>1, <1>9, <1>14, <2>4, <2>5, <2>6, <2>7, <2>8, <2>9, <2>10, <2>11, CallRight, Zenon
<1> QED
  BY <1>8, <1>13, <1>14

LEMMA ServerResolvedRight ==
  ASSUME Knowing, NEW w \in Workers, ServerResolved(w)
  PROVE  Rightly(w)
<1>1. PICK t : t = Top(w)
  OBVIOUS
<1>2. /\ stack[w] # <<>> /\ t.fn = "noQM" /\ t.at = "serverResolved" /\ UNCHANGED <<world, out>>
      /\ me' = [me EXCEPT ![w] = Restored(@, t.saved)]
  BY <1>1 DEF ServerResolved, Runs
<1>3. PICK addrs : addrs = IF t.got.rcode = "NoError" THEN Given(t.got.ret) ELSE {}
  OBVIOUS
<1>4. PICK empties :
        Continue(w, [t EXCEPT !.at = IF addrs = {} THEN "next" ELSE "ask",
                              !.addrs = addrs, !.been = t.got.been, !.got = NoResult,
                              !.empties = empties, !.saved = NoFlags, !.sent = 0])
  <2> DEFINE got == IF Top(w).got.rcode = "NoError"
                    THEN {Top(w).got.ret[i].val :
                            i \in {j \in DOMAIN Top(w).got.ret : Top(w).got.ret[j].type = "A"}}
                    ELSE {}
             cost == IF got = {} /\ me[w].sent > Top(w).sent
                     THEN Top(w).empties + 1 ELSE Top(w).empties
  <2>1. Continue(w, [Top(w) EXCEPT !.at = IF got = {} THEN "next" ELSE "ask",
                                   !.addrs = got, !.been = Top(w).got.been, !.got = NoResult,
                                   !.empties = cost, !.saved = NoFlags, !.sent = 0])
    BY Zenon DEF ServerResolved
  <2>2. got = addrs
    BY <1>1, <1>3, Zenon DEF Given
  <2> HIDE DEF got, cost
  <2> QED
    BY <1>1, <2>1, <2>2, Zenon
<1>5. PICK at : at = IF addrs = {} THEN "next" ELSE "ask"
  OBVIOUS
<1>6. PICK f : f = [t EXCEPT !.at = at,
                             !.addrs = addrs, !.been = t.got.been, !.got = NoResult,
                             !.empties = empties, !.saved = NoFlags, !.sent = 0]
  OBVIOUS
<1>7. Continue(w, f)
  BY <1>4, <1>5, <1>6, Zenon
<1>8. Sound(world, t) /\ IsFrame(t) /\ Paid(world, stack[w]) /\ t = stack[w][Len(stack[w])]
  <2>1. Top(w).at \in Calls
    BY <1>1, <1>2 DEF Calls
  <2> QED
    BY <1>1, <1>2, <2>1, TopFrame, Zenon
<1>9. /\ f.at = at /\ f.addrs = addrs /\ f.q = t.q /\ f.ret = t.ret /\ f.stop = t.stop
      /\ f.fn = t.fn /\ f.auth = t.auth /\ f.left = t.left
  BY <1>6, <1>8 DEF IsFrame, Frame
<1>10. addrs \subseteq Hosts(world, t.auth)
  <2>1. t.got.rcode = "NoError" => Given(t.got.ret) \subseteq Hosts(world, t.auth)
    BY <1>2, <1>8, Zenon DEF Paid
  <2> QED
    BY <1>3, <2>1
<1>11. at \in {"next", "ask"}
  BY <1>5
<1>12. f.at \notin {"start", "wait", "answer"} /\ f.at \notin Calls /\ ~Follows(f)
  BY <1>2, <1>9, <1>11 DEF Calls, Follows
<1>13. Sound(world, f)
  <2>1. f.left \subseteq t.left
    BY <1>9
  <2> QED
    BY <1>8, <1>9, <1>10, <1>12, <2>1, SoundElsewhere, Zenon
<1>14. Workmanlike /\ Limited(me[w])
  BY Mine
<1>15. PICK o : o = Restored(me[w], t.saved)
  OBVIOUS
<1>16. MeBecomes(w, o)
  BY <1>2, <1>14, <1>15 DEF MeBecomes, Workmanlike
<1>17. o.q = me[w].q
  BY <1>14, <1>15 DEF Restored, Limited, IsObject, NoOne, SyncRes
<1> QED
  BY <1>1, <1>2, <1>7, <1>9, <1>12, <1>13, <1>16, <1>17, ContinueRight, Zenon

LEMMA AskServerRight ==
  ASSUME Knowing, NEW w \in Workers, NEW addr \in Top(w).addrs, AskServer(w, addr)
  PROVE  Rightly(w)
<1>1. PICK t : t = Top(w)
  OBVIOUS
<1>2. PICK f : f = [t EXCEPT !.at = "wait", !.asked = addr, !.addrs = @ \ {addr}]
  OBVIOUS
<1>3. stack[w] # <<>> /\ t.fn = "noQM" /\ t.at = "ask" /\ UNCHANGED world
  BY <1>1 DEF AskServer, Runs
<1>4. Throw(w) \/ (Continue(w, f) /\ me' = [me EXCEPT ![w].sent = @ + 1] /\ UNCHANGED out)
  BY <1>1, <1>2, Zenon DEF AskServer
<1>5. Sound(world, t) /\ IsFrame(t)
  BY <1>1, <1>3, TopFrame, Zenon
<1>6. CASE Continue(w, f) /\ me' = [me EXCEPT ![w].sent = @ + 1] /\ UNCHANGED out
  <2>1. /\ f.at = "wait" /\ f.asked = addr /\ f.addrs \subseteq t.addrs /\ f.q = t.q
        /\ f.ret = t.ret /\ f.stop = t.stop /\ f.fn = t.fn /\ f.auth = t.auth /\ f.left = t.left
    BY <1>2, <1>5 DEF IsFrame, Frame
  <2>2. addr \in Hosts(world, t.auth) /\ f.addrs \subseteq Hosts(world, t.auth)
    BY <1>1, <1>5, <2>1 DEF Sound
  <2>3. Sound(world, f)
    <3>1. f.at # "start" /\ f.at # "answer"
      BY <2>1
    <3> QED
      BY <1>5, <2>1, <2>2, <3>1, Zenon DEF Sound, Trusted
  <2>4. f.at \notin Calls /\ ~Follows(f)
    BY <1>3, <2>1 DEF Calls, Follows
  <2>5. Workmanlike /\ Limited(me[w])
    BY Mine
  <2>6. PICK o : o = [me[w] EXCEPT !.sent = @ + 1]
    OBVIOUS
  <2>7. MeBecomes(w, o)
    BY <1>6, <2>5, <2>6 DEF MeBecomes, Workmanlike
  <2>8. o.q = me[w].q
    BY <2>5, <2>6 DEF Limited, IsObject, NoOne, SyncRes
  <2> QED
    BY <1>1, <1>3, <1>6, <2>1, <2>3, <2>4, <2>7, <2>8, ContinueRight, Zenon
<1> QED
  BY <1>3, <1>4, <1>6, ThrowRight

\* What was sent is about to be handled, or is lost.
LEMMA ReceiveRight ==
  ASSUME Knowing, NEW w \in Workers, Receive(w)
  PROVE  Rightly(w)
<1>1. PICK t : t = Top(w)
  OBVIOUS
<1>2. PICK p : p = Sanitized(Reply(world, t.asked, t.q), t.auth, t.q)
  OBVIOUS
<1>3. PICK f : f = [t EXCEPT !.at = "answer", !.asked = None, !.packet = p]
  OBVIOUS
<1>4. stack[w] # <<>> /\ t.at = "wait" /\ UNCHANGED <<world, me, out>>
  BY <1>1 DEF Receive, Waits
<1>5. Continue(w, f)
  BY <1>1, <1>2, <1>3, Zenon DEF Receive
<1>6. Sound(world, t) /\ IsFrame(t)
  BY <1>1, <1>4, TopFrame, Zenon
<1>7. /\ f.at = "answer" /\ f.packet = p /\ f.addrs = t.addrs /\ f.left = t.left /\ f.q = t.q
      /\ f.ret = t.ret /\ f.stop = t.stop /\ f.fn = t.fn /\ f.auth = t.auth
  BY <1>3, <1>6 DEF IsFrame, Frame
<1>8. Sound(world, f)
  <2>1. t.asked \in Hosts(world, t.auth)
    BY <1>4, <1>6, Zenon DEF Sound
  <2>2. Trusted(world, f)
    BY <1>2, <1>6, <1>7, <2>1, Zenon DEF Sound, Trusted
  <2>3. f.at # "start" /\ f.at # "wait"
    BY <1>7
  <2> QED
    BY <1>6, <1>7, <2>2, <2>3, Zenon DEF Sound
<1>9. f.at \notin Calls /\ (Follows(f) => Follows(t))
  BY <1>7 DEF Calls, Follows
<1> QED
  BY <1>1, <1>4, <1>5, <1>7, <1>8, <1>9, ContinueAlong, Zenon

LEMMA NextAddressSound ==
  ASSUME NEW u, NEW f, IsFrame(f), Sound(u, f), NEW g, g = NextAddress(f)
  PROVE  /\ Sound(u, g) /\ g.at \notin Calls /\ g.q = f.q /\ g.ret = f.ret /\ g.stop = f.stop
         /\ Follows(g) => Follows(f)
<1>1. /\ g.at \in {"next", "ask"} /\ g.q = f.q /\ g.ret = f.ret /\ g.stop = f.stop
      /\ g.fn = f.fn /\ g.auth = f.auth /\ g.left = f.left /\ g.addrs = f.addrs
  BY DEF NextAddress, IsFrame, Frame
<1>2. g.at \notin {"start", "wait", "answer"} /\ g.at \notin Calls /\ (Follows(g) => Follows(f))
  BY <1>1 DEF Calls, Follows
<1>3. Sound(u, g)
  BY <1>1, <1>2, StillSound, Zenon
<1> QED
  BY <1>1, <1>2, <1>3, Zenon

LEMMA LoseRight ==
  ASSUME Knowing, NEW w \in Workers, Lose(w)
  PROVE  Rightly(w)
<1>1. PICK t : t = Top(w)
  OBVIOUS
<1>2. PICK f : f = NextAddress(t)
  OBVIOUS
<1>3. /\ stack[w] # <<>> /\ UNCHANGED <<world, out>> /\ Continue(w, f)
      /\ me' = [me EXCEPT ![w].lost = TRUE]
  BY <1>1, <1>2 DEF Lose, Waits
<1>4. Sound(world, t) /\ IsFrame(t)
  BY <1>1, <1>3, TopFrame, Zenon
<1>5. /\ Sound(world, f) /\ f.at \notin Calls /\ f.q = t.q /\ f.ret = t.ret /\ f.stop = t.stop
      /\ Follows(f) => Follows(t)
  BY ONLY <1>2, <1>4, NextAddressSound
<1>6. Workmanlike /\ Limited(me[w])
  BY Mine
<1>7. PICK o : o = [me[w] EXCEPT !.lost = TRUE]
  OBVIOUS
<1>8. MeBecomes(w, o)
  BY <1>3, <1>6, <1>7 DEF MeBecomes, Workmanlike
<1>9. o.q = me[w].q
  BY <1>6, <1>7 DEF Limited, IsObject, NoOne, SyncRes
<1> QED
  BY <1>1, <1>3, <1>5, <1>8, <1>9, ContinueRight, Zenon

LEMMA RefusedRight ==
  ASSUME Knowing, NEW w \in Workers, Refused(w)
  PROVE  Rightly(w)
<1>1. PICK t : t = Top(w)
  OBVIOUS
<1>2. PICK f : f = NextAddress(t)
  OBVIOUS
<1>3. stack[w] # <<>> /\ UNCHANGED <<world, me, out>> /\ Continue(w, f)
  BY <1>1, <1>2 DEF Refused, Got, Runs
<1>4. Sound(world, t) /\ IsFrame(t)
  BY <1>1, <1>3, TopFrame, Zenon
<1>5. /\ Sound(world, f) /\ f.at \notin Calls /\ f.q = t.q /\ f.ret = t.ret /\ f.stop = t.stop
      /\ Follows(f) => Follows(t)
  BY ONLY <1>2, <1>4, NextAddressSound
<1> QED
  BY <1>1, <1>3, <1>5, ContinueAlong, Zenon

-----------------------------------------------------------------------------
(* What servers answer is true *)

\* What a frame is about to handle.
LEMMA Heeded ==
  ASSUME Knowing, NEW w \in Workers, NEW types, Got(w, types), NEW t, t = Top(w),
         NEW p, p = t.packet
  PROVE  /\ stack[w] # <<>> /\ t.fn = "noQM" /\ t.at = "answer" /\ p.type \in types
         /\ IsWorld(world) /\ IsFrame(t) /\ Sound(world, t) /\ Path(world, t.ret, t.q)
         /\ t = stack[w][Len(stack[w])]
         /\ p.type \in {"A", "CNAME"} =>
              /\ t.q \in DOMAIN world.data /\ world.data[t.q].type = p.type
              /\ world.data[t.q].val = p.val
         /\ p.type \in {"NX", "NODATA"} => t.q \notin DOMAIN world.data /\ At(world, t.q).type = p.type
         /\ p.ns # {} => /\ p.owner \in DOMAIN world.ns
                         /\ p.ns \subseteq world.ns[p.owner] \cup world.own[p.owner]
<1>1. stack[w] # <<>> /\ t.fn = "noQM" /\ t.at = "answer" /\ p.type \in types
  BY DEF Got, Runs
<1>2. IsWorld(world) /\ IsFrame(t) /\ Sound(world, t) /\ t = stack[w][Len(stack[w])]
  BY <1>1, TopFrame, Zenon
<1>3. Path(world, t.ret, t.q)
  BY <1>2, SoundAddrs, Zenon
<1>4. PICK a : p = Sanitized(Reply(world, a, t.q), t.auth, t.q)
  BY <1>1, <1>2, Zenon DEF Sound, Trusted
<1>5. PICK q, auth : q = t.q /\ auth = t.auth
  OBVIOUS
<1>6. p = Sanitized(Reply(world, a, q), auth, q)
  BY <1>4, <1>5, Zenon
<1>7. /\ p.type \in {"A", "CNAME"} =>
           q \in DOMAIN world.data /\ world.data[q].type = p.type /\ world.data[q].val = p.val
      /\ p.type \in {"NX", "NODATA"} => q \notin DOMAIN world.data /\ At(world, q).type = p.type
      /\ p.ns # {} => /\ p.owner \in DOMAIN world.ns
                      /\ p.ns \subseteq world.ns[p.owner] \cup world.own[p.owner]
  BY ONLY <1>2, <1>6, CleanReplies
<1> QED
  BY <1>1, <1>2, <1>3, <1>5, <1>7, Zenon

LEMMA GotAddressRight ==
  ASSUME Knowing, NEW w \in Workers, GotAddress(w)
  PROVE  Rightly(w)
<1>1. PICK t : t = Top(w)
  OBVIOUS
<1>2. PICK p : p = t.packet
  OBVIOUS
<1>3. PICK x : x = Record(t.q, [type |-> "A", val |-> p.val])
  OBVIOUS
<1>4. PICK r : r = Result(t, "NoError", Append(t.ret, x))
  OBVIOUS
<1>5. Got(w, {"A"}) /\ Return(w, r, me[w]) /\ UNCHANGED world
  BY <1>1, <1>2, <1>3, <1>4, Zenon DEF GotAddress
<1>6. /\ stack[w] # <<>> /\ Path(world, t.ret, t.q) /\ t = stack[w][Len(stack[w])]
      /\ p.type \in {"A"}
  BY <1>1, <1>2, <1>5, Heeded
<1>7. t.q \in DOMAIN world.data /\ world.data[t.q].type = "A" /\ world.data[t.q].val = p.val
  <2>1. p.type \in {"A", "CNAME"} /\ p.type = "A"
    BY <1>6
  <2>2. /\ t.q \in DOMAIN world.data /\ world.data[t.q].type = p.type
        /\ world.data[t.q].val = p.val
    BY <1>1, <1>2, <1>5, <2>1, Heeded
  <2> QED
    BY <2>1, <2>2
<1>8. x = Record(t.q, world.data[t.q])
  BY <1>3, <1>7 DEF Record
<1>9. IsResult(r) /\ r.ret = Append(t.ret, x) /\ r.rcode = "NoError"
  BY <1>4 DEF Result, IsResult, NoResult
<1>10. r.ret = Append(t.ret, Record(t.q, world.data[t.q]))
  BY <1>8, <1>9
<1>11. Owed(world, stack[w], r)
  BY <1>6, <1>7, <1>9, <1>10, OwedAddress, Zenon
<1> QED
  BY <1>5, <1>6, <1>11, ReturnRight, Zenon

LEMMA GotDenialRight ==
  ASSUME Knowing, NEW w \in Workers, GotDenial(w)
  PROVE  Rightly(w)
<1>1. PICK t : t = Top(w)
  OBVIOUS
<1>2. PICK p : p = t.packet
  OBVIOUS
<1>3. PICK r : r = Result(t, IF p.type = "NX" THEN "NXDomain" ELSE "NoError", t.ret)
  OBVIOUS
<1>4. Got(w, {"NX", "NODATA"}) /\ Return(w, r, me[w]) /\ UNCHANGED world
  BY <1>1, <1>2, <1>3, Zenon DEF GotDenial
<1>5. /\ stack[w] # <<>> /\ Path(world, t.ret, t.q) /\ t = stack[w][Len(stack[w])]
  BY <1>1, <1>2, <1>4, Heeded
<1>6. IsResult(r) /\ r.ret = t.ret /\ r.rcode = IF p.type = "NX" THEN "NXDomain" ELSE "NoError"
  BY <1>3 DEF Result, IsResult, NoResult
<1>7. t.q \notin DOMAIN world.data /\ At(world, t.q).type = p.type
  <2>1. p.type \in {"NX", "NODATA"}
    BY <1>1, <1>2, <1>4, Heeded, Zenon
  <2> QED
    BY <1>1, <1>2, <1>4, <2>1, Heeded
<1>8. Owed(world, stack[w], r)
  <2>1. r.rcode = IF At(world, t.q).type = "NX" THEN "NXDomain" ELSE "NoError"
    BY <1>6, <1>7
  <2> QED
    BY <1>5, <1>6, <1>7, <2>1, OwedDenial, Zenon
<1> QED
  BY <1>4, <1>5, <1>8, ReturnRight, Zenon

LEMMA GotReferralRight ==
  ASSUME Knowing, NEW w \in Workers, GotReferral(w)
  PROVE  Rightly(w)
<1>1. PICK t : t = Top(w)
  OBVIOUS
<1>2. PICK p : p = t.packet
  OBVIOUS
<1>3. PICK r : r = [Result(t, "NoError", t.ret) EXCEPT !.stopped = TRUE]
  OBVIOUS
<1>4. PICK l : l = Level(t, p.owner, p.ns)
  OBVIOUS
<1>5. PICK f : f = [l EXCEPT !.addrs = {}, !.packet = NoPacket]
  OBVIOUS
<1>6. PICK g : g = NextAddress(t)
  OBVIOUS
<1>7. /\ Got(w, {"REFERRAL"}) /\ UNCHANGED world
      /\ \/ t.stop /\ Return(w, r, me[w])
         \/ p.ns # {} /\ Continue(w, f) /\ UNCHANGED <<me, out>>
         \/ Continue(w, g) /\ UNCHANGED <<me, out>>
  <2>1. Got(w, {"REFERRAL"}) /\ UNCHANGED world
    BY DEF GotReferral
  <2>2. CASE p.ns # {} /\ IsStrictPrefix(t.auth, p.owner) /\ t.stop
    BY <1>1, <1>2, <1>3, <2>1, <2>2, Zenon DEF GotReferral
  <2>3. CASE p.ns # {} /\ IsStrictPrefix(t.auth, p.owner) /\ ~t.stop
    BY <1>1, <1>2, <1>4, <1>5, <2>1, <2>3, Zenon DEF GotReferral
  <2>4. CASE ~(p.ns # {} /\ IsStrictPrefix(t.auth, p.owner))
    BY <1>1, <1>2, <1>6, <2>1, <2>4, Zenon DEF GotReferral
  <2> QED
    BY <2>2, <2>3, <2>4
<1>8. /\ stack[w] # <<>> /\ t.fn = "noQM" /\ IsFrame(t) /\ Sound(world, t)
      /\ Path(world, t.ret, t.q) /\ t = stack[w][Len(stack[w])]
  BY <1>1, <1>2, <1>7, Heeded
<1>9. CASE t.stop /\ Return(w, r, me[w])
  <2>1. ~Following(stack[w], Len(stack[w]))
    BY <1>1, <1>8, <1>9, BareTop, Zenon
  <2>2. IsResult(r) /\ r.ret = t.ret
    BY <1>3 DEF Result, IsResult, NoResult
  <2>3. Given(r.ret) = {}
    BY <1>8, <2>2, PathGives
  <2>4. Owed(world, stack[w], r)
    BY <2>1, <2>2, <2>3, OwedQuiet, Zenon
  <2> QED
    BY <1>7, <1>8, <1>9, <2>4, ReturnRight, Zenon
<1>10. CASE p.ns # {} /\ Continue(w, f) /\ UNCHANGED <<me, out>>
  <2>1. PICK zone, servers : zone = p.owner /\ servers = p.ns
    OBVIOUS
  <2>2. l = Level(t, zone, servers)
    BY <1>4, <2>1, Zenon
  <2>3. /\ IsFrame(l) /\ l.at = "next" /\ l.auth = zone /\ l.left = servers
        /\ l.q = t.q /\ l.ret = t.ret /\ l.stop = t.stop /\ l.fn = t.fn
    BY ONLY <1>8, <2>2, LevelFields
  <2>4. /\ f.at = "next" /\ f.auth = zone /\ f.left = servers /\ f.addrs = {}
        /\ f.q = t.q /\ f.ret = t.ret /\ f.stop = t.stop /\ f.fn = t.fn
    BY <1>5, <2>3 DEF IsFrame, Frame
  <2>5. zone \in DOMAIN world.ns /\ servers \subseteq world.ns[zone] \cup world.own[zone]
    BY <1>1, <1>2, <1>7, <1>10, <2>1, Heeded
  <2>6. Sound(world, f)
    BY <1>8, <2>4, <2>5, LevelSound, Zenon
  <2>7. f.at \notin Calls /\ (Follows(f) => Follows(t))
    BY <1>8, <2>4 DEF Calls, Follows
  <2>8. UNCHANGED <<world, me, out>>
    BY <1>7, <1>10
  <2> QED
    BY <1>1, <1>8, <1>10, <2>4, <2>6, <2>7, <2>8, ContinueAlong, Zenon
<1>11. CASE Continue(w, g) /\ UNCHANGED <<me, out>>
  <2>1. /\ Sound(world, g) /\ g.at \notin Calls /\ g.q = t.q /\ g.ret = t.ret /\ g.stop = t.stop
        /\ Follows(g) => Follows(t)
    BY ONLY <1>6, <1>8, NextAddressSound
  <2>2. UNCHANGED <<world, me, out>>
    BY <1>7, <1>11
  <2> QED
    BY <1>1, <1>8, <1>11, <2>1, <2>2, ContinueAlong, Zenon
<1> QED
  BY <1>7, <1>9, <1>10, <1>11

\* Where aliases are not followed, what leads on is all there is to say.
LEMMA GotAliasRight ==
  ASSUME Knowing, NEW w \in Workers, GotAlias(w)
  PROVE  Rightly(w)
<1>1. PICK t : t = Top(w)
  OBVIOUS
<1>2. PICK p : p = t.packet
  OBVIOUS
<1>3. PICK target : target = p.val
  OBVIOUS
<1>4. PICK e : e = [t EXCEPT !.packet = NoPacket, !.addrs = {}, !.left = {}]
  OBVIOUS
<1>5. Got(w, {"CNAME"}) /\ UNCHANGED world /\ NewTarget(w, e, target)
  BY <1>1, <1>2, <1>3, <1>4, Zenon DEF GotAlias
<1>6. /\ stack[w] # <<>> /\ t.at = "answer" /\ IsFrame(t) /\ Path(world, t.ret, t.q)
      /\ p.type \in {"CNAME"}
  BY <1>1, <1>2, <1>5, Heeded
<1>7. Alias(world, t.q) /\ target = world.data[t.q].val
  <2>1. p.type \in {"A", "CNAME"} /\ p.type = "CNAME"
    BY <1>6
  <2>2. t.q \in DOMAIN world.data /\ world.data[t.q].type = p.type /\ world.data[t.q].val = p.val
    BY <1>1, <1>2, <1>5, <2>1, Heeded
  <2> QED
    BY <1>3, <2>1, <2>2 DEF Alias
<1>8. /\ IsFrame(e) /\ e.q = t.q /\ e.ret = t.ret /\ e.stop = t.stop /\ e.auth = t.auth
      /\ e.left = {} /\ e.addrs = {}
  BY <1>4, <1>6 DEF IsFrame, Frame
<1>9. PICK ret : ret = Append(t.ret, Record(t.q, [type |-> "CNAME", val |-> target]))
  OBVIOUS
<1>10. PICK object : object = NoMinimizationBelow(w, t.q, target)
  OBVIOUS
<1>11. PICK depth : depth = e.depth + 1
  OBVIOUS
<1>12. PICK f, g : /\ f = [e EXCEPT !.at = "targetResolved"]
                   /\ g = Frame("doResolve", target, ret, depth, {})
  OBVIOUS
<1>13. PICK r : r = Result(e, "NoError", ret)
  OBVIOUS
<1>14. /\ ret = Append(e.ret, Record(e.q, [type |-> "CNAME", val |-> target]))
       /\ object = NoMinimizationBelow(w, e.q, target)
  BY <1>8, <1>9, <1>10, Zenon
<1>15. \/ \E recs : Return(w, Result(e, "ServFail", recs), me[w])
       \/ \E recs : Return(w, Result(e, "ServFail", recs), object)
       \/ ~me[w].follow /\ Return(w, r, object)
       \/ me[w].follow /\ Call(w, f, g) /\ me' = [me EXCEPT ![w] = object] /\ UNCHANGED out
  BY <1>5, <1>11, <1>12, <1>13, <1>14, Zenon DEF NewTarget
<1>16. object.q = me[w].q
  BY <1>10, BelowMine, Zenon
<1>17. me[w].follow = Following(stack[w], Len(stack[w]))
  <2>1. Top(w).at \notin Calls
    BY <1>1, <1>6 DEF Calls
  <2> QED
    BY <1>6, <2>1, FlagsTop, Zenon DEF FlagsAt
<1>18. CASE \/ \E recs : Return(w, Result(e, "ServFail", recs), me[w])
            \/ \E recs : Return(w, Result(e, "ServFail", recs), object)
  BY <1>5, <1>6, <1>16, <1>18, FailureRight, Zenon
<1>19. CASE ~me[w].follow /\ Return(w, r, object)
  <2>1. Given(ret) = {}
    BY ONLY <1>6, <1>7, <1>9, AliasOn
  <2>2. IsResult(r) /\ r.ret = ret
    BY <1>13 DEF Result, IsResult, NoResult
  <2>3. Owed(world, stack[w], r)
    BY <1>17, <1>19, <2>1, <2>2, OwedQuiet, Zenon
  <2> QED
    BY <1>5, <1>6, <1>16, <1>19, <2>3, ReturnRight, Zenon
<1>20. CASE /\ me[w].follow /\ Call(w, f, g) /\ me' = [me EXCEPT ![w] = object]
            /\ UNCHANGED out
  <2>1. /\ IsFrame(f) /\ f.at = "targetResolved" /\ f.q = t.q /\ f.ret = t.ret /\ f.stop = t.stop
        /\ f.auth = t.auth /\ f.left = {} /\ f.addrs = {}
    BY <1>8, <1>12 DEF IsFrame, Frame
  <2>2. /\ f.at \in {"aliasFollowed", "targetResolved"} /\ f.left \subseteq t.left
        /\ f.addrs \subseteq t.addrs
    BY <2>1
  <2>3. Following(stack[w], Len(stack[w])) /\ UNCHANGED <<world, out>>
    BY <1>5, <1>17, <1>20
  <2> QED
    BY <1>1, <1>6, <1>7, <1>9, <1>12, <1>16, <1>20, <2>1, <2>2, <2>3, FollowRight, Zenon
<1> QED
  BY <1>15, <1>18, <1>19, <1>20

-----------------------------------------------------------------------------
(* The client is told the truth *)

LEMMA AskRight ==
  ASSUME Knowing, NEW w \in Workers, NEW q, Ask(w, q)
  PROVE  Rightly(w)
<1>1. PICK f : f = Frame("doResolve", q, <<>>, 0, {})
  OBVIOUS
<1>2. PICK s : s = <<f>>
  OBVIOUS
<1>3. Len(s) = 1 /\ s[1] = f /\ s # <<>>
  <2>1. s \in Seq({f})
    BY <1>2
  <2> QED
    BY <1>2, <2>1
<1>4. /\ stack' = [stack EXCEPT ![w] = s] /\ me' = [me EXCEPT ![w] = SyncRes(q)]
      /\ out' = [out EXCEPT ![w] = NotAsked] /\ UNCHANGED world
  BY <1>1, <1>2, Zenon DEF Ask
<1>5. Workmanlike /\ DOMAIN out = Workers /\ IsWorld(world)
  BY ResolutionAssumption DEF Knowing, Typed
<1>6. /\ f.at = "start" /\ f.q = q /\ f.ret = <<>> /\ f.auth = Root /\ f.left = {}
      /\ f.addrs = {} /\ ~f.stop
  BY <1>1 DEF Frame
<1>7. Sound(world, f)
  <2>1. Path(world, f.ret, f.q)
    BY <1>6, NoPath
  <2> QED
    BY <1>5, <1>6, <2>1, FreshSound, Zenon
<1>8. Right(world, s, q)
  <2>1. \A i \in 1 .. 1 : i = 1
    OBVIOUS
  <2>2. \A i \in 1 .. 1 - 1 : FALSE
    OBVIOUS
  <2>3. Following(s, 1)
    BY <2>2, Zenon DEF Following
  <2>4. f.at \notin Calls
    BY <1>6 DEF Calls
  <2> QED
    BY <1>3, <1>6, <1>7, <2>1, <2>2, <2>3, <2>4, Zenon DEF Right
<1>9. /\ stack'[w] = s /\ me'[w].q = q /\ DOMAIN out' = Workers /\ out'[w] = NotAsked
      /\ \A v \in Workers \ {w} : out'[v] = out[v]
  BY <1>4, <1>5 DEF Workmanlike, SyncRes
<1>10. out'[w].rcode \notin Told
  BY <1>9 DEF NotAsked, Told
<1>11. Right(world', stack'[w], me'[w].q)
  BY <1>4, <1>8, <1>9, Zenon
<1> QED
  BY <1>9, <1>10, <1>11 DEF Rightly

LEMMA WorkRight ==
  ASSUME Knowing, NEW w \in Workers, Work(w)
  PROVE  Rightly(w)
<1>1. \/ NoMinimization(w) \/ Step0(w) \/ Peeked(w) \/ Step1(w) \/ Step34(w) \/ ChildAsked(w)
      \/ RefuseDepth(w) \/ CachedAlias(w) \/ AliasFollowed(w) \/ CacheHit(w) \/ NotCached(w)
      \/ GoOut(w) \/ NowhereToGo(w) \/ NoMoreServers(w) \/ ServerResolved(w)
      \/ (\E ns : TryServer(w, ns)) \/ (\E addr \in Top(w).addrs : AskServer(w, addr))
      \/ Refused(w) \/ GotAddress(w) \/ GotAlias(w) \/ TargetResolved(w) \/ GotDenial(w)
      \/ GotReferral(w)
  BY Zenon DEF Work
<1>2. CASE NoMinimization(w) \/ Step0(w) \/ Peeked(w)
  BY <1>2, NoMinimizationRight, Step0Right, PeekedRight, Zenon
<1>3. CASE Step1(w) \/ Step34(w) \/ ChildAsked(w)
  BY <1>3, Step1Right, Step34Right, ChildAskedRight, Zenon
<1>4. CASE RefuseDepth(w) \/ CachedAlias(w) \/ CacheHit(w) \/ NotCached(w)
  BY <1>4, RefuseDepthRight, CachedAliasRight, CacheHitRight, NotCachedRight, Zenon
<1>5. CASE AliasFollowed(w) \/ TargetResolved(w)
  BY <1>5, TargetRight, Zenon
<1>6. CASE GoOut(w) \/ NowhereToGo(w)
  BY <1>6, GoOutRight, Zenon
<1>7. CASE NoMoreServers(w) \/ ServerResolved(w)
  BY <1>7, NoMoreServersRight, ServerResolvedRight, Zenon
<1>8. CASE \E ns : TryServer(w, ns)
  BY <1>8, TryServerRight, Zenon
<1>9. CASE \E addr \in Top(w).addrs : AskServer(w, addr)
  BY <1>9, AskServerRight, Zenon
<1>10. CASE Refused(w) \/ GotAddress(w) \/ GotAlias(w) \/ GotDenial(w) \/ GotReferral(w)
  BY <1>10, RefusedRight, GotAddressRight, GotAliasRight, GotDenialRight, GotReferralRight, Zenon
<1> QED
  BY <1>1, <1>2, <1>3, <1>4, <1>5, <1>6, <1>7, <1>8, <1>9, <1>10

LEMMA KnowingInit == Init /\ GlueAgrees(world) => Knowing
<1> SUFFICES ASSUME Init, GlueAgrees(world) PROVE Knowing
  OBVIOUS
<1>1. Typed
  BY TypedInit
<1>2. world \in Worlds /\ IsWorld(world)
  BY ResolutionAssumption DEF Init
<1>3. /\ stack = [w \in Workers |-> <<>>] /\ out = [w \in Workers |-> NotAsked]
      /\ neg = <<>>
      /\ cache = [k \in {<<Root, "NS">>} \cup {<<n, "A">> : n \in world.ns[Root]} |->
                    [auth |-> FALSE,
                     val  |-> IF k[2] = "NS" THEN world.ns[Root] ELSE world.glue[Root][k[1]]]]
  BY DEF Init
<1>4. ASSUME NEW k \in DOMAIN cache
      PROVE  EntryTrue(world, k[1], k[2], cache[k])
  <2>1. k \in {<<Root, "NS">>} \cup {<<n, "A">> : n \in world.ns[Root]}
    BY <1>3
  <2>2. CASE k = <<Root, "NS">>
    <3>1. k[1] = Root /\ k[2] = "NS" /\ cache[k].val = world.ns[Root] /\ Root \in DOMAIN world.ns
      BY <1>2, <1>3, <2>2 DEF IsWorld
    <3> QED
      BY <3>1 DEF EntryTrue
  <2>3. CASE \E n \in world.ns[Root] : k = <<n, "A">>
    <3>1. PICK n \in world.ns[Root] : k = <<n, "A">>
      BY <2>3
    <3>2. k[1] = n /\ k[2] = "A" /\ cache[k].val = world.glue[Root][n] /\ ~cache[k].auth
      BY <1>3, <2>1, <3>1
    <3>3. world.glue[Root][n] \in Addresses(world, n)
      BY DEF Addresses
    <3> QED
      BY <3>2, <3>3 DEF EntryTrue
  <2> QED
    BY <2>1, <2>2, <2>3
<1>5. CachesTrue
  <2>1. DOMAIN neg = {}
    BY <1>3
  <2>2. \A n \in DOMAIN neg : n \notin DOMAIN world.data /\ At(world, n).type = neg[n]
    BY <2>1
  <2> QED
    BY <1>4, <2>2, Zenon DEF CachesTrue
<1>6. ASSUME NEW w \in Workers
      PROVE  Honest(w)
  <2>1. stack[w] = <<>> /\ out[w].rcode \notin Told
    BY <1>3 DEF NotAsked, Told
  <2>2. Right(world, <<>>, me[w].q)
    BY RightNothing
  <2> QED
    BY <2>1, <2>2, Zenon DEF Honest
<1> QED
  BY <1>1, <1>3, <1>5, <1>6 DEF Knowing

LEMMA KnowingNext == Knowing /\ [Next]_vars => Knowing'
<1> SUFFICES ASSUME Knowing, [Next]_vars PROVE Knowing'
  OBVIOUS
<1>1. Typed /\ Workmanlike /\ world \in Worlds /\ GlueAgrees(world) /\ CachesTrue
  BY DEF Knowing, Typed
<1>2. Typed'
  BY <1>1, TypedNext
<1>3. ASSUME NEW w \in Workers, Work(w)
      PROVE  Knowing'
  <2>1. Stepped(w) /\ UNCHANGED world
    BY <1>1, <1>3, WorkSteps, Zenon
  <2>2. Rightly(w)
    BY <1>3, WorkRight, Zenon
  <2>3. stack[w] # <<>> => Trusted(world, Top(w))
    BY TopFrame, Zenon DEF Sound
  <2>4. CachesTrue'
    BY <1>1, <1>3, <2>3, WorkKeepsTrue, Zenon
  <2> QED
    BY <1>2, <2>1, <2>2, <2>4, RightlySteps, Zenon
<1>4. ASSUME NEW w \in Workers, Receive(w)
      PROVE  Knowing'
  <2>1. UNCHANGED <<world, caches>>
    BY <1>4 DEF Receive
  <2>2. CachesTrue' /\ Stepped(w) /\ Rightly(w)
    BY <1>1, <1>4, <2>1, SameTrue, ReceiveSteps, ReceiveRight, Zenon
  <2> QED
    BY <1>2, <2>1, <2>2, RightlySteps
<1>5. ASSUME NEW w \in Workers, Lose(w)
      PROVE  Knowing'
  <2>1. UNCHANGED <<world, caches>>
    BY <1>5 DEF Lose
  <2>2. CachesTrue' /\ Stepped(w) /\ Rightly(w)
    BY <1>1, <1>5, <2>1, SameTrue, LoseSteps, LoseRight, Zenon
  <2> QED
    BY <1>2, <2>1, <2>2, RightlySteps
<1>6. ASSUME NEW w \in Workers, NEW q, Ask(w, q)
      PROVE  Knowing'
  <2>1. UNCHANGED <<world, caches>>
    BY <1>6 DEF Ask
  <2>2. CachesTrue' /\ Stepped(w) /\ Rightly(w)
    BY <1>1, <1>6, <2>1, SameTrue, AskSteps, AskRight, Zenon
  <2> QED
    BY <1>2, <2>1, <2>2, RightlySteps
<1>7. ASSUME UNCHANGED <<world, stack, me, out>>, CachesTrue'
      PROVE  Knowing'
  <2>1. ASSUME NEW w \in Workers
        PROVE  Honest(w)'
    BY <1>7 DEF Knowing, Honest
  <2>2. GlueAgrees(world)' /\ (DOMAIN out = Workers)'
    BY <1>7 DEF Knowing
  <2> QED
    BY <1>2, <1>7, <2>1, <2>2 DEF Knowing
<1>8. ASSUME NEW k, ExpireRecord(k) \/ ExpireDenial(k)
      PROVE  Knowing'
  <2>1. UNCHANGED <<world, stack, me, out>>
    BY <1>8 DEF ExpireRecord, ExpireDenial
  <2>2. CachesTrue'
    BY <1>1, <1>8 DEF CachesTrue, ExpireRecord, ExpireDenial, Without, Restrict
  <2> QED
    BY <1>7, <2>1, <2>2
<1>9. CASE UNCHANGED vars
  <2>1. UNCHANGED <<world, stack, me, out, caches>>
    BY <1>9 DEF vars, caches
  <2> QED
    BY <1>1, <1>7, <2>1, SameTrue
<1> QED
  BY <1>3, <1>4, <1>5, <1>6, <1>8, <1>9 DEF Next

LEMMA KnowingTells == Knowing => AnswerTrue
<1> SUFFICES ASSUME Knowing, NEW w \in Workers, out[w].rcode \in {"NoError", "NXDomain"}
             PROVE  Truth(world, out[w].q) = [rcode |-> out[w].rcode, records |-> out[w].records]
  BY Zenon DEF AnswerTrue
<1>1. Honest(w) /\ world \in Worlds
  BY DEF Knowing, Typed
<1>2. Whole(world, out[w].q, out[w].rcode, out[w].records)
  BY <1>1 DEF Honest, Told
<1>3. IsWorld(world)
  BY <1>1, ResolutionAssumption
<1> QED
  BY <1>2, <1>3, WholeIsTrue

\* Theorem 2.  Where the servers of a zone agree with the owners of names about the
\* addresses they give with delegations (GlueAgrees), a client is told what the owners say:
\* all records from the name it asked for to the address at the end of the aliases, in this
\* order and none twice, or that there is nothing there and why; else that it failed.  So it
\* is however questions of several clients and the entries of the caches they share come
\* and go, for worlds of any size.
THEOREM AnswersAreTrue == Spec /\ GlueAgrees(world) => []AnswerTrue
<1>1. Init /\ GlueAgrees(world) => Knowing
  BY KnowingInit
<1>2. Knowing /\ [Next]_vars => Knowing'
  BY KnowingNext
<1>3. Knowing => AnswerTrue
  BY KnowingTells
<1> QED
  BY <1>1, <1>2, <1>3, PTL DEF Spec
=============================================================================
