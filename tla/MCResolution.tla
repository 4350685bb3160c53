---------------------------- MODULE MCResolution ----------------------------
(* Worlds of two levels below the root in which Resolution is model-checked. *)
EXTENDS Resolution

R == <<"r">>
C == <<"c">>
CN == <<"c", "n">>
D == <<"d">>
DN == <<"d", "n">>
E == <<"c", "e">>
EN == <<"c", "e", "n">>
EW == <<"c", "e", "w">>
EX == <<"c", "e", "x">>
EY == <<"c", "e", "y">>
EZ == <<"c", "e", "z">>
F == <<"d", "f">>
FN == <<"d", "f", "n">>

A(addr)    == [type |-> "A", val |-> addr]
Alias(name) == [type |-> "CNAME", val |-> name]

\* The root and two zones below it, with their servers and glue.
Tops == [ns   |-> Root :> {R} @@ C :> {CN} @@ D :> {DN},
         glue |-> Root :> (R :> "ar") @@ C :> (CN :> "ac") @@ D :> (DN :> "ad"),
         data |-> R :> A("ar") @@ CN :> A("ac") @@ DN :> A("ad")]

World(ns, glue, data, serves, asked) ==
  [ns |-> ns @@ Tops.ns, glue |-> glue @@ Tops.glue, own |-> ns @@ Tops.ns,
   data |-> data @@ Tops.data, asked |-> asked, asks |-> 2, faults |-> 0,
   serves |-> serves @@ "ar" :> {Root} @@ "ac" :> {C} @@ "ad" :> {D}]

\* A zone with glue, an alias into another zone and a name with names below only.
Glued == [World(E :> {EN}, E :> (EN :> "ae"),
                EN :> A("ae") @@ EX :> Alias(DN) @@ Append(EY, "z") :> A("1"),
                "ae" :> {E}, {EX, EY, EW})
          EXCEPT !.faults = 1]

\* Servers in zones elsewhere, one of them lame, the delegation with an old address of
\* the other.
Glueless == World(E :> {DN, CN}, E :> (DN :> "old"), EW :> A("1") @@ EX :> Alias(EW),
                  "ad" :> {D, E} @@ "old" :> {E}, {EX, DN})

\* Two zones with servers in each other, one of which refuses, and one server elsewhere.
Mutual == World(E :> {FN, DN} @@ F :> {EN}, E :> <<>> @@ F :> <<>>,
                EN :> A("ae") @@ FN :> A("af") @@ EW :> A("1"),
                "ad" :> {D, E} @@ "ae" :> {F} @@ "af" :> {}, {EW})

\* Aliases in a circle, of itself, and of a name below.
Circles == World(E :> {EN}, E :> (EN :> "ae"),
                  EN :> A("ae") @@ EX :> Alias(EY) @@ EY :> Alias(EX) @@ EW :> Alias(EW)
                    @@ EZ :> Alias(Append(EZ, "z")) @@ Append(EZ, "z") :> A("1"),
                  "ae" :> {E}, {EX, EW, EZ})

\* The delegation has another address for the server than its zone.
Moved == World(E :> {EN}, E :> (EN :> "old"), EN :> A("ae"),
               "old" :> {E} @@ "ae" :> {E}, {EN, EW})

MCWorlds == {Glued, Glueless, [Glueless EXCEPT !.asks = 1, !.faults = 2],
             [Mutual EXCEPT !.asks = 1, !.faults = 1], Circles}
MovedWorlds == {Moved}

\* In these worlds clients are told the truth; in that of MovedWorlds they need not be.
ASSUME MCWorldsAgree == \A w \in MCWorlds : GlueAgrees(w)
ASSUME MovedDisagrees == \A w \in MovedWorlds : ~GlueAgrees(w)
=============================================================================
