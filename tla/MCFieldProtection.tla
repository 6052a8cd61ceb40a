------------------------- MODULE MCFieldProtection -------------------------
(* TLC instances of FieldProtection: the schemas and data of test_gdpr.py.      *)
EXTENDS SensitivePaths

(* Trees, written down as documents.                                             *)
Shifted(step, doc) == [at \in {<<step>> \o a : a \in DOMAIN doc} |-> doc[Tail(at)]]
Joined(docs) == FoldSet(LAMBDA f, g : f @@ g, <<>>, docs)

String(s) == <<>> :> <<"string", s>>
Number(n) == <<>> :> <<"number", n>>
Object(f) == Joined({Shifted(<<n, 0>>, f[n]) : n \in DOMAIN f}) @@ (<<>> :> <<"object">>)
Array(s)  == Joined({Shifted(<<"[]", i>>, s[i]) : i \in DOMAIN s}) @@ (<<>> :> <<"array">>)

Node(marked, properties, items) == [marked |-> marked, properties |-> properties, items |-> items]
Plain        == Node(FALSE, {}, {})
Leaf         == Node(TRUE, {}, {})
Having(ps)   == Node(FALSE, ps, {})
Each(schema) == Node(FALSE, {}, {schema})

(* Leaves of the top level: strings, a number, a container, one that is absent,  *)
(* under a root that is marked as well.                                          *)
Flat == [schema |-> Node(TRUE, {<<"email", Leaf>>, <<"n", Leaf>>, <<"blob", Leaf>>, <<"fax", Leaf>>}, {}),
         data   |-> Object([email |-> String("alice"), n |-> Number(7),
                            blob |-> Object([pan |-> String("4111")]), id |-> Number(1)])]

(* Leaves further down: in an object, in the objects of an array, and the        *)
(* elements of an array.                                                        *)
Nested == [schema |-> Having({<<"profile", Having({<<"name", Leaf>>, <<"tier", Plain>>})>>}),
           data   |-> Object([profile |-> Object([name |-> String("Bob"), tier |-> Number(2)])])]
Arrays == [schema |-> Having({<<"addresses", Each(Having({<<"line", Leaf>>}))>>, <<"phones", Each(Leaf)>>}),
           data   |-> Object([addresses |-> Array(<<Object([line |-> String("a")]), Object([city |-> String("y")]),
                                                    Object([line |-> String("b")])>>),
                              phones    |-> Array(<<String("1"), String("2")>>)])]

(* Data the schema does not describe.                                           *)
Mismatched == [schema |-> Arrays.schema,
               data   |-> Object([addresses |-> String("none"), phones |-> Object([home |-> String("1")])])]

(* A mark inside a marked container.                                            *)
Inside(leaf) == [schema |-> Having({<<"profile", Node(TRUE, {<<"leaf", Leaf>>}, {})>>}),
                 data   |-> Object([profile |-> Object([leaf |-> leaf])])]

(* Arrays of arrays.                                                            *)
Matrix == [schema |-> Having({<<"m", Each(Each(Leaf))>>}),
           data   |-> Object([m |-> Array(<<Array(<<String("x")>>)>>)])]

Published(cases) ==
  [i \in DOMAIN cases |->
     [schema |-> cases[i].schema, data |-> cases[i].data,
      paths |-> FindSensitivePaths(cases[i].schema)]]

AllCases == Published(<<Flat, Nested, Arrays, Mismatched, Inside(Number(7)), Inside(String("Ada")), Matrix>>)

(* The algorithm against its reference, on these cases.                          *)
ASSUME EveryMarkFound == \A c \in DOMAIN AllCases : FindsEveryMark(AllCases[c].schema, AllCases[c].data)

=============================================================================
