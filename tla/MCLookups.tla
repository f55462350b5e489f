------------------------------ MODULE MCLookups ------------------------------
EXTENDS RouterLookups
CONSTANTS A, B, C, T, U
MCDistance(r, t) == CASE t = T -> (CASE r = T -> 0 [] r = C -> 1 [] r = A -> 2 [] r = B -> 3)
                      [] t = A -> (CASE r = A -> 0 [] r = B -> 1 [] r = C -> 2 [] r = T -> 3)
                      [] t = B -> (CASE r = B -> 0 [] r = A -> 1 [] r = C -> 2 [] r = T -> 3)
                      [] t = C -> (CASE r = C -> 0 [] r = T -> 1 [] r = A -> 2 [] r = B -> 3)
MCPathEnd == U :> A
View(db, bucket) == [nodedb |-> db, nodes |-> bucket, soon |-> {}]
\* In the first, A asks B, B asks A back and only C knows T; in the second A's contact
\* of T expires soon and the client can learn of C.
MCViews == { (A :> [View({C, T}, {C}) EXCEPT !.soon = {T}]) @@ (B :> View({A}, {})) @@ (C :> View({A, T}, {T}))
               @@ (T :> View({C}, {})) @@ (U :> View({A}, {A})),
             (A :> View({B, C}, {B})) @@ (B :> View({A}, {A})) @@ (C :> View({A, T}, {T}))
               @@ (T :> View({C}, {C})) @@ (U :> View({A, B}, {A})) }
MCMaxIds == (A :> 2) @@ (B :> 1) @@ (C :> 1) @@ (T :> 0) @@ (U :> 2)
MCRequests == { [at |-> A, target |-> T, force |-> FALSE], [at |-> U, target |-> T, force |-> FALSE] }
==============================================================================
