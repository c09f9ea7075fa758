---------------------------- MODULE MCRegistry ----------------------------
(* Bounded inputs for the codecs registry.                                 *)
EXTENDS Lookups

Descriptor(t, tid, at, len) == [t |-> t, tid |-> tid, at |-> at, len |-> len, dims |-> 1]

Base1  == Descriptor("base", "b1", <<>>, <<>>)
Base2  == Descriptor("base", "b2", <<>>, <<>>)
Derived == Descriptor("scalar", "s1", <<1>>, <<>>)
Shape1 == Descriptor("shape", "o1", <<2, 1>>, <<1, 3>>)
NameOf(tid) == Descriptor("name", tid, <<>>, <<4>>)

\* What a server may send, each for the type of its last descriptor that is no
\* annotation; then what cannot be built.
Lists == <<
    <<Base1>>,
    <<Base1, Derived, NameOf("s1")>>,
    <<Base1, Derived, Shape1>>,
    <<Base1, Derived, Shape1, Descriptor("set", "m1", <<3>>, <<>>), Descriptor("shape", "o2", <<4, 1>>, <<2, 2>>)>>,
    <<Base1, Base2, Descriptor("tuple", "t1", <<1, 2>>, <<>>), Descriptor("array", "a1", <<3>>, <<>>)>>,
    <<Base2, Descriptor("namedtuple", "n1", <<1, 1>>, <<1, 2>>), Descriptor("tuple", "t2", <<2>>, <<>>)>>,
    <<Descriptor("enum", "e1", <<>>, <<2, 1>>), Descriptor("note", "e1", <<>>, <<3>>), Base1,
      Descriptor("shape", "o3", <<1, 2>>, <<1, 1>>)>>,
    <<Descriptor("tuple", EmptyTuple, <<>>, <<>>)>>,
    <<Base1, [Descriptor("array", "a2", <<1>>, <<>>) EXCEPT !.dims = 2]>>,
    <<Base1, Descriptor("set", "m2", <<2>>, <<>>)>>,
    <<Base2, Descriptor("base", "b9", <<>>, <<>>)>>,
    <<Base1, Base2, Descriptor("tuple", "t1", <<1, 2>>, <<>>), Descriptor("scalar", "s9", <<3>>, <<>>)>> >>

\* The capacities of the two caches.
Sizes == {<<1, 1>>, <<2, 1>>, <<8, 8>>}
=============================================================================
