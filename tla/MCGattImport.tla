----------------------------- MODULE MCGattImport -----------------------------
(* A small instance of GattImport for TLC: two devices, one of which has been  *)
(* logged in the old and in the new style.                                     *)
EXTENDS GattImport

TwoDevices == {1, 2}

Line(k, s, d, p) ==
    [kind |-> CHOOSE i \in DOMAIN Kinds : Kinds[i] = k,
     style |-> CHOOSE i \in DOMAIN Styles : Styles[i] = s,
     dev |-> d,
     shape |-> CHOOSE i \in DOMAIN Shapes : Shapes[i] = p]

SomeLines ==
    {Line("CHARACTERISTIC", "old", 1, "good"),
     Line("CHARACTERISTIC", "public", 1, "good"),
     Line("CHARACTERISTIC", "old", 2, "count"),
     Line("CHAR_VALUE", "random", 1, "good"),
     Line("CHAR_VALUE", "random", 2, "num"),
     Line("DESCRIPTORS", "random", 2, "torn"),
     Line("SERVICE", "public", 2, "cut"),
     Line("SERVICE", "random", 2, "tail"),
     Line("SERVICE", "random", 2, "good")}

\* In the C locale: by the table, then by what tells the styles apart, then by the address.
ByBytes == [l \in SomeLines |-> ((l.kind * 10 + l.style) * 10 + l.dev) * 10 + l.shape]
=============================================================================
