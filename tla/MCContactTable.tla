--------------------------- MODULE MCContactTable ---------------------------
(* A machine whose neighbours' distances have their first 1 bit in the same  *)
(* hexadecimal digit: those with bit 3 share a bucket, {2} is in another.    *)
EXTENDS ContactTable

self == {}
n1 == {3}
n2 == {3, 0}
n3 == {3, 1}
n4 == {3, 2}
OneBucket  == {n1, n2, n3, n4}
TwoBuckets == {n1, n2, n3, {2}}
=============================================================================
