----------------------------- MODULE MCServices -----------------------------
EXTENDS Services, TLC

CONSTANTS p1, p2, a, b, k1, k2, c1, c2, c3, f1, g1, m1, m2, i1, i2, s1, s2, a1, a2,
          x1, x2, x3, y1, y2, l1, l2, q1, q2
=============================================================================
