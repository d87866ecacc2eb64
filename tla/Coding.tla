------------------------------- MODULE Coding -------------------------------
(***************************************************************************)
(* The erasure code of owner repair                                         *)
(* (crates/wildbloomd/src/replicas/coding.rs): arithmetic in GF(256),       *)
(* matrices as sequences of rows, the systematic generator and the          *)
(* transform that makes every part from any k of them.  Parts are counted   *)
(* from 1 here, from 0 in the code.                                         *)
(***************************************************************************)
EXTENDS Naturals, Sequences

Byte == 0..255

xor[a \in Byte, b \in Byte] ==
    IF a = 0 THEN b ELSE IF b = 0 THEN a ELSE ((a + b) % 2) + 2 * xor[a \div 2, b \div 2]

\* a << 1 in the field
Doubled == [a \in Byte |-> xor[(2 * a) % 256, IF a >= 128 THEN 29 ELSE 0]]

mul[a \in Byte, b \in Byte] ==
    IF b = 0 THEN 0 ELSE xor[IF b % 2 = 1 THEN a ELSE 0, mul[Doubled[a], b \div 2]]

Square == [a \in Byte |-> mul[a, a]]

\* n factors a; an even number of them is the square of half of them.
power[a \in Byte, n \in 0..254] ==
    IF n = 0 THEN 1
    ELSE mul[Square[power[a, n \div 2]], IF n % 2 = 0 THEN 1 ELSE a]

\* <<Op(1), ..., Op(n)>>
Built(n, Op(_)) == LET b[i \in 1..(n + 1)] == IF i > n THEN <<>> ELSE <<Op(i)>> \o b[i + 1] IN b[1]

Scaled(row, f) == Built(Len(row), LAMBDA i : mul[row[i], f])
Plus(r, s) == Built(Len(r), LAMBDA i : xor[r[i], s[i]])

\* Mutant: the row of the column is taken as it is.
pivot_Own(work, col) == col

\* The first row at or below the column's that has something in it.
pivot(work, col) == CHOOSE r \in col..Len(work) : work[r][col] # 0 /\ \A q \in col..(r - 1) : work[q][col] = 0

\* One column of the elimination.
Eliminated(work, col) ==
    LET p == pivot(work, col)
        swapped == [work EXCEPT ![col] = work[p], ![p] = work[col]]
        row == Scaled(swapped[col], power[swapped[col][col], 254])
    IN Built(Len(work), LAMBDA r : IF r = col THEN row ELSE Plus(swapped[r], Scaled(row, swapped[r][col])))

Unit(n, r) == Built(n, LAMBDA c : IF c = r THEN 1 ELSE 0)

invert(matrix) ==
    LET n == Len(matrix)
        work[c \in 0..n] == IF c = 0 THEN Built(n, LAMBDA r : matrix[r] \o Unit(n, r)) ELSE Eliminated(work[c - 1], c)
        done == work[n]
    IN Built(n, LAMBDA r : SubSeq(done[r], n + 1, 2 * n))

\* combine, for one byte of every input
combine(row, inputs) ==
    LET sum[i \in 1..(Len(inputs) + 1)] ==
            IF i > Len(inputs) THEN 0 ELSE xor[mul[row[i], inputs[i]], sum[i + 1]]
    IN sum[1]

product(a, b) ==
    IF <<>> \in {a, b} THEN <<>> ELSE
    Built(Len(a), LAMBDA r : Built(Len(b[1]), LAMBDA c : combine(a[r], Built(Len(b), LAMBDA i : b[i][c]))))

generator(k, n) ==
    LET v == Built(n, LAMBDA r : Built(k, LAMBDA c : power[r - 1, c - 1]))
    IN product(v, invert(SubSeq(v, 1, k)))

Rows(matrix, chosen) == Built(Len(chosen), LAMBDA i : matrix[chosen[i]])

\* From the chosen parts to all of them.
transform(k, n, chosen) == LET m == generator(k, n) IN product(m, invert(Rows(m, chosen)))

-----------------------------------------------------------------------------
(* The reference: a part is a polynomial of degree below k at the part's    *)
(* place, so the chosen parts fix it by interpolation.                      *)

Without(chosen, j) == SelectSeq(chosen, LAMBDA l : l # chosen[j])
Product(s, Op(_)) == LET p[i \in 1..(Len(s) + 1)] == IF i > Len(s) THEN 1 ELSE mul[Op(s[i]), p[i + 1]] IN p[1]

\* What the j-th chosen part contributes to part i.
Weight(i, j, chosen) ==
    LET others == Without(chosen, j)
        above == Product(others, LAMBDA l : xor[i - 1, l - 1])
        below == Product(others, LAMBDA l : xor[chosen[j] - 1, l - 1])
    IN mul[above, power[below, 254]]

Interpolation(n, chosen) == Built(n, LAMBDA i : Built(Len(chosen), LAMBDA j : Weight(i, j, chosen)))
=============================================================================
