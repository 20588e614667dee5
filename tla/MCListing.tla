------------------------------ MODULE MCListing ------------------------------
EXTENDS Listing

\* No limit, limits within and beyond the largest page.
MCLimits == {0, 1, 2, 3}

RowSymmetry == Permutations(Rows)
=============================================================================
