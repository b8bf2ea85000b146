----------------------------- MODULE MCStamper -----------------------------
EXTENDS Stamper

\* Source timestamps: a run of nanoseconds around zero (rem_euclid, not %), so
\* that ticks of two are shared, skipped and exhausted.
FewNs == -2..3
=============================================================================
