----------------------------- MODULE MCMigrations -----------------------------
(* A small instance of Migrations for TLC: releases that extend one         *)
(* another, one that fills a gap, and one that edits a migration.           *)
EXTENDS Migrations

M(version, stamp) == [version |-> version, stamp |-> stamp]

MCReleases == { {M(1, 0)},
                {M(1, 0), M(3, 0)},
                {M(1, 0), M(2, 0), M(3, 0)},
                {M(1, 0), M(2, 1)} }
=============================================================================
