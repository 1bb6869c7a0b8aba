------------------------------ MODULE MCMigration ------------------------------
EXTENDS SchemaMigration, TLC
================================================================================
