----------------------------- MODULE MCPublishBatch -----------------------------
EXTENDS PublishBatch
================================================================================
