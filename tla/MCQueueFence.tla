---------------------------- MODULE MCQueueFence ----------------------------
EXTENDS QueueFence
=============================================================================
