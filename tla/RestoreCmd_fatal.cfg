SPECIFICATION Spec
INVARIANT NoMgrLeakOnFailure
