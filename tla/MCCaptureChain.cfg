SPECIFICATION Spec
INVARIANTS TypeOK AnalysisLag NoisyReference FrameCarriesResult
 
